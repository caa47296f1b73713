------------------------ MODULE WalletExchangeProofs ------------------------
(***************************************************************************)
(* Theorems about WalletExchange and the sessions of TenantSessions it     *)
(* extends: types and the limit, who holds or left which session, whose    *)
(* wrapper is around fetch, and where the credential of a used offer is.   *)
(* The inductive invariant IInv has a part for each; every part is kept by *)
(* the step lemmas of its section.                                         *)
(***************************************************************************)
EXTENDS WalletExchange, FiniteSetTheorems, TLAPS

-----------------------------------------------------------------------------
(* Tables *)

\* Put keeps a table a table.
LEMMA PutType ==
    ASSUME NEW Keys, NEW Rows, NEW table, IsTable(table, Keys, Rows),
           NEW key \in Keys, NEW row \in Rows
    PROVE  IsTable(Put(table, key, row), Keys, Rows)
BY DEF IsTable, Put

\* Without keeps a table a table.
LEMMA WithoutType ==
    ASSUME NEW Keys, NEW Rows, NEW table, IsTable(table, Keys, Rows), NEW keys
    PROVE  IsTable(Without(table, keys), Keys, Rows)
BY DEF IsTable, Without

\* A table may be empty.
LEMMA EmptyType ==
    ASSUME NEW Keys, NEW Rows
    PROVE  IsTable(EmptyTable, Keys, Rows) /\ DOMAIN EmptyTable = {}
BY DEF IsTable, EmptyTable

-----------------------------------------------------------------------------
(* The inductive invariant *)

Call == [kind: Kinds, step: Nat, keys: SUBSET {"apiKey", "jwt"}]

\* What SessionTypeOK says of the open sessions.
Allowed(open) ==
    /\ open \subseteq (1..started) \X Nat
    /\ IsFiniteSet(open) /\ Cardinality(open) <= SessionLimit

\* What SessionTypeOK says of the calls that run.
CallsOK(table) ==
    /\ IsTable(table, 1..started, Call)
    /\ \A c \in DOMAIN table : table[c].step <= Len(Script[table[c].kind])

-----------------------------------------------------------------------------
(* Helpers *)

\* Every script has a length.
LEMMA ScriptLength == \A kind \in Kinds : Len(Script[kind]) \in Nat
BY DEF Kinds, Script, GetPendingOffers, FoundGenericId, AcceptOffer, UseOfferRequest, ResolveOffer,
       CreateOffer, Login, Provision, DefineCredential, ProofEvent

\* Ending sessions keeps to the limit.
LEMMA Fewer ==
    ASSUME SessionTypeOK, NEW open, open \subseteq sessions
    PROVE  Allowed(open)
<1>1. IsFiniteSet(open) /\ Cardinality(open) <= Cardinality(sessions)
  BY FS_Subset DEF SessionTypeOK
<1>2. Cardinality(open) \in Nat /\ Cardinality(sessions) \in Nat
  BY <1>1, FS_CardinalityType DEF SessionTypeOK
<1>. QED  BY <1>1, <1>2, SessionAssumption DEF Allowed, SessionTypeOK

\* One more session is opened only when there is room for it.
LEMMA OneMore ==
    ASSUME SessionTypeOK, Free, NEW c \in 1..started, NEW n \in Nat
    PROVE  Allowed(sessions \cup {<<c, n>>})
<1>1. /\ IsFiniteSet(sessions \cup {<<c, n>>})
      /\ Cardinality(sessions \cup {<<c, n>>}) <= Cardinality(sessions) + 1
  <2>1. IsFiniteSet(sessions) /\ Cardinality(sessions) \in Nat  BY FS_CardinalityType DEF SessionTypeOK
  <2>2. /\ IsFiniteSet(sessions \cup {<<c, n>>})
        /\ Cardinality(sessions \cup {<<c, n>>}) =
              IF <<c, n>> \in sessions THEN Cardinality(sessions) ELSE Cardinality(sessions) + 1
    BY <2>1, FS_AddElement
  <2>. QED  BY <2>1, <2>2
<1>2. Cardinality(sessions) \in Nat /\ Cardinality(sessions \cup {<<c, n>>}) \in Nat
  BY <1>1, FS_CardinalityType DEF SessionTypeOK
<1>3. Cardinality(sessions \cup {<<c, n>>}) <= SessionLimit
  BY <1>1, <1>2, SessionAssumption DEF Free
<1>4. sessions \cup {<<c, n>>} \subseteq (1..started) \X Nat  BY DEF SessionTypeOK
<1>. QED  BY <1>1, <1>3, <1>4 DEF Allowed

\* The sessions of one handler can be counted.
LEMMA OwnCount == ASSUME SessionTypeOK, NEW c PROVE Cardinality(Own(c)) \in Nat
<1>1. Own(c) \subseteq sessions  BY DEF Own
<1>2. IsFiniteSet(Own(c))  BY <1>1, FS_Subset DEF SessionTypeOK
<1>. QED  BY <1>2, FS_CardinalityType

\* A handler that goes on, or answers, leaves calls and sessions as they should be.
LEMMA GoToType ==
    ASSUME SessionTypeOK, NEW c \in DOMAIN calls, NEW step \in Nat, NEW open, Allowed(open),
           GoTo(c, step, open)
    PROVE  CallsOK(calls') /\ Allowed(sessions')
<1>1. CallsOK(calls)  BY DEF SessionTypeOK, CallsOK, Call
<1>2. c \in 1..started /\ calls[c] \in Call  BY <1>1 DEF CallsOK, IsTable
<1>3. CASE step > Len(Script[calls[c].kind])
  <2>1. calls' = Without(calls, {c}) /\ sessions' = Finished(c, open)  BY <1>3 DEF GoTo, Answer
  <2>2. IsTable(calls', 1..started, Call)  BY <1>1, <2>1, WithoutType DEF CallsOK
  <2>3. \A d \in DOMAIN calls' : d \in DOMAIN calls /\ calls'[d] = calls[d]  BY <2>1 DEF Without
  <2>4. CallsOK(calls')  BY <1>1, <2>2, <2>3 DEF CallsOK
  <2>5. Finished(c, open) \subseteq open  BY DEF Finished
  <2>6. IsFiniteSet(Finished(c, open)) /\ Cardinality(Finished(c, open)) <= Cardinality(open)
    BY <2>5, FS_Subset DEF Allowed
  <2>7. Cardinality(Finished(c, open)) \in Nat /\ Cardinality(open) \in Nat
    BY <2>6, FS_CardinalityType DEF Allowed
  <2>8. Cardinality(Finished(c, open)) <= SessionLimit
    BY <2>6, <2>7, SessionAssumption DEF Allowed
  <2>. QED  BY <2>1, <2>4, <2>5, <2>6, <2>8 DEF Allowed
<1>4. CASE ~(step > Len(Script[calls[c].kind]))
  <2>. DEFINE row == [calls[c] EXCEPT !.step = step]
  <2>1. calls' = Put(calls, c, row) /\ sessions' = open  BY <1>4 DEF GoTo
  <2>2. row \in Call /\ row.step = step /\ row.kind = calls[c].kind  BY <1>2 DEF Call
  <2>. HIDE DEF row
  <2>3. IsTable(calls', 1..started, Call)  BY <1>1, <1>2, <2>1, <2>2, PutType DEF CallsOK
  <2>4. \A d \in DOMAIN calls' : calls'[d] = row \/ (d \in DOMAIN calls /\ calls'[d] = calls[d])
    BY <2>1 DEF Put
  <2>5. calls[c].kind \in Kinds  BY <1>2 DEF Call
  <2>6. step <= Len(Script[row.kind])  BY <1>4, <2>2, <2>5, ScriptLength
  <2>7. CallsOK(calls')  BY <1>1, <2>2, <2>3, <2>4, <2>6 DEF CallsOK
  <2>. QED  BY <2>1, <2>7
<1>. QED  BY <1>3, <1>4

\* A step that throws does too, caught or not.
LEMMA ThrowType ==
    ASSUME SessionTypeOK, NEW c \in DOMAIN calls, Throw(c)
    PROVE  CallsOK(calls') /\ Allowed(sessions') /\ blame' \in [Ids -> SUBSET Reasons]
<1>. DEFINE next == Caught(calls[c].kind, calls[c].step)
            kept == IF calls[c].kind \in Tidy THEN sessions \ Own(c) ELSE sessions
<1>1. blame' \in [Ids -> SUBSET Reasons]
  BY DEF Throw, Blame, SessionTypeOK, Reasons
<1>2. CASE next > 0
  <2>1. GoTo(c, next, sessions \ {s \in Own(c) : s[2] > 1})  BY <1>2 DEF Throw
  <2>2. next \in Nat  BY DEF Caught
  <2>3. Allowed(sessions \ {s \in Own(c) : s[2] > 1})  BY Fewer
  <2>. HIDE DEF next
  <2>. QED  BY <1>1, <2>1, <2>2, <2>3, GoToType
<1>3. CASE ~(next > 0)
  <2>1. calls' = Without(calls, {c}) /\ sessions' = Finished(c, kept)  BY <1>3 DEF Throw, Answer
  <2>2. CallsOK(calls)  BY DEF SessionTypeOK, CallsOK, Call
  <2>3. IsTable(calls', 1..started, Call)  BY <2>1, <2>2, WithoutType DEF CallsOK
  <2>4. \A d \in DOMAIN calls' : d \in DOMAIN calls /\ calls'[d] = calls[d]  BY <2>1 DEF Without
  <2>5. CallsOK(calls')  BY <2>2, <2>3, <2>4 DEF CallsOK
  <2>6. sessions' \subseteq sessions  BY <2>1 DEF Finished
  <2>. QED  BY <1>1, <2>5, <2>6, Fewer
<1>. QED  BY <1>2, <1>3

\* The parts of the type invariant, when no call begins.
LEMMA Together ==
    ASSUME SessionTypeOK, UNCHANGED started, CallsOK(calls'), Allowed(sessions'),
           asking' \subseteq 1..started, blame' \in [Ids -> SUBSET Reasons],
           failures' = failures \/ Failure
    PROVE  SessionTypeOK'
<1>1. failures' \in 0..MaxFailures  BY SessionAssumption DEF Failure, SessionTypeOK
<1>. QED  BY <1>1 DEF SessionTypeOK, CallsOK, Allowed, Call

\* What Proceed does.
LEMMA ProceedType ==
    ASSUME SessionTypeOK, NEW c \in DOMAIN calls, NEW open, Allowed(open), Proceed(c, open)
    PROVE  CallsOK(calls') /\ Allowed(sessions') /\ blame' \in [Ids -> SUBSET Reasons]
<1>1. calls[c].step + 1 \in Nat  BY DEF SessionTypeOK, IsTable
<1>2. GoTo(c, calls[c].step + 1, open) /\ blame' = blame  BY DEF Proceed
<1>. QED  BY <1>1, <1>2, GoToType DEF SessionTypeOK

\* A step that goes on without touching the sessions, and one that throws.
LEMMA AwaitedType ==
    ASSUME SessionTypeOK, NEW c \in DOMAIN calls, UNCHANGED <<asking, started>>,
           failures' = failures \/ Failure, Proceed(c, sessions) \/ Throw(c)
    PROVE  SessionTypeOK'
<1>1. Allowed(sessions)  BY Fewer
<1>2. CallsOK(calls') /\ Allowed(sessions') /\ blame' \in [Ids -> SUBSET Reasons]
  BY <1>1, ProceedType, ThrowType
<1>3. asking' \subseteq 1..started  BY DEF SessionTypeOK
<1>. QED  BY <1>2, <1>3, Together

-----------------------------------------------------------------------------
(* The steps of TenantSessions *)

\* A call arrives.
LEMMA ArriveType ==
    ASSUME SessionTypeOK, NEW kind \in Kinds, NEW keys \in Presented[kind], Arrive(kind, keys)
    PROVE  SessionTypeOK'
<1>. DEFINE row == [kind |-> kind, keys |-> keys, step |-> IF keys = {"jwt"} THEN 0 ELSE 1]
<1>1. /\ calls' = Put(calls, started', row) /\ started' = started + 1 /\ started < MaxCalls
      /\ UNCHANGED <<sessions, failures>>
  BY DEF Arrive
<1>2. started' \in 0..MaxCalls /\ started \in Nat /\ started' \in 1..started' /\ started' \in Ids
  BY <1>1, SessionAssumption DEF SessionTypeOK, Ids
<1>3. keys \in SUBSET {"apiKey", "jwt"}  BY DEF Presented
<1>4. row \in Call /\ row.step <= 1 /\ row.kind = kind  BY <1>3 DEF Call
<1>5. 1 <= Len(Script[kind])
  BY DEF Kinds, Script, GetPendingOffers, FoundGenericId, AcceptOffer, UseOfferRequest, ResolveOffer,
         CreateOffer, Login, Provision, DefineCredential, ProofEvent
<1>. HIDE DEF row
<1>6. 1..started \subseteq 1..started'  BY <1>1, <1>2
<1>7. IsTable(calls, 1..started', Call)  BY <1>6 DEF SessionTypeOK, IsTable, Call
<1>8. IsTable(calls', 1..started', Call)  BY <1>1, <1>2, <1>4, <1>7, PutType
<1>9. \A c \in DOMAIN calls' : calls'[c] = row \/ (c \in DOMAIN calls /\ calls'[c] = calls[c])
  BY <1>1 DEF Put
<1>10. row.step <= Len(Script[row.kind])
  <2>1. row.step \in Nat /\ Len(Script[kind]) \in Nat  BY <1>4, ScriptLength DEF Call
  <2>. QED  BY <1>4, <1>5, <2>1
<1>11. \A c \in DOMAIN calls' : calls'[c].step <= Len(Script[calls'[c].kind])
  BY <1>9, <1>10 DEF SessionTypeOK
<1>12. asking' \subseteq 1..started'
  BY <1>2, <1>6 DEF Arrive, SessionTypeOK
<1>13. blame' \in [Ids -> SUBSET Reasons]
  BY <1>2 DEF Arrive, SessionTypeOK, Reasons
<1>14. sessions' \subseteq (1..started') \X Nat
  BY <1>1, <1>6 DEF SessionTypeOK
<1>. QED
  BY <1>1, <1>2, <1>8, <1>11, <1>12, <1>13, <1>14 DEF SessionTypeOK, Call

\* The steps of the token and of the handler.
LEMMA SessionStepType == ASSUME SessionTypeOK, NEW c \in Ids, SessionStep(c) PROVE SessionTypeOK'
<1>1. CASE TokenSession(c)
  <2>1. c \in 1..started  BY <1>1 DEF TokenSession, SessionTypeOK
  <2>2. Allowed(sessions')  BY <1>1, <2>1, OneMore DEF TokenSession
  <2>3. CallsOK(calls')
    <3>. DEFINE row == [calls[c] EXCEPT !.step = 1]
    <3>1. CallsOK(calls)  BY DEF SessionTypeOK, CallsOK, Call
    <3>2. CASE c \in DOMAIN calls /\ calls[c].step = 0
      <4>1. calls' = Put(calls, c, row)  BY <1>1, <3>2 DEF TokenSession
      <4>2. calls[c] \in Call  BY <3>1, <3>2 DEF CallsOK, IsTable
      <4>3. row \in Call /\ row.step = 1 /\ row.kind = calls[c].kind  BY <4>2 DEF Call
      <4>4. calls[c].kind \in Kinds  BY <4>2 DEF Call
      <4>. HIDE DEF row
      <4>5. 1 <= Len(Script[row.kind])
        BY <4>3, <4>4 DEF Kinds, Script, GetPendingOffers, FoundGenericId, AcceptOffer, UseOfferRequest,
           ResolveOffer, CreateOffer, Login, Provision, DefineCredential, ProofEvent
      <4>6. IsTable(calls', 1..started, Call)  BY <2>1, <3>1, <4>1, <4>3, PutType DEF CallsOK
      <4>7. \A d \in DOMAIN calls' : calls'[d] = row \/ (d \in DOMAIN calls /\ calls'[d] = calls[d])
        BY <4>1 DEF Put
      <4>. QED  BY <3>1, <4>3, <4>5, <4>6, <4>7 DEF CallsOK
    <3>3. CASE ~(c \in DOMAIN calls /\ calls[c].step = 0)
      BY <1>1, <3>1, <3>3 DEF TokenSession
    <3>. QED  BY <3>2, <3>3
  <2>4. asking' \subseteq 1..started  BY <1>1 DEF TokenSession, SessionTypeOK
  <2>5. blame' \in [Ids -> SUBSET Reasons]  BY <1>1 DEF TokenSession, Blame, SessionTypeOK, Reasons
  <2>6. UNCHANGED <<started, failures>>  BY <1>1 DEF TokenSession
  <2>. QED  BY <2>2, <2>3, <2>4, <2>5, <2>6, Together
<1>2. CASE TokenRefused(c)
  <2>1. Allowed(sessions')  BY <1>2, Fewer DEF TokenRefused
  <2>2. CallsOK(calls)  BY DEF SessionTypeOK, CallsOK, Call
  <2>3. CallsOK(Without(calls, {c}))
    <3>1. IsTable(Without(calls, {c}), 1..started, Call)  BY <2>2, WithoutType DEF CallsOK
    <3>2. \A d \in DOMAIN Without(calls, {c}) : d \in DOMAIN calls /\ Without(calls, {c})[d] = calls[d]
      BY DEF Without
    <3>. QED  BY <2>2, <3>1, <3>2 DEF CallsOK
  <2>4. CallsOK(calls')  BY <1>2, <2>2, <2>3 DEF TokenRefused
  <2>5. asking' \subseteq 1..started  BY <1>2 DEF TokenRefused, SessionTypeOK
  <2>6. failures' = failures \/ Failure  BY <1>2 DEF TokenRefused, NoSession
  <2>7. blame' \in [Ids -> SUBSET Reasons] /\ UNCHANGED started  BY <1>2 DEF TokenRefused, SessionTypeOK
  <2>. QED  BY <2>1, <2>4, <2>5, <2>6, <2>7, Together
<1>3. CASE Open(c)
  <2>1. c \in DOMAIN calls /\ c \in 1..started  BY <1>3 DEF Open, At, SessionTypeOK, IsTable
  <2>2. Cardinality(Own(c)) + 1 \in Nat  BY OwnCount
  <2>3. Allowed(sessions \cup {<<c, Cardinality(Own(c)) + 1>>})  BY <1>3, <2>1, <2>2, OneMore DEF Open
  <2>4. CallsOK(calls') /\ Allowed(sessions') /\ blame' \in [Ids -> SUBSET Reasons]
    BY <1>3, <2>1, <2>3, ProceedType DEF Open
  <2>5. asking' \subseteq 1..started /\ UNCHANGED <<started, failures>>  BY <1>3 DEF Open, SessionTypeOK
  <2>. QED  BY <2>4, <2>5, Together
<1>4. CASE OpenRefused(c)
  <2>1. failures' = failures \/ Failure  BY <1>4 DEF OpenRefused, NoSession
  <2>. QED  BY <1>4, <2>1, AwaitedType DEF OpenRefused, At
<1>5. CASE Close(c)
  <2>1. c \in DOMAIN calls  BY <1>5 DEF Close, At
  <2>2. Allowed(sessions \ {Innermost(c)})  BY Fewer
  <2>3. CallsOK(calls') /\ Allowed(sessions') /\ blame' \in [Ids -> SUBSET Reasons]
    BY <1>5, <2>1, <2>2, ProceedType DEF Close
  <2>4. asking' \subseteq 1..started /\ UNCHANGED <<started, failures>>  BY <1>5 DEF Close, SessionTypeOK
  <2>. QED  BY <2>3, <2>4, Together
<1>6. CASE Awaited(c)  BY <1>6, AwaitedType DEF Awaited, At
<1>7. CASE AwaitThrows(c)  BY <1>7, AwaitedType DEF AwaitThrows, At
<1>. QED  BY <1>1, <1>2, <1>3, <1>4, <1>5, <1>6, <1>7 DEF SessionStep

\* A client hangs up; the process dies.
LEMMA HangUpType == ASSUME SessionTypeOK, NEW c \in Ids, HangUp(c) PROVE SessionTypeOK'
<1>1. failures' \in 0..MaxFailures  BY SessionAssumption DEF HangUp, Failure, SessionTypeOK
<1>2. blame' \in [Ids -> SUBSET Reasons]  BY DEF HangUp, Blame, SessionTypeOK, Reasons
<1>. QED  BY <1>1, <1>2 DEF HangUp, SessionTypeOK

LEMMA SessionCrashType == ASSUME SessionTypeOK, SessionCrash PROVE SessionTypeOK'
<1>1. failures' \in 0..MaxFailures  BY SessionAssumption DEF SessionCrash, Failure, SessionTypeOK
<1>2. blame' \in [Ids -> SUBSET Reasons]  BY DEF SessionCrash, SessionTypeOK, Reasons
<1>3. IsTable(calls', 1..started', Call) /\ DOMAIN calls' = {}  BY EmptyType DEF SessionCrash
<1>4. IsFiniteSet({}) /\ Cardinality({}) = 0  BY FS_EmptySet
<1>5. Cardinality(sessions') <= SessionLimit /\ IsFiniteSet(sessions')
  BY <1>4, SessionAssumption DEF SessionCrash
<1>. QED  BY <1>1, <1>2, <1>3, <1>5 DEF SessionCrash, SessionTypeOK, Call

-----------------------------------------------------------------------------
(* The steps of WalletExchange *)

LEMMA InitType == ASSUME Init PROVE TypeOK
<1>1. IsTable(calls, 1..started, Call) /\ DOMAIN calls = {}  BY EmptyType DEF Init, SessionInit
<1>2. IsFiniteSet({}) /\ Cardinality({}) = 0  BY FS_EmptySet
<1>3. Cardinality(sessions) <= SessionLimit /\ IsFiniteSet(sessions)
  BY <1>2, SessionAssumption DEF Init, SessionInit
<1>4. started \in 0..MaxCalls /\ failures \in 0..MaxFailures  BY SessionAssumption DEF Init, SessionInit
<1>5. SessionTypeOK
  BY <1>1, <1>3, <1>4 DEF Init, SessionInit, SessionTypeOK, Call
<1>6. IsTable(original, Ids, Seq(Ids)) /\ IsTable(redeemed, Offers, Ids)  BY EmptyType DEF Init
<1>7. /\ cached \in BOOLEAN /\ informed \subseteq Ids /\ fetch \in Seq(Ids)
      /\ overlaps \subseteq Ids \X Ids /\ held \subseteq Offers \X Wallets
  BY DEF Init
<1>. QED  BY <1>5, <1>6, <1>7 DEF TypeOK

\* Every step keeps the types.
LEMMA StepType == ASSUME TypeOK, [Next]_vars PROVE TypeOK'
<1>1. CASE UNCHANGED vars
  BY <1>1 DEF vars, sessionVars, exchangeVars, TypeOK, SessionTypeOK, IsTable
<1>2. ASSUME SessionTypeOK', UNCHANGED exchangeVars PROVE TypeOK'
  BY <1>2 DEF exchangeVars, TypeOK, IsTable
<1>3. CASE Crash
  <2>1. SessionTypeOK'  BY <1>3, SessionCrashType DEF Crash, TypeOK
  <2>2. IsTable(original', Ids, Seq(Ids))  BY <1>3, EmptyType DEF Crash
  <2>3. fetch' \in Seq(Ids) /\ informed' \subseteq Ids /\ cached' \in BOOLEAN
    <3>1. fetch' = <<>> /\ informed' = {} /\ cached' = FALSE  BY <1>3 DEF Crash
    <3>2. <<>> \in Seq(Ids)  OBVIOUS
    <3>. QED  BY <3>1, <3>2
  <2>4. overlaps' \subseteq Ids \X Ids /\ held' \subseteq Offers \X Wallets  BY <1>3 DEF Crash, TypeOK
  <2>5. IsTable(redeemed', Offers, Ids)  BY <1>3 DEF Crash, TypeOK
  <2>. QED  BY <2>1, <2>2, <2>3, <2>4, <2>5 DEF TypeOK
<1>4. ASSUME NEW kind \in Kinds, NEW keys \in Presented[kind], Arrive(kind, keys), UNCHANGED exchangeVars
      PROVE  TypeOK'
  BY <1>2, <1>4, ArriveType DEF TypeOK
<1>5. ASSUME NEW c \in Ids, HangUp(c), UNCHANGED exchangeVars PROVE TypeOK'
  BY <1>2, <1>5, HangUpType DEF TypeOK
<1>6. ASSUME NEW c \in Ids, Step(c) PROVE TypeOK'
  <2>1. CASE SessionStep(c) /\ UNCHANGED exchangeVars  BY <1>2, <2>1, SessionStepType DEF TypeOK
  <2>2. CASE ReadMetadata(c)
    <3>1. SessionTypeOK'  BY <2>2, AwaitedType DEF ReadMetadata, At, TypeOK
    <3>. QED  BY <2>2, <3>1 DEF ReadMetadata, TypeOK, IsTable
  <2>3. CASE Override(c)
    <3>1. SessionTypeOK'  BY <2>3, AwaitedType DEF Override, At, TypeOK
    <3>2. fetch \in Seq(Ids) /\ IsTable(original, Ids, Seq(Ids))  BY DEF TypeOK
    <3>3. <<c>> \o fetch \in Seq(Ids)  BY <3>2
    <3>4. IsTable(Put(original, c, fetch), Ids, Seq(Ids))  BY <3>2, PutType
    <3>5. fetch' \in Seq(Ids) /\ IsTable(original', Ids, Seq(Ids))  BY <2>3, <3>2, <3>3, <3>4 DEF Override
    <3>6. overlaps' \subseteq Ids \X Ids  BY <2>3, <3>2 DEF Override, Inside, TypeOK, IsTable
    <3>. QED  BY <2>3, <3>1, <3>5, <3>6 DEF Override, TypeOK, IsTable
  <2>4. ASSUME SessionTypeOK', Restore(c), UNCHANGED <<cached, informed, overlaps, redeemed, held>>
        PROVE  TypeOK'
    <3>1. fetch' \in Seq(Ids)  BY <2>4 DEF Restore, Inside, TypeOK, IsTable
    <3>2. IsTable(original', Ids, Seq(Ids))  BY <2>4, WithoutType DEF Restore, TypeOK
    <3>. QED  BY <2>4, <3>1, <3>2 DEF TypeOK, IsTable
  <2>5. CASE Resolved(c)
    <3>1. SessionTypeOK'  BY <2>5, AwaitedType DEF Resolved, At, TypeOK
    <3>. QED  BY <2>4, <2>5, <3>1 DEF Resolved
  <2>6. CASE ResolveThrows(c)
    <3>1. SessionTypeOK'  BY <2>6, AwaitedType DEF ResolveThrows, At, TypeOK
    <3>. QED  BY <2>4, <2>6, <3>1 DEF ResolveThrows
  <2>7. CASE Announce(c)
    <3>1. SessionTypeOK'  BY <2>7, AwaitedType DEF Announce, At, TypeOK
    <3>. QED  BY <2>7, <3>1 DEF Announce, TypeOK, IsTable
  <2>8. CASE AnnounceThrows(c)
    <3>1. SessionTypeOK'  BY <2>8, AwaitedType DEF AnnounceThrows, At, TypeOK
    <3>. QED  BY <1>2, <2>8, <3>1 DEF AnnounceThrows
  <2>9. ASSUME SessionTypeOK', redeemed' = redeemed \/ \E o \in Offers : redeemed' = Put(redeemed, o, c),
               UNCHANGED <<cached, informed, fetch, original, overlaps, held>>
        PROVE  TypeOK'
    <3>1. IsTable(redeemed', Offers, Ids)  BY <2>9, PutType DEF TypeOK
    <3>. QED  BY <2>9, <3>1 DEF TypeOK, IsTable
  <2>10. ASSUME NEW o \in Offers, Redeem(c, o) PROVE TypeOK'
    <3>1. SessionTypeOK'  BY <2>10, AwaitedType DEF Redeem, At, TypeOK
    <3>. QED  BY <2>9, <2>10, <3>1 DEF Redeem
  <2>11. CASE RedeemThrows(c)
    <3>1. SessionTypeOK'  BY <2>11, AwaitedType DEF RedeemThrows, At, TypeOK
    <3>2. redeemed' = redeemed \/ \E o \in Offers : redeemed' = Put(redeemed, o, c)
      BY <2>11 DEF RedeemThrows
    <3>. QED  BY <2>9, <2>11, <3>1, <3>2 DEF RedeemThrows
  <2>12. CASE Store(c)
    <3>1. SessionTypeOK'  BY <2>12, AwaitedType DEF Store, At, TypeOK
    <3>2. held' \subseteq Offers \X Wallets
      BY <2>12 DEF Store, Redeemed, WalletOf, Wallets, TypeOK, IsTable
    <3>. QED  BY <2>12, <3>1, <3>2 DEF Store, TypeOK, IsTable
  <2>13. CASE NotStored(c)
    <3>1. c \in DOMAIN calls /\ calls[c].step + 1 \in Nat  BY <2>13 DEF NotStored, At, TypeOK, SessionTypeOK, IsTable
    <3>2. CallsOK(calls') /\ Allowed(sessions')
      BY <2>13, <3>1, GoToType, Fewer DEF NotStored, TypeOK
    <3>3. blame' \in [Ids -> SUBSET Reasons] /\ asking' \subseteq 1..started
      BY <2>13 DEF NotStored, Blame, TypeOK, SessionTypeOK, Reasons
    <3>4. SessionTypeOK'  BY <2>13, <3>2, <3>3, Together DEF NotStored, TypeOK
    <3>. QED  BY <1>2, <2>13, <3>4 DEF NotStored
  <2>. QED
    BY <1>6, <2>1, <2>2, <2>3, <2>5, <2>6, <2>7, <2>8, <2>10, <2>11, <2>12, <2>13 DEF Step
<1>. QED  BY <1>1, <1>3, <1>4, <1>5, <1>6 DEF Next

-----------------------------------------------------------------------------
(* What a running handler holds *)

\* How many sessions a handler of each kind has open before each step of its script.
Depth == [pending |-> <<0, 1, 1, 0, 1, 1, 0>>, known |-> <<0, 1, 1>>, accept |-> <<0, 0, 0, 1, 1>>,
          use |-> <<0, 0, 0, 0, 0>>, resolve |-> <<0, 0, 0>>, offer |-> <<0, 1, 1>>,
          login |-> <<0, 1, 1>>, provision |-> <<0, 1, 1, 2, 2, 1, 1, 1>>,
          define |-> <<0, 0>>, proof |-> <<0, 1>>]

\* The same for a call that waits for its token or has come to its end.
DepthAt(kind, step) ==
    IF step = 0 THEN 0
    ELSE IF step <= Len(Script[kind]) THEN Depth[kind][step]
    ELSE IF kind = "proof" THEN 1 ELSE 0

\* A running handler holds the sessions it has opened, numbered from 1.
Holding ==
    \A c \in DOMAIN calls : Own(c) = {c} \X (1..DepthAt(calls[c].kind, calls[c].step))

\* The keys a call came with, and the session of the token that admitted it.
Admitted ==
    \A c \in DOMAIN calls :
        /\ calls[c].keys \in Presented[calls[c].kind]
        /\ calls[c].kind \in {"proof", "use"} => calls[c].kind \in blame[c]
        /\ "apiKey" \in calls[c].keys => "apiKey" \in blame[c]
        /\ calls[c].keys = {"jwt"} /\ calls[c].step > 0 => <<c, 0>> \in sessions

\* A token that is being turned into a session has none yet.
Asked == \A c \in asking : <<c, 0>> \notin sessions

\* What calls that have ended left open.
LeftOpen ==
    \A s \in sessions : s[1] \notin DOMAIN calls =>
        IF s[2] = 0 THEN {"hung", "late"} \cap blame[s[1]] # {}
                    ELSE {"proof", "failed"} \cap blame[s[1]] # {}

-----------------------------------------------------------------------------
(* The wrappers around fetch *)

\* A request that resolves an offer, inside withScopedIssuerFetch if it found metadata.
Resolves(c) ==
    c \in DOMAIN calls /\ calls[c].kind \in {"resolve", "use"} /\ calls[c].step = 3

\* A request that will not put a wrapper around fetch any more.
Overridden(c) ==
    c \in DOMAIN calls => calls[c].kind \in {"resolve", "use"} /\ calls[c].step >= 3

Overlapped(a) == \E b \in Ids : <<a, b>> \in overlaps
Shadowed(b)   == \E a \in Ids \ Inside : <<a, b>> \in overlaps

\* Requests inside are resolving, and who ever was inside never comes back.
Resolving ==
    /\ \A c \in Inside : Resolves(c)
    /\ \A p \in overlaps : p[1] <= started /\ Overridden(p[1])
    /\ \A i \in DOMAIN fetch : fetch[i] <= started /\ Overridden(fetch[i])

\* What a request will restore holds only wrappers that were overlapped, and those
\* of the requests that were inside before it, except where one was taken off already.
Restorable ==
    \A c \in Inside :
        /\ \A i \in DOMAIN original[c] : Overlapped(original[c][i])
        /\ \A b \in Inside \ {c} :
              \/ <<c, b>> \in overlaps
              \/ \E i \in DOMAIN original[c] : original[c][i] = b
              \/ Shadowed(b)

-----------------------------------------------------------------------------
(* The way of a credential *)

\* Its record is stored, or one useOfferRequest passes over.
Kept(o) == \/ <<o, "tenant">> \in held
           \/ "use" \in blame[redeemed[o]] /\ o \in Skipped
           \/ "apiKey" \in blame[redeemed[o]] /\ <<o, "base">> \in held

\* Where the request that used an offer up is in its script, or how it ended.
Fate(o) ==
    LET c == redeemed[o]
    IN IF c \in DOMAIN calls
       THEN \/ calls[c].kind = "use" /\ calls[c].step = 5
            \/ calls[c].kind = "accept" /\ calls[c].step \in {3, 4}
            \/ calls[c].kind = "accept" /\ calls[c].step = 5 /\ (Kept(o) \/ "store" \in blame[c])
       ELSE {"failed", "store", "crash"} \cap blame[c] # {} \/ Kept(o)

Underway == \A o \in DOMAIN redeemed : redeemed[o] <= started /\ Fate(o)

\* Credentials come from offers, and those of the base agent from requests it admitted.
Fetched == \A h \in held : /\ h[1] \in DOMAIN redeemed
                           /\ h[2] = "base" => "apiKey" \in blame[redeemed[h[1]]]

IInv == /\ TypeOK /\ Asked /\ Holding /\ Admitted /\ LeftOpen
        /\ Resolving /\ Restorable /\ OverrideScoped
        /\ Underway /\ Fetched

-----------------------------------------------------------------------------
(* What a step does to the sessions of its handler *)

HInv == Holding /\ Admitted /\ LeftOpen

\* The sessions that handler c has in a set of them.
OwnIn(c, open) == {s \in open : s[1] = c /\ s[2] > 0}

\* Between a step of a script and the next, the number of sessions held changes as
\* the step says; a failure that is caught leaves at most the outer one.
LEMMA DepthSteps ==
    ASSUME NEW kind \in Kinds, NEW step \in 1..Len(Script[kind])
    PROVE  LET what == Script[kind][step]
               d == DepthAt(kind, step)
               e == DepthAt(kind, step + 1)
           IN /\ d \in 0..2 /\ e \in 0..2
              /\ what = "open" => e = d + 1
              /\ what = "close" => d > 0 /\ e = d - 1
              /\ what \notin {"open", "close"} => e = d
              /\ Caught(kind, step) > 0 =>
                    DepthAt(kind, Caught(kind, step)) = IF d > 1 THEN 1 ELSE d
<1>1. CASE kind = "pending"
  BY <1>1 DEF Script, GetPendingOffers, DepthAt, Depth, Caught
<1>2. CASE kind = "known"
  BY <1>2 DEF Script, FoundGenericId, DepthAt, Depth, Caught
<1>3. CASE kind = "accept"
  BY <1>3 DEF Script, AcceptOffer, DepthAt, Depth, Caught
<1>4. CASE kind = "use"
  BY <1>4 DEF Script, UseOfferRequest, DepthAt, Depth, Caught
<1>5. CASE kind = "resolve"
  BY <1>5 DEF Script, ResolveOffer, DepthAt, Depth, Caught
<1>6. CASE kind = "offer"
  BY <1>6 DEF Script, CreateOffer, DepthAt, Depth, Caught
<1>7. CASE kind = "login"
  BY <1>7 DEF Script, Login, DepthAt, Depth, Caught
<1>8. CASE kind = "provision"
  BY <1>8 DEF Script, Provision, DepthAt, Depth, Caught
<1>9. CASE kind = "define"
  BY <1>9 DEF Script, DefineCredential, DepthAt, Depth, Caught
<1>10. CASE kind = "proof"
  BY <1>10 DEF Script, ProofEvent, DepthAt, Depth, Caught
<1>11. kind \in {"pending", "known", "accept", "use", "resolve", "offer", "login", "provision",
                 "define", "proof"}
  BY DEF Kinds, Script
<1>. QED  BY <1>1, <1>2, <1>3, <1>4, <1>5, <1>6, <1>7, <1>8, <1>9, <1>10, <1>11

\* A handler is at a step of its script.
LEMMA AtStep ==
    ASSUME SessionTypeOK, NEW c \in DOMAIN calls, calls[c].step > 0
    PROVE  /\ c \in 1..started /\ c \in Ids /\ calls[c] \in Call /\ calls[c].kind \in Kinds
           /\ calls[c].step \in 1..Len(Script[calls[c].kind])
           /\ calls[c].step + 1 \in Nat \ {0}
<1>1. c \in 1..started /\ calls[c] \in Call  BY DEF SessionTypeOK, IsTable, Call
<1>2. c \in Ids  BY <1>1, SessionAssumption DEF SessionTypeOK, Ids
<1>3. calls[c].kind \in Kinds /\ calls[c].step \in Nat  BY <1>1 DEF Call
<1>4. calls[c].step <= Len(Script[calls[c].kind])  BY DEF SessionTypeOK
<1>5. Len(Script[calls[c].kind]) \in Nat  BY <1>3, ScriptLength
<1>. QED  BY <1>1, <1>2, <1>3, <1>4, <1>5

\* What a handler leaves alone: the sessions of others, and that of its token.
Spares(c, open) ==
    /\ open \subseteq (Ids \X Nat)
    /\ \A s \in Ids \X Nat : s[1] # c => (s \in open <=> s \in sessions)
    /\ <<c, 0>> \in open <=> <<c, 0>> \in sessions

\* Nothing is taken back that is known of a call.
Grows == blame' \in [Ids -> SUBSET Reasons] /\ \A d \in Ids : blame[d] \subseteq blame'[d]

\* A call that ends with nothing of its own, or with what is known of it.
LEMMA AnswerHolds ==
    ASSUME SessionTypeOK, HInv, NEW c \in DOMAIN calls, NEW open, Spares(c, open), Grows,
           OwnIn(c, open) = {} \/ {"proof", "failed"} \cap blame'[c] # {},
           Answer(c, open)
    PROVE  HInv'
<1>1. /\ calls' = Without(calls, {c})
      /\ sessions' = IF "hung" \in blame[c] THEN open ELSE open \ {<<c, 0>>}
  BY DEF Answer, Finished
<1>2. /\ DOMAIN calls' = DOMAIN calls \ {c}
      /\ \A d \in DOMAIN calls' : calls'[d] = calls[d]
  BY <1>1 DEF Without
<1>3. DOMAIN calls \subseteq Ids /\ sessions \subseteq Ids \X Nat
  BY SessionAssumption DEF SessionTypeOK, IsTable, Ids
<1>4. \A s \in Ids \X Nat : s[1] # c => (s \in sessions' <=> s \in sessions)
  BY <1>1 DEF Spares
<1>5. sessions' \subseteq open /\ open \subseteq Ids \X Nat  BY <1>1 DEF Spares
<1>6. Holding'
  <2>1. ASSUME NEW d \in DOMAIN calls' PROVE Own(d)' = Own(d)
    <3>1. d # c /\ d \in Ids  BY <1>2, <1>3
    <3>. QED  BY <1>3, <1>4, <1>5, <3>1 DEF Own
  <2>. QED  BY <1>2, <2>1 DEF HInv, Holding
<1>7. Admitted'
  BY <1>2, <1>3, <1>4 DEF HInv, Admitted, Grows
<1>8. LeftOpen'
  <2>. SUFFICES ASSUME NEW s \in sessions', s[1] \notin DOMAIN calls'
                PROVE  IF s[2] = 0 THEN {"hung", "late"} \cap blame'[s[1]] # {}
                                   ELSE {"proof", "failed"} \cap blame'[s[1]] # {}
    BY DEF LeftOpen
  <2>1. s \in Ids \X Nat /\ s \in open  BY <1>5
  <2>2. CASE s[1] # c
    <3>1. s \in sessions /\ s[1] \notin DOMAIN calls  BY <1>2, <1>4, <2>1, <2>2
    <3>. QED  BY <2>1, <3>1 DEF HInv, LeftOpen, Grows
  <2>3. CASE s[1] = c /\ s[2] = 0
    <3>1. s = <<c, 0>>  BY <2>1, <2>3
    <3>2. "hung" \in blame[c]  BY <1>1, <3>1
    <3>. QED  BY <2>1, <2>3, <3>2 DEF Grows
  <2>4. CASE s[1] = c /\ s[2] # 0
    <3>1. s \in OwnIn(c, open)  BY <2>1, <2>4 DEF OwnIn
    <3>. QED  BY <2>4, <3>1
  <2>. QED  BY <2>2, <2>3, <2>4
<1>. QED  BY <1>6, <1>7, <1>8 DEF HInv

\* A handler that goes on with the sessions its next step is to have.
LEMMA GoToHolds ==
    ASSUME SessionTypeOK, HInv, NEW c \in DOMAIN calls, calls[c].step > 0,
           NEW step \in Nat \ {0}, NEW open,
           Spares(c, open), Grows, GoTo(c, step, open),
           OwnIn(c, open) = {c} \X (1..DepthAt(calls[c].kind, step))
    PROVE  HInv'
<1>1. /\ c \in Ids /\ calls[c] \in Call /\ calls[c].kind \in Kinds
      /\ Len(Script[calls[c].kind]) \in Nat
  BY AtStep, ScriptLength
<1>2. CASE step > Len(Script[calls[c].kind])
  <2>1. DepthAt(calls[c].kind, step) = IF calls[c].kind = "proof" THEN 1 ELSE 0
    BY <1>1, <1>2 DEF DepthAt
  <2>2. CASE calls[c].kind = "proof"
    <3>1. "proof" \in blame'[c]  BY <1>1, <2>2 DEF HInv, Admitted, Grows
    <3>. QED  BY <1>2, <3>1, AnswerHolds DEF GoTo
  <2>3. CASE calls[c].kind # "proof"
    <3>1. OwnIn(c, open) = {}  BY <2>1, <2>3
    <3>. QED  BY <1>2, <3>1, AnswerHolds DEF GoTo
  <2>. QED  BY <2>2, <2>3
<1>3. CASE ~(step > Len(Script[calls[c].kind]))
  <2>. DEFINE row == [calls[c] EXCEPT !.step = step]
  <2>1. calls' = Put(calls, c, row) /\ sessions' = open  BY <1>3 DEF GoTo
  <2>2. row.step = step /\ row.kind = calls[c].kind /\ row.keys = calls[c].keys  BY <1>1 DEF Call
  <2>. HIDE DEF row
  <2>3. /\ DOMAIN calls' = DOMAIN calls /\ calls'[c] = row
        /\ \A d \in DOMAIN calls' : d # c => calls'[d] = calls[d]
    BY <2>1 DEF Put
  <2>4. DOMAIN calls \subseteq Ids /\ sessions \subseteq Ids \X Nat
    BY SessionAssumption DEF SessionTypeOK, IsTable, Ids
  <2>5. Holding'
    <3>1. ASSUME NEW d \in DOMAIN calls', d # c PROVE Own(d)' = Own(d)
      BY <2>1, <2>3, <2>4, <3>1 DEF Own, Spares
    <3>2. Own(c)' = {c} \X (1..DepthAt(calls'[c].kind, calls'[c].step))
      BY <2>1, <2>2, <2>3 DEF Own, OwnIn
    <3>. QED  BY <2>3, <3>1, <3>2 DEF HInv, Holding
  <2>6. Admitted'
    <3>1. ASSUME NEW d \in DOMAIN calls' PROVE <<d, 0>> \in sessions' <=> <<d, 0>> \in sessions
      BY <2>1, <2>3, <2>4, <3>1 DEF Spares
    <3>2. ASSUME NEW d \in DOMAIN calls'
          PROVE  /\ calls'[d].kind = calls[d].kind /\ calls'[d].keys = calls[d].keys
                 /\ calls'[d].step > 0 => calls[d].step > 0
      BY <2>2, <2>3, <3>2
    <3>. QED  BY <2>3, <2>4, <3>1, <3>2 DEF HInv, Admitted, Grows
  <2>7. LeftOpen'
    <3>. SUFFICES ASSUME NEW s \in sessions', s[1] \notin DOMAIN calls'
                  PROVE  IF s[2] = 0 THEN {"hung", "late"} \cap blame'[s[1]] # {}
                                     ELSE {"proof", "failed"} \cap blame'[s[1]] # {}
      BY DEF LeftOpen
    <3>1. s \in Ids \X Nat /\ s[1] # c  BY <2>1, <2>3 DEF Spares
    <3>2. s \in sessions /\ s[1] \notin DOMAIN calls  BY <2>1, <2>3, <3>1 DEF Spares
    <3>. QED  BY <3>1, <3>2 DEF HInv, LeftOpen, Grows
  <2>. QED  BY <2>5, <2>6, <2>7 DEF HInv
<1>. QED  BY <1>2, <1>3

\* A step that leaves the sessions as they are.
LEMMA SameSessions == ASSUME SessionTypeOK, NEW c PROVE Spares(c, sessions) /\ Own(c) = OwnIn(c, sessions)
<1>1. 1..started \subseteq Ids  BY SessionAssumption DEF SessionTypeOK, Ids
<1>. QED  BY <1>1 DEF SessionTypeOK, Spares, Own, OwnIn

LEMMA ProceedHolds ==
    ASSUME SessionTypeOK, HInv, NEW c, NEW what, At(c, what), what \notin {"open", "close"},
           Proceed(c, sessions)
    PROVE  HInv'
<1>1. c \in DOMAIN calls /\ calls[c].step > 0  BY DEF At
<1>2. Spares(c, sessions) /\ Own(c) = OwnIn(c, sessions)  BY SameSessions
<1>3. DepthAt(calls[c].kind, calls[c].step + 1) = DepthAt(calls[c].kind, calls[c].step)
  BY <1>1, AtStep, DepthSteps DEF At
<1>4. OwnIn(c, sessions) = {c} \X (1..DepthAt(calls[c].kind, calls[c].step + 1))
  BY <1>1, <1>2, <1>3 DEF HInv, Holding
<1>5. Grows  BY DEF Proceed, Grows, SessionTypeOK
<1>. QED  BY <1>1, <1>2, <1>4, <1>5, AtStep, GoToHolds DEF Proceed

\* The innermost session of a handler is the last it opened.
LEMMA OwnNumber ==
    ASSUME NEW c, NEW d \in 0..2, Own(c) = {c} \X (1..d)
    PROVE  Cardinality(Own(c)) = d
<1>1. CASE d = 0
  BY <1>1, FS_EmptySet
<1>2. CASE d = 1
  <2>1. Own(c) = {<<c, 1>>}  BY <1>2
  <2>. QED  BY <1>2, <2>1, FS_Singleton
<1>3. CASE d = 2
  <2>1. Own(c) = {<<c, 1>>} \cup {<<c, 2>>}  BY <1>3
  <2>2. IsFiniteSet({<<c, 1>>}) /\ Cardinality({<<c, 1>>}) = 1  BY FS_Singleton
  <2>3. <<c, 2>> \notin {<<c, 1>>}  OBVIOUS
  <2>4. Cardinality({<<c, 1>>} \cup {<<c, 2>>}) =
           IF <<c, 2>> \in {<<c, 1>>} THEN Cardinality({<<c, 1>>}) ELSE Cardinality({<<c, 1>>}) + 1
    BY <2>2, FS_AddElement
  <2>. QED  BY <1>3, <2>1, <2>2, <2>3, <2>4
<1>. QED  BY <1>1, <1>2, <1>3

\* A handler opens one more session, or ends its innermost.
LEMMA OpenHolds == ASSUME SessionTypeOK, HInv, NEW c \in Ids, Open(c) PROVE HInv'
<1>. DEFINE d == DepthAt(calls[c].kind, calls[c].step)
            open == sessions \cup {<<c, Cardinality(Own(c)) + 1>>}
<1>1. c \in DOMAIN calls /\ calls[c].step > 0 /\ Proceed(c, open)  BY DEF Open, At
<1>2. d \in 0..2 /\ DepthAt(calls[c].kind, calls[c].step + 1) = d + 1
  BY <1>1, AtStep, DepthSteps DEF Open, At
<1>3. Own(c) = {c} \X (1..d)  BY <1>1 DEF HInv, Holding
<1>. HIDE DEF d
<1>4. Cardinality(Own(c)) = d  BY <1>2, <1>3, OwnNumber
<1>5. open = sessions \cup {<<c, d + 1>>}  BY <1>4
<1>. HIDE DEF open
<1>6. Spares(c, sessions) /\ Own(c) = OwnIn(c, sessions)  BY SameSessions
<1>7. Spares(c, open)
  <2>1. <<c, d + 1>> \in Ids \X Nat /\ <<c, d + 1>> # <<c, 0>>  BY <1>2
  <2>. QED  BY <1>5, <1>6, <2>1 DEF Spares
<1>8. OwnIn(c, open) = {c} \X (1..(d + 1))
  <2>1. OwnIn(c, open) = ({c} \X (1..d)) \cup {<<c, d + 1>>}  BY <1>2, <1>3, <1>5, <1>6 DEF OwnIn
  <2>2. 1..(d + 1) = (1..d) \cup {d + 1}  BY <1>2
  <2>. QED  BY <2>1, <2>2
<1>9. Grows  BY <1>1 DEF Proceed, Grows, SessionTypeOK
<1>. QED  BY <1>1, <1>2, <1>7, <1>8, <1>9, AtStep, GoToHolds DEF Proceed

LEMMA CloseHolds == ASSUME SessionTypeOK, HInv, NEW c \in Ids, Close(c) PROVE HInv'
<1>. DEFINE d == DepthAt(calls[c].kind, calls[c].step)
            open == sessions \ {Innermost(c)}
<1>1. c \in DOMAIN calls /\ calls[c].step > 0 /\ Proceed(c, open)  BY DEF Close, At
<1>2. d \in 0..2 /\ d > 0 /\ DepthAt(calls[c].kind, calls[c].step + 1) = d - 1
  BY <1>1, AtStep, DepthSteps DEF Close, At
<1>3. Own(c) = {c} \X (1..d)  BY <1>1 DEF HInv, Holding
<1>. HIDE DEF d
<1>4. Cardinality(Own(c)) = d  BY <1>2, <1>3, OwnNumber
<1>5. open = sessions \ {<<c, d>>}  BY <1>4 DEF Innermost
<1>. HIDE DEF open
<1>6. Spares(c, sessions) /\ Own(c) = OwnIn(c, sessions)  BY SameSessions
<1>7. Spares(c, open)
  <2>1. <<c, d>> # <<c, 0>>  BY <1>2
  <2>. QED  BY <1>5, <1>6, <2>1 DEF Spares
<1>8. OwnIn(c, open) = {c} \X (1..(d - 1))
  <2>1. OwnIn(c, open) = ({c} \X (1..d)) \ {<<c, d>>}  BY <1>3, <1>5, <1>6 DEF OwnIn
  <2>2. 1..(d - 1) = (1..d) \ {d}  BY <1>2
  <2>. QED  BY <2>1, <2>2
<1>9. Grows  BY <1>1 DEF Proceed, Grows, SessionTypeOK
<1>. QED  BY <1>1, <1>2, <1>7, <1>8, <1>9, AtStep, GoToHolds DEF Proceed

\* A step throws.
LEMMA ThrowHolds ==
    ASSUME SessionTypeOK, HInv, NEW c \in DOMAIN calls, calls[c].step > 0, Throw(c)
    PROVE  HInv'
<1>. DEFINE next == Caught(calls[c].kind, calls[c].step)
            kept == IF calls[c].kind \in Tidy THEN sessions \ Own(c) ELSE sessions
            outer == sessions \ {s \in Own(c) : s[2] > 1}
            d == DepthAt(calls[c].kind, calls[c].step)
<1>1. Own(c) = {c} \X (1..d) /\ c \in Ids /\ calls[c] \in Call  BY AtStep DEF HInv, Holding
<1>2. Spares(c, sessions) /\ Own(c) = OwnIn(c, sessions)  BY SameSessions
<1>3. Grows
  <2>1. UNCHANGED blame \/ Blame(c, "failed")  BY DEF Throw
  <2>. QED  BY <1>1, <2>1 DEF Blame, Grows, SessionTypeOK, Reasons
<1>4. CASE next > 0
  <2>1. GoTo(c, next, outer)  BY <1>4 DEF Throw
  <2>2. next \in Nat \ {0}  BY <1>4 DEF Caught
  <2>3. d \in 0..2 /\ DepthAt(calls[c].kind, next) = IF d > 1 THEN 1 ELSE d
    BY <1>4, AtStep, DepthSteps
  <2>. HIDE DEF next, d
  <2>4. Spares(c, outer)  BY <1>2 DEF Spares, Own
  <2>5. OwnIn(c, outer) = {s \in Own(c) : ~(s[2] > 1)}  BY <1>2 DEF OwnIn
  <2>6. {s \in {c} \X (1..d) : ~(s[2] > 1)} = {c} \X (1..(IF d > 1 THEN 1 ELSE d))
    <3>1. {n \in 1..d : ~(n > 1)} = 1..(IF d > 1 THEN 1 ELSE d)  BY <2>3
    <3>2. {s \in {c} \X (1..d) : ~(s[2] > 1)} = {c} \X {n \in 1..d : ~(n > 1)}  OBVIOUS
    <3>. QED  BY <3>1, <3>2
  <2>. HIDE DEF outer
  <2>. QED  BY <1>1, <1>3, <2>1, <2>2, <2>3, <2>4, <2>5, <2>6, GoToHolds
<1>5. CASE ~(next > 0)
  <2>1. /\ Answer(c, kept)
        /\ IF calls[c].kind \in Tidy THEN UNCHANGED blame ELSE Blame(c, "failed")
    BY <1>5 DEF Throw
  <2>2. Spares(c, kept)  BY <1>2 DEF Spares, Own
  <2>3. OwnIn(c, kept) = {} \/ "failed" \in blame'[c]
    <3>1. CASE calls[c].kind \in Tidy  BY <1>2, <3>1 DEF OwnIn
    <3>2. CASE calls[c].kind \notin Tidy  BY <1>1, <2>1, <3>2 DEF Blame, SessionTypeOK
    <3>. QED  BY <3>1, <3>2
  <2>. HIDE DEF kept
  <2>. QED  BY <1>3, <2>1, <2>2, <2>3, AnswerHolds
<1>. QED  BY <1>4, <1>5

\* A call arrives.
LEMMA ArriveHolds ==
    ASSUME SessionTypeOK, HInv, NEW kind \in Kinds, NEW keys \in Presented[kind], Arrive(kind, keys)
    PROVE  HInv'
<1>. DEFINE c == started'
            row == [kind |-> kind, keys |-> keys, step |-> IF keys = {"jwt"} THEN 0 ELSE 1]
<1>1. /\ calls' = Put(calls, c, row) /\ c = started + 1 /\ started < MaxCalls
      /\ UNCHANGED sessions
      /\ blame' = [blame EXCEPT ![c] = (keys \cup {kind}) \cap {"apiKey", "proof", "use"}]
  BY DEF Arrive
<1>2. c \in Ids /\ c \notin DOMAIN calls /\ \A s \in sessions : s[1] # c
  <2>1. started \in Nat /\ MaxCalls \in Nat  BY SessionAssumption DEF SessionTypeOK
  <2>2. c \notin 1..started /\ c \in Ids  BY <1>1, <2>1 DEF Ids
  <2>. QED  BY <2>2 DEF SessionTypeOK, IsTable
<1>3. row.kind = kind /\ row.keys = keys /\ row.step = IF keys = {"jwt"} THEN 0 ELSE 1  OBVIOUS
<1>4. DepthAt(kind, row.step) = 0
  <2>1. DepthAt(kind, 0) = 0  BY DEF DepthAt
  <2>2. 1 <= Len(Script[kind]) /\ Depth[kind][1] = 0
    BY DEF Kinds, Script, GetPendingOffers, FoundGenericId, AcceptOffer, UseOfferRequest, ResolveOffer,
           CreateOffer, Login, Provision, DefineCredential, ProofEvent, Depth
  <2>3. DepthAt(kind, 1) = 0  BY <2>2 DEF DepthAt
  <2>. QED  BY <1>3, <2>1, <2>3
<1>. HIDE DEF row, c
<1>5. /\ DOMAIN calls' = DOMAIN calls \cup {c} /\ calls'[c] = row
      /\ \A d \in DOMAIN calls : calls'[d] = calls[d]
  BY <1>1, <1>2 DEF Put
<1>6. Holding'
  <2>1. ASSUME NEW d \in DOMAIN calls'
        PROVE  Own(d)' = {d} \X (1..DepthAt(calls'[d].kind, calls'[d].step))
    <3>1. CASE d = c
      <4>1. Own(d)' = {}  BY <1>1, <1>2, <3>1 DEF Own
      <4>2. DepthAt(calls'[d].kind, calls'[d].step) = 0  BY <1>3, <1>4, <1>5, <3>1
      <4>. QED  BY <4>1, <4>2
    <3>2. CASE d # c
      <4>1. d \in DOMAIN calls /\ calls'[d] = calls[d]  BY <1>5, <2>1, <3>2
      <4>. QED  BY <1>1, <4>1 DEF HInv, Holding, Own
    <3>. QED  BY <3>1, <3>2
  <2>. QED  BY <2>1 DEF Holding
<1>7. \A d \in Ids : d # c => blame'[d] = blame[d]  BY <1>1, <1>2 DEF SessionTypeOK
<1>8. DOMAIN calls \subseteq Ids  BY SessionAssumption DEF SessionTypeOK, IsTable, Ids
<1>9. Admitted'
  <2>1. ASSUME NEW d \in DOMAIN calls', d # c
        PROVE  d \in DOMAIN calls /\ calls'[d] = calls[d] /\ blame'[d] = blame[d]
    BY <1>5, <1>7, <1>8, <2>1
  <2>2. blame'[c] = (keys \cup {kind}) \cap {"apiKey", "proof", "use"}  BY <1>1, <1>2 DEF SessionTypeOK
  <2>3. /\ calls'[c].keys = keys /\ calls'[c].kind = kind
        /\ keys = {"jwt"} => ~(calls'[c].step > 0)
    BY <1>3, <1>5
  <2>4. ASSUME NEW d \in DOMAIN calls'
        PROVE  /\ calls'[d].keys \in Presented[calls'[d].kind]
               /\ calls'[d].kind \in {"proof", "use"} => calls'[d].kind \in blame'[d]
               /\ "apiKey" \in calls'[d].keys => "apiKey" \in blame'[d]
               /\ calls'[d].keys = {"jwt"} /\ calls'[d].step > 0 => <<d, 0>> \in sessions'
    <3>1. CASE d = c  BY <2>2, <2>3, <3>1
    <3>2. CASE d # c  BY <1>1, <2>1, <2>4, <3>2 DEF HInv, Admitted
    <3>. QED  BY <3>1, <3>2
  <2>. QED  BY <2>4 DEF Admitted
<1>10. LeftOpen'
  <2>. SUFFICES ASSUME NEW s \in sessions', s[1] \notin DOMAIN calls'
                PROVE  IF s[2] = 0 THEN {"hung", "late"} \cap blame'[s[1]] # {}
                                   ELSE {"proof", "failed"} \cap blame'[s[1]] # {}
    BY DEF LeftOpen
  <2>1. s \in sessions /\ s[1] # c /\ s[1] \notin DOMAIN calls  BY <1>1, <1>2, <1>5
  <2>2. s[1] \in Ids  BY <2>1, SessionAssumption DEF SessionTypeOK, Ids
  <2>. QED  BY <1>7, <2>1, <2>2 DEF HInv, LeftOpen
<1>. QED  BY <1>6, <1>9, <1>10 DEF HInv

\* A token is accepted, perhaps too late, or refused.
LEMMA TokenHolds ==
    ASSUME SessionTypeOK, HInv, NEW c \in Ids, TokenSession(c)
    PROVE  HInv'
<1>. DEFINE row == [calls[c] EXCEPT !.step = 1]
            waits == c \in DOMAIN calls /\ calls[c].step = 0
<1>1. /\ sessions' = sessions \cup {<<c, 0>>}
      /\ calls' = IF waits THEN Put(calls, c, row) ELSE calls
      /\ IF c \in DOMAIN calls THEN UNCHANGED blame ELSE Blame(c, "late")
  BY DEF TokenSession
<1>2. Grows  BY <1>1 DEF Grows, Blame, SessionTypeOK, Reasons
<1>3. c \in DOMAIN calls =>
         calls[c] \in Call /\ row.kind = calls[c].kind /\ row.keys = calls[c].keys /\ row.step = 1
  BY DEF SessionTypeOK, IsTable, Call
<1>4. waits => DepthAt(calls[c].kind, 1) = DepthAt(calls[c].kind, calls[c].step)
  <2>. SUFFICES ASSUME NEW kind \in Kinds PROVE DepthAt(kind, 1) = DepthAt(kind, 0)
    BY <1>3 DEF Call
  <2>1. 1 <= Len(Script[kind]) /\ Depth[kind][1] = 0
    BY DEF Kinds, Script, GetPendingOffers, FoundGenericId, AcceptOffer, UseOfferRequest, ResolveOffer,
           CreateOffer, Login, Provision, DefineCredential, ProofEvent, Depth
  <2>. QED  BY <2>1 DEF DepthAt
<1>. HIDE DEF row
<1>5. /\ DOMAIN calls' = DOMAIN calls
      /\ \A d \in DOMAIN calls : /\ calls'[d].kind = calls[d].kind /\ calls'[d].keys = calls[d].keys
                                 /\ d # c => calls'[d] = calls[d]
                                 /\ d = c => calls'[d] = IF waits THEN row ELSE calls[d]
  BY <1>1, <1>3 DEF Put
<1>6. ASSUME NEW d PROVE Own(d)' = Own(d)
  BY <1>1, <1>6 DEF Own
<1>7. DOMAIN calls \subseteq Ids  BY SessionAssumption DEF SessionTypeOK, IsTable, Ids
<1>8. Holding'
  <2>1. ASSUME NEW d \in DOMAIN calls
        PROVE  DepthAt(calls'[d].kind, calls'[d].step) = DepthAt(calls[d].kind, calls[d].step)
    BY <1>3, <1>4, <1>5, <2>1
  <2>. QED  BY <1>5, <1>6, <2>1 DEF HInv, Holding
<1>9. Admitted'
  <2>1. ASSUME NEW d \in DOMAIN calls, d # c, calls'[d].keys = {"jwt"}, calls'[d].step > 0
        PROVE  <<d, 0>> \in sessions'
    BY <1>1, <1>5, <2>1 DEF HInv, Admitted
  <2>2. <<c, 0>> \in sessions'  BY <1>1
  <2>3. \A d \in DOMAIN calls' : calls'[d].keys = {"jwt"} /\ calls'[d].step > 0 => <<d, 0>> \in sessions'
    BY <1>5, <2>1, <2>2
  <2>4. ASSUME NEW d \in DOMAIN calls'
        PROVE  /\ calls'[d].keys \in Presented[calls'[d].kind]
               /\ calls'[d].kind \in {"proof", "use"} => calls'[d].kind \in blame'[d]
               /\ "apiKey" \in calls'[d].keys => "apiKey" \in blame'[d]
    BY <1>2, <1>5, <1>7, <2>4 DEF HInv, Admitted, Grows
  <2>. QED  BY <2>3, <2>4 DEF Admitted
<1>10. LeftOpen'
  <2>. SUFFICES ASSUME NEW s \in sessions', s[1] \notin DOMAIN calls
                PROVE  IF s[2] = 0 THEN {"hung", "late"} \cap blame'[s[1]] # {}
                                   ELSE {"proof", "failed"} \cap blame'[s[1]] # {}
    BY <1>5 DEF LeftOpen
  <2>1. CASE s = <<c, 0>>
    <3>1. c \notin DOMAIN calls  BY <2>1
    <3>2. "late" \in blame'[c]  BY <1>1, <3>1 DEF Blame, SessionTypeOK
    <3>. QED  BY <2>1, <3>2
  <2>2. CASE s # <<c, 0>>
    <3>1. s \in sessions  BY <1>1, <2>2
    <3>2. s[1] \in Ids  BY <3>1, SessionAssumption DEF SessionTypeOK, Ids
    <3>. QED  BY <1>2, <3>1, <3>2 DEF HInv, LeftOpen, Grows
  <2>. QED  BY <2>1, <2>2
<1>. QED  BY <1>8, <1>9, <1>10 DEF HInv

\* A request that waits for its token has no session yet, and ends with none.
LEMMA TokenRefusedHolds ==
    ASSUME SessionTypeOK, HInv, Asked, NEW c \in Ids, TokenRefused(c)
    PROVE  HInv'
<1>1. CASE c \in DOMAIN calls /\ calls[c].step = 0
  <2>1. calls' = Without(calls, {c}) /\ UNCHANGED <<sessions, blame>>  BY <1>1 DEF TokenRefused
  <2>2. DOMAIN calls' = DOMAIN calls \ {c} /\ \A d \in DOMAIN calls' : calls'[d] = calls[d]
    BY <2>1 DEF Without
  <2>3. Own(c) = {}
    <3>1. DepthAt(calls[c].kind, calls[c].step) = 0  BY <1>1 DEF DepthAt
    <3>. QED  BY <1>1, <3>1 DEF HInv, Holding
  <2>4. \A s \in sessions : s[1] # c
    <3>. SUFFICES ASSUME NEW s \in sessions, s[1] = c PROVE FALSE
      OBVIOUS
    <3>1. s \in (1..started) \X Nat  BY DEF SessionTypeOK
    <3>2. s = <<c, s[2]>> /\ s[2] \in Nat  BY <3>1
    <3>3. s[2] # 0  BY <3>2 DEF Asked, TokenRefused
    <3>. QED  BY <2>3, <3>2, <3>3 DEF Own
  <2>5. Holding'  BY <2>1, <2>2 DEF HInv, Holding, Own
  <2>6. Admitted'  BY <2>1, <2>2 DEF HInv, Admitted
  <2>7. LeftOpen'  BY <2>1, <2>2, <2>4 DEF HInv, LeftOpen
  <2>. QED  BY <2>5, <2>6, <2>7 DEF HInv
<1>2. CASE ~(c \in DOMAIN calls /\ calls[c].step = 0)
  BY <1>2 DEF TokenRefused, HInv, Holding, Admitted, LeftOpen, Own
<1>. QED  BY <1>1, <1>2

\* The client goes away; the process dies.
LEMMA HangUpHolds == ASSUME SessionTypeOK, HInv, NEW c \in Ids, HangUp(c) PROVE HInv'
<1>1. Grows  BY DEF HangUp, Blame, Grows, SessionTypeOK, Reasons
<1>2. DOMAIN calls \subseteq Ids /\ \A s \in sessions : s[1] \in Ids
  BY SessionAssumption DEF SessionTypeOK, IsTable, Ids
<1>3. UNCHANGED <<calls, sessions>>  BY DEF HangUp
<1>4. Holding'  BY <1>3 DEF HInv, Holding, Own
<1>5. Admitted'  BY <1>1, <1>2, <1>3 DEF HInv, Admitted, Grows
<1>6. LeftOpen'  BY <1>1, <1>2, <1>3 DEF HInv, LeftOpen, Grows
<1>. QED  BY <1>4, <1>5, <1>6 DEF HInv

LEMMA NothingHeld == ASSUME DOMAIN calls = {}, sessions = {} PROVE HInv
BY DEF HInv, Holding, Admitted, LeftOpen

LEMMA CrashHolds == ASSUME SessionCrash PROVE HInv'
<1>1. DOMAIN calls' = {} /\ sessions' = {}  BY DEF SessionCrash, EmptyTable
<1>. QED  BY <1>1, NothingHeld DEF HInv, Holding, Admitted, LeftOpen

\* What Throw leaves of the sessions.
LEMMA ThrowEnds == ASSUME NEW c, Throw(c) PROVE sessions' \subseteq sessions
BY DEF Throw, GoTo, Answer, Finished

LEMMA GoToEnds == ASSUME NEW c, NEW step, NEW open, GoTo(c, step, open) PROVE sessions' \subseteq open
BY DEF GoTo, Answer, Finished

\* The session of a token is opened once.
LEMMA AskedStep == ASSUME TypeOK, Asked, [Next]_vars PROVE Asked'
<1>1. CASE UNCHANGED vars  BY <1>1 DEF vars, sessionVars, Asked
<1>2. ASSUME asking' = asking, sessions' \subseteq sessions PROVE Asked'  BY <1>2 DEF Asked
<1>3. CASE Crash  BY <1>3 DEF Crash, SessionCrash, Asked
<1>4. ASSUME NEW kind \in Kinds, NEW keys \in Presented[kind], Arrive(kind, keys) PROVE Asked'
  <2>1. started' = started + 1 /\ asking' \subseteq asking \cup {started'} /\ UNCHANGED sessions
    BY <1>4 DEF Arrive
  <2>2. started' \notin 1..started  BY <2>1 DEF TypeOK, SessionTypeOK
  <2>3. <<started', 0>> \notin sessions  BY <2>2 DEF TypeOK, SessionTypeOK
  <2>. QED  BY <2>1, <2>3 DEF Asked
<1>5. ASSUME NEW c \in Ids, HangUp(c) PROVE Asked'  BY <1>2, <1>5 DEF HangUp
<1>6. ASSUME NEW c \in Ids, Step(c) PROVE Asked'
  <2>1. CASE TokenSession(c)  BY <2>1 DEF TokenSession, Asked
  <2>2. CASE TokenRefused(c)  BY <2>2 DEF TokenRefused, Asked
  <2>3. CASE Open(c)
    <3>1. sessions' \subseteq sessions \cup {<<c, Cardinality(Own(c)) + 1>>} /\ asking' = asking
      BY <2>3, GoToEnds DEF Open, Proceed
    <3>2. Cardinality(Own(c)) + 1 # 0  BY OwnCount DEF TypeOK
    <3>. QED  BY <3>1, <3>2 DEF Asked
  <2>4. CASE OpenRefused(c) \/ AwaitThrows(c) \/ ResolveThrows(c) \/ AnnounceThrows(c) \/ RedeemThrows(c)
    <3>1. Throw(c) /\ asking' = asking
      BY <2>4 DEF OpenRefused, AwaitThrows, ResolveThrows, AnnounceThrows, RedeemThrows
    <3>. QED  BY <1>2, <3>1, ThrowEnds
  <2>5. CASE Close(c)
    <3>1. sessions' \subseteq sessions \ {Innermost(c)} /\ asking' = asking
      BY <2>5, GoToEnds DEF Close, Proceed
    <3>. QED  BY <1>2, <3>1
  <2>6. CASE Awaited(c) \/ ReadMetadata(c) \/ Override(c) \/ Resolved(c) \/ Announce(c)
             \/ (\E o \in Offers : Redeem(c, o)) \/ Store(c) \/ NotStored(c)
    <3>1. GoTo(c, calls[c].step + 1, sessions) /\ asking' = asking
      BY <2>6 DEF Awaited, ReadMetadata, Override, Resolved, Announce, Redeem, Store, NotStored, Proceed
    <3>. QED  BY <1>2, <3>1, GoToEnds
  <2>. QED  BY <1>6, <2>1, <2>2, <2>3, <2>4, <2>5, <2>6 DEF Step, SessionStep
<1>. QED  BY <1>1, <1>3, <1>4, <1>5, <1>6 DEF Next

\* Every step keeps what is held, and what is left, explained.
LEMMA HeldStep == ASSUME TypeOK, Asked, HInv, [Next]_vars PROVE HInv'
<1>. SessionTypeOK  BY DEF TypeOK
<1>1. CASE UNCHANGED vars
  BY <1>1 DEF vars, sessionVars, HInv, Holding, Admitted, LeftOpen, Own
<1>2. CASE Crash  BY <1>2, CrashHolds DEF Crash
<1>3. ASSUME NEW kind \in Kinds, NEW keys \in Presented[kind], Arrive(kind, keys) PROVE HInv'
  BY <1>3, ArriveHolds
<1>4. ASSUME NEW c \in Ids, HangUp(c) PROVE HInv'  BY <1>4, HangUpHolds
<1>5. ASSUME NEW c \in Ids, Step(c) PROVE HInv'
  <2>1. CASE TokenSession(c)  BY <2>1, TokenHolds
  <2>2. CASE TokenRefused(c)  BY <2>2, TokenRefusedHolds
  <2>3. CASE Open(c)  BY <2>3, OpenHolds
  <2>4. CASE Close(c)  BY <2>4, CloseHolds
  <2>5. CASE OpenRefused(c) \/ AwaitThrows(c) \/ ResolveThrows(c) \/ AnnounceThrows(c) \/ RedeemThrows(c)
    <3>1. Throw(c) /\ c \in DOMAIN calls /\ calls[c].step > 0
      BY <2>5 DEF OpenRefused, AwaitThrows, ResolveThrows, AnnounceThrows, RedeemThrows, At
    <3>. QED  BY <3>1, ThrowHolds
  <2>6. CASE Awaited(c) \/ ReadMetadata(c) \/ Override(c) \/ Resolved(c) \/ Announce(c)
             \/ (\E o \in Offers : Redeem(c, o)) \/ Store(c)
    <3>1. PICK what \in {"await", "metadata", "override", "resolve", "announce", "redeem", "store"} :
             At(c, what) /\ Proceed(c, sessions)
      BY <2>6 DEF Awaited, ReadMetadata, Override, Resolved, Announce, Redeem, Store
    <3>. QED  BY <3>1, ProceedHolds
  <2>7. CASE NotStored(c)
    <3>1. /\ At(c, "store") /\ c \in DOMAIN calls /\ calls[c].step > 0
          /\ GoTo(c, calls[c].step + 1, sessions) /\ Blame(c, "store")
      BY <2>7 DEF NotStored, At
    <3>2. Spares(c, sessions) /\ Own(c) = OwnIn(c, sessions)  BY SameSessions
    <3>3. DepthAt(calls[c].kind, calls[c].step + 1) = DepthAt(calls[c].kind, calls[c].step)
      BY <3>1, AtStep, DepthSteps DEF At
    <3>4. OwnIn(c, sessions) = {c} \X (1..DepthAt(calls[c].kind, calls[c].step + 1))
      BY <3>1, <3>2, <3>3 DEF HInv, Holding
    <3>5. Grows  BY <3>1 DEF Blame, Grows, SessionTypeOK, Reasons
    <3>. QED  BY <3>1, <3>2, <3>4, <3>5, AtStep, GoToHolds
  <2>. QED  BY <1>5, <2>1, <2>2, <2>3, <2>4, <2>5, <2>6, <2>7 DEF Step, SessionStep
<1>. QED  BY <1>1, <1>2, <1>3, <1>4, <1>5 DEF Next

-----------------------------------------------------------------------------
(* What a step does to other calls *)

\* The steps with effects of their own, in the scripts that have them.
LEMMA Where ==
    ASSUME NEW kind \in Kinds, NEW step \in 1..Len(Script[kind])
    PROVE  LET what == Script[kind][step]
           IN /\ what = "override" => kind \in {"resolve", "use"} /\ step = 2
              /\ what = "resolve" <=> kind \in {"resolve", "use"} /\ step = 3
              /\ what = "redeem" => \/ kind = "accept" /\ step = 2
                                    \/ kind = "use" /\ step = 4
              /\ what = "store" => \/ kind = "accept" /\ step = 4
                                   \/ kind = "use" /\ step = 5
<1>1. CASE kind = "pending"  BY <1>1 DEF Script, GetPendingOffers
<1>2. CASE kind = "known"  BY <1>2 DEF Script, FoundGenericId
<1>3. CASE kind = "accept"  BY <1>3 DEF Script, AcceptOffer
<1>4. CASE kind = "use"  BY <1>4 DEF Script, UseOfferRequest
<1>5. CASE kind = "resolve"  BY <1>5 DEF Script, ResolveOffer
<1>6. CASE kind = "offer"  BY <1>6 DEF Script, CreateOffer
<1>7. CASE kind = "login"  BY <1>7 DEF Script, Login
<1>8. CASE kind = "provision"  BY <1>8 DEF Script, Provision
<1>9. CASE kind = "define"  BY <1>9 DEF Script, DefineCredential
<1>10. CASE kind = "proof"  BY <1>10 DEF Script, ProofEvent
<1>11. kind \in {"pending", "known", "accept", "use", "resolve", "offer", "login", "provision",
                 "define", "proof"}
  BY DEF Kinds, Script
<1>. QED  BY <1>1, <1>2, <1>3, <1>4, <1>5, <1>6, <1>7, <1>8, <1>9, <1>10, <1>11

\* A step of a call changes no other call, and its own only in the step it is at, which
\* is never an earlier one.
Alone(c) ==
    /\ DOMAIN calls' \subseteq DOMAIN calls /\ DOMAIN calls \ {c} \subseteq DOMAIN calls'
    /\ \A d \in DOMAIN calls' : d # c => calls'[d] = calls[d]
    /\ c \in DOMAIN calls' => /\ calls'[c].kind = calls[c].kind
                              /\ calls'[c].step \in Nat /\ calls'[c].step >= calls[c].step

LEMMA GoToAlone ==
    ASSUME SessionTypeOK, NEW c \in DOMAIN calls, NEW step \in Nat, step >= calls[c].step, NEW open,
           GoTo(c, step, open)
    PROVE  /\ Alone(c)
           /\ step > Len(Script[calls[c].kind]) => c \notin DOMAIN calls'
           /\ ~(step > Len(Script[calls[c].kind])) => c \in DOMAIN calls' /\ calls'[c].step = step
<1>. calls[c] \in Call  BY DEF SessionTypeOK, IsTable, Call
<1>1. CASE step > Len(Script[calls[c].kind])
  BY <1>1 DEF GoTo, Answer, Alone, Without
<1>2. CASE ~(step > Len(Script[calls[c].kind]))
  <2>. DEFINE row == [calls[c] EXCEPT !.step = step]
  <2>1. calls' = Put(calls, c, row)  BY <1>2 DEF GoTo
  <2>2. row.step = step /\ row.kind = calls[c].kind  BY DEF Call
  <2>. HIDE DEF row
  <2>. QED  BY <1>2, <2>1, <2>2 DEF Alone, Put
<1>. QED  BY <1>1, <1>2

\* A step that throws and is not caught ends the call, and is remembered unless the
\* handler tidies up.
LEMMA ThrowAlone ==
    ASSUME SessionTypeOK, NEW c \in DOMAIN calls, c \in Ids, Throw(c)
    PROVE  /\ Alone(c) /\ Grows
           /\ Caught(calls[c].kind, calls[c].step) = 0 =>
                 c \notin DOMAIN calls' /\ (calls[c].kind \notin Tidy => "failed" \in blame'[c])
<1>. DEFINE next == Caught(calls[c].kind, calls[c].step)
<1>1. Grows
  <2>1. UNCHANGED blame \/ Blame(c, "failed")  BY DEF Throw
  <2>. QED  BY <2>1 DEF Blame, Grows, SessionTypeOK, Reasons
<1>2. CASE next > 0
  <2>1. GoTo(c, next, sessions \ {s \in Own(c) : s[2] > 1})  BY <1>2 DEF Throw
  <2>2. next \in Nat \ {0} /\ next >= calls[c].step
    <3>1. calls[c].step \in Nat /\ calls[c].kind \in Kinds  BY DEF SessionTypeOK, IsTable
    <3>2. calls[c].kind = "define" => calls[c].step <= 2
      <4>1. Len(Script["define"]) = 2  BY DEF Script, DefineCredential
      <4>. QED  BY <4>1 DEF SessionTypeOK
    <3>. QED  BY <1>2, <3>1, <3>2 DEF Caught
  <2>. HIDE DEF next
  <2>3. Alone(c)  BY <2>1, <2>2, GoToAlone
  <2>. QED  BY <1>1, <2>2, <2>3 DEF next
<1>3. CASE ~(next > 0)
  <2>1. calls' = Without(calls, {c})  BY <1>3 DEF Throw, Answer
  <2>2. calls[c].kind \notin Tidy => "failed" \in blame'[c]
    BY <1>3 DEF Throw, Blame, SessionTypeOK
  <2>. QED  BY <1>1, <2>1, <2>2 DEF Alone, Without
<1>. QED  BY <1>2, <1>3

\* The next step, or the end of the call.
LEMMA ProceedAlone ==
    ASSUME SessionTypeOK, NEW c \in DOMAIN calls, NEW open, Proceed(c, open)
    PROVE  /\ Alone(c) /\ Grows
           /\ calls[c].step + 1 > Len(Script[calls[c].kind]) => c \notin DOMAIN calls'
           /\ ~(calls[c].step + 1 > Len(Script[calls[c].kind])) =>
                 c \in DOMAIN calls' /\ calls'[c].step = calls[c].step + 1
<1>1. GoTo(c, calls[c].step + 1, open) /\ Grows  BY DEF Proceed, Grows, SessionTypeOK
<1>2. calls[c].step + 1 \in Nat /\ calls[c].step + 1 >= calls[c].step  BY DEF SessionTypeOK, IsTable
<1>. QED  BY <1>1, <1>2, GoToAlone

\* What is done with a token concerns no handler that runs already.
LEMMA TokenAlone ==
    ASSUME SessionTypeOK, NEW c \in Ids, TokenSession(c) \/ TokenRefused(c)
    PROVE  /\ Alone(c) /\ Grows
           /\ c \in DOMAIN calls /\ calls[c].step > 0 => calls' = calls
<1>1. Grows
  BY DEF TokenSession, TokenRefused, Blame, Grows, SessionTypeOK, Reasons
<1>2. CASE c \in DOMAIN calls /\ calls[c].step = 0
  <2>. DEFINE row == [calls[c] EXCEPT !.step = 1]
  <2>1. calls' = Put(calls, c, row) \/ calls' = Without(calls, {c})
    BY <1>2 DEF TokenSession, TokenRefused
  <2>2. row.kind = calls[c].kind /\ row.step = 1 /\ calls[c].step = 0  BY <1>2 DEF SessionTypeOK, IsTable
  <2>. HIDE DEF row
  <2>3. CASE calls' = Put(calls, c, row)  BY <1>1, <1>2, <2>2, <2>3 DEF Put, Alone
  <2>4. CASE calls' = Without(calls, {c})  BY <1>1, <1>2, <2>4 DEF Without, Alone
  <2>. QED  BY <2>1, <2>3, <2>4
<1>3. CASE ~(c \in DOMAIN calls /\ calls[c].step = 0)
  <2>1. calls' = calls  BY <1>3 DEF TokenSession, TokenRefused
  <2>. QED  BY <1>1, <2>1 DEF Alone, SessionTypeOK, IsTable
<1>. QED  BY <1>2, <1>3

-----------------------------------------------------------------------------
(* The wrappers around fetch *)

OInv == Resolving /\ Restorable /\ OverrideScoped

\* A request that resolves goes on resolving, and one that has does not begin again.
Stays(e) == (Resolves(e) => Resolves(e)') /\ (Overridden(e) => Overridden(e)')

\* No step of a call makes it begin again.
LEMMA OnlyForward == ASSUME SessionTypeOK, NEW c, Alone(c), NEW e, Overridden(e) PROVE Overridden(e)'
<1>1. CASE e # c  BY <1>1 DEF Alone, Overridden
<1>2. CASE e = c /\ c \in DOMAIN calls'
  <2>1. /\ c \in DOMAIN calls /\ calls[c].step \in Nat /\ calls[c].step >= 3
        /\ calls[c].kind \in {"resolve", "use"}
        /\ calls'[c].kind = calls[c].kind
        /\ calls'[c].step \in Nat /\ calls'[c].step >= calls[c].step
    BY <1>2 DEF Alone, Overridden, SessionTypeOK, IsTable
  <2>2. calls'[c].step >= 3  BY <2>1
  <2>. QED  BY <1>2, <2>1, <2>2 DEF Overridden
<1>3. CASE e = c /\ c \notin DOMAIN calls'  BY <1>3 DEF Overridden
<1>. QED  BY <1>1, <1>2, <1>3

LEMMA OtherStep ==
    ASSUME SessionTypeOK, NEW c, NEW what, At(c, what), what # "resolve", Alone(c), NEW e
    PROVE  Stays(e)
<1>1. CASE e # c  BY <1>1, OnlyForward DEF Alone, Stays, Resolves
<1>2. CASE e = c
  <2>1. ~Resolves(c)  BY AtStep, Where DEF At, Resolves
  <2>. QED  BY <1>2, <2>1, OnlyForward DEF Stays
<1>. QED  BY <1>1, <1>2

\* A step that touches no wrapper, nor a resolving request.
LEMMA Quietly ==
    ASSUME TypeOK, OInv, UNCHANGED <<fetch, original, overlaps>>, started' \in Nat,
           started <= started', \A e \in 1..started : Stays(e)
    PROVE  OInv'
<1>1. started \in Nat /\ Inside \subseteq 1..started
  BY DEF TypeOK, SessionTypeOK, OInv, Resolving, Resolves, IsTable
<1>2. \A p \in overlaps : p[1] \in 1..started /\ p[1] \in Nat
  BY <1>1 DEF TypeOK, OInv, Resolving, Ids
<1>3. \A i \in DOMAIN fetch : fetch[i] \in 1..started
  <2>1. \A i \in DOMAIN fetch : fetch[i] \in Ids  BY DEF TypeOK
  <2>. QED  BY <1>1, <2>1 DEF OInv, Resolving, Ids
<1>4. Inside' = Inside  BY DEF Inside
<1>5. Resolving'
  <2>1. \A c \in Inside : Resolves(c)'
    BY <1>1 DEF OInv, Resolving, Stays
  <2>2. \A p \in overlaps : p[1] <= started' /\ Overridden(p[1])'
    BY <1>1, <1>2 DEF OInv, Resolving, Stays
  <2>3. \A i \in DOMAIN fetch : fetch[i] <= started' /\ Overridden(fetch[i])'
    BY <1>1, <1>3 DEF OInv, Resolving, Stays
  <2>. QED  BY <1>4, <2>1, <2>2, <2>3 DEF Resolving
<1>6. Restorable'  BY <1>4 DEF OInv, Restorable, Overlapped, Shadowed
<1>7. OverrideScoped'  BY <1>4 DEF OInv, OverrideScoped, Wrapping
<1>. QED  BY <1>5, <1>6, <1>7 DEF OInv

\* A request puts its wrapper around the others.
LEMMA OverrideHolds == ASSUME TypeOK, OInv, NEW c \in Ids, Override(c) PROVE OInv'
<1>. SessionTypeOK  BY DEF TypeOK
<1>1. /\ c \in DOMAIN calls /\ calls[c].step > 0 /\ At(c, "override") /\ Proceed(c, sessions)
      /\ UNCHANGED started
  BY DEF Override, At
<1>2. calls[c].kind \in {"resolve", "use"} /\ calls[c].step = 2
  BY <1>1, AtStep, Where DEF At
<1>3. Alone(c) /\ Resolves(c)'
  <2>1. ~(calls[c].step + 1 > Len(Script[calls[c].kind])) /\ calls[c].step + 1 = 3
    <3>1. Len(Script["resolve"]) = 3 /\ Len(Script["use"]) = 5
      BY DEF Script, ResolveOffer, UseOfferRequest
    <3>2. Len(Script[calls[c].kind]) \in {3, 5}  BY <1>2, <3>1
    <3>3. calls[c].step + 1 = 3  BY <1>2
    <3>4. ~(3 > Len(Script[calls[c].kind]))  BY <3>2
    <3>. QED  BY <3>3, <3>4
  <2>. QED  BY <1>1, <1>2, <2>1, ProceedAlone DEF Alone, Resolves
<1>4. \A e : Stays(e)  BY <1>1, <1>3, OtherStep
<1>5. started \in Nat /\ c <= started  BY <1>1, AtStep DEF SessionTypeOK
<1>6. CASE c \notin informed
  BY <1>1, <1>4, <1>5, <1>6, Quietly DEF Override
<1>7. CASE c \in informed
  <2>1. /\ original' = Put(original, c, fetch) /\ fetch' = <<c>> \o fetch
        /\ overlaps' = overlaps \cup (Inside \X {c})
    BY <1>7 DEF Override
  <2>2. ~Overridden(c) /\ ~Resolves(c)  BY <1>1, <1>2 DEF Overridden, Resolves
  <2>3. c \notin Inside  BY <2>2 DEF OInv, Resolving
  <2>4. Inside' = Inside \cup {c} /\ Inside \subseteq Ids  BY <2>1 DEF Inside, Put, TypeOK, IsTable
  <2>5. /\ \A d \in Inside : original'[d] = original[d]
        /\ original'[c] = fetch
    BY <2>1, <2>3 DEF Inside, Put
  <2>6. /\ fetch'[1] = c /\ 1 \in DOMAIN fetch'
        /\ \A i \in DOMAIN fetch : i + 1 \in DOMAIN fetch' /\ fetch'[i + 1] = fetch[i]
        /\ \A i \in DOMAIN fetch' : i = 1 \/ (i - 1 \in DOMAIN fetch /\ fetch'[i] = fetch[i - 1])
    BY <2>1 DEF TypeOK
  <2>7. \A p \in overlaps : p[1] # c  BY <2>2 DEF OInv, Resolving
  <2>8. \A i \in DOMAIN fetch : fetch[i] \in Ids /\ fetch[i] # c
    BY <2>2 DEF TypeOK, OInv, Resolving
  <2>9. \A i \in DOMAIN fetch : fetch[i] \in Inside' \/ Overlapped(fetch[i])
    BY <2>4 DEF OInv, OverrideScoped, Overlapped
  <2>10. ASSUME NEW b \in Ids, Shadowed(b) PROVE Shadowed(b)'
    <3>1. PICK a \in Ids \ Inside : <<a, b>> \in overlaps  BY <2>10 DEF Shadowed
    <3>2. a # c  BY <2>7, <3>1
    <3>. QED  BY <2>1, <2>4, <3>1, <3>2 DEF Shadowed
  <2>11. \A i \in DOMAIN fetch : \E b \in Ids : <<fetch[i], b>> \in overlaps'
    <3>. SUFFICES ASSUME NEW i \in DOMAIN fetch PROVE \E b \in Ids : <<fetch[i], b>> \in overlaps'
      OBVIOUS
    <3>1. CASE Overlapped(fetch[i])  BY <2>1, <3>1 DEF Overlapped
    <3>2. CASE fetch[i] \in Inside  BY <2>1, <3>2
    <3>. QED  BY <2>4, <2>8, <2>9, <3>1, <3>2
  <2>12. \A b \in Inside : (\E i \in DOMAIN fetch : fetch[i] = b) \/ Shadowed(b)
    BY DEF OInv, OverrideScoped, Wrapping, Shadowed
  <2>13. Resolving'
    <3>1. \A d \in Inside' : Resolves(d)'
      BY <1>3, <1>4, <2>4 DEF OInv, Resolving, Stays
    <3>2. ASSUME NEW d, Resolves(d)' PROVE Overridden(d)'
      BY <3>2 DEF Resolves, Overridden
    <3>3. \A p \in overlaps' : p[1] <= started' /\ Overridden(p[1])'
      <4>. SUFFICES ASSUME NEW p \in overlaps' PROVE p[1] <= started' /\ Overridden(p[1])'
        OBVIOUS
      <4>1. CASE p \in overlaps  BY <1>1, <1>4, <4>1 DEF OInv, Resolving, Stays
      <4>2. CASE p \in Inside \X {c}
        <5>1. p[1] \in Inside /\ p[1] \in 1..started
          BY <4>2 DEF OInv, Resolving, Resolves, SessionTypeOK, IsTable
        <5>. QED  BY <1>1, <1>5, <3>1, <3>2, <2>4, <5>1
      <4>. QED  BY <2>1, <4>1, <4>2
    <3>4. ASSUME NEW a, NEW i \in DOMAIN fetch', fetch'[i] = a PROVE a <= started' /\ Overridden(a)'
      <4>1. CASE a = c  BY <1>1, <1>3, <1>5, <3>2, <4>1
      <4>2. CASE a # c
        <5>1. PICK j \in DOMAIN fetch : fetch[j] = a  BY <2>6, <3>4, <4>2
        <5>2. a <= started /\ Overridden(a)  BY <5>1 DEF OInv, Resolving
        <5>. QED  BY <1>1, <1>4, <5>2 DEF Stays
      <4>. QED  BY <4>1, <4>2
    <3>. QED  BY <3>1, <3>3, <3>4 DEF Resolving, Overridden
  <2>14. Restorable'
    <3>. SUFFICES ASSUME NEW d \in Inside'
                  PROVE  /\ \A i \in DOMAIN original'[d] :
                               \E b \in Ids : <<original'[d][i], b>> \in overlaps'
                         /\ \A b \in Inside' \ {d} : \/ <<d, b>> \in overlaps'
                                                     \/ \E i \in DOMAIN original'[d] : original'[d][i] = b
                                                     \/ Shadowed(b)'
      BY DEF Restorable, Overlapped
    <3>1. CASE d = c
      <4>1. \A b \in Inside : (\E i \in DOMAIN fetch : fetch[i] = b) \/ Shadowed(b)'
        BY <2>4, <2>10, <2>12
      <4>. QED  BY <2>4, <2>5, <2>11, <3>1, <4>1
    <3>2. CASE d # c
      <4>1. d \in Inside /\ original'[d] = original[d]  BY <2>4, <2>5, <3>2
      <4>2. \A i \in DOMAIN original[d] : \E b \in Ids : <<original[d][i], b>> \in overlaps'
        BY <2>1, <4>1 DEF OInv, Restorable, Overlapped
      <4>3. <<d, c>> \in overlaps'  BY <2>1, <4>1
      <4>4. ASSUME NEW b \in Inside \ {d}
            PROVE  \/ <<d, b>> \in overlaps'
                   \/ \E i \in DOMAIN original[d] : original[d][i] = b
                   \/ Shadowed(b)'
        <5>1. b \in Ids  BY <2>4, <4>4
        <5>2. \/ <<d, b>> \in overlaps
              \/ \E i \in DOMAIN original[d] : original[d][i] = b
              \/ Shadowed(b)
          BY <4>1, <4>4 DEF OInv, Restorable
        <5>. QED  BY <2>1, <2>10, <5>1, <5>2
      <4>. QED  BY <2>4, <4>1, <4>2, <4>3, <4>4
    <3>. QED  BY <3>1, <3>2
  <2>15. OverrideScoped'
    <3>1. \A i \in DOMAIN fetch' : fetch'[i] \in Inside' \/ \E b \in Ids : <<fetch'[i], b>> \in overlaps'
      BY <2>4, <2>6, <2>11
    <3>2. \A b \in Inside' : Wrapping(b)' \/ Shadowed(b)'
      <4>1. Wrapping(c)'  BY <2>6 DEF Wrapping
      <4>2. ASSUME NEW b \in Inside PROVE Wrapping(b)' \/ Shadowed(b)'
        <5>1. CASE Shadowed(b)  BY <2>4, <2>10, <4>2, <5>1
        <5>2. ASSUME NEW i \in DOMAIN fetch, fetch[i] = b PROVE Wrapping(b)'
          BY <2>6, <5>2 DEF Wrapping
        <5>. QED  BY <2>12, <5>1, <5>2
      <4>. QED  BY <2>4, <4>1, <4>2
    <3>. QED  BY <3>1, <3>2 DEF OverrideScoped, Overlapped, Shadowed
  <2>. QED  BY <2>13, <2>14, <2>15 DEF OInv
<1>. QED  BY <1>6, <1>7

\* A request takes off whatever is in place, and ends or goes on.
LEMMA RestoreHolds ==
    ASSUME TypeOK, OInv, NEW c \in Ids, Alone(c), Restore(c), UNCHANGED <<started, overlaps>>
    PROVE  OInv'
<1>1. Inside' = Inside \ {c} /\ Inside \subseteq Ids /\ \A d \in Inside' : original'[d] = original[d]
  BY DEF Restore, Inside, Without, TypeOK, IsTable
<1>2. \A e : Overridden(e) => Overridden(e)'  BY OnlyForward DEF TypeOK
<1>3. ASSUME NEW b \in Ids, Shadowed(b) PROVE Shadowed(b)'
  BY <1>1, <1>3 DEF Shadowed
<1>4. \A i \in DOMAIN fetch' : fetch'[i] \in Inside' \/ Overlapped(fetch'[i])
  <2>1. CASE c \in Inside  BY <2>1 DEF Restore, OInv, Restorable
  <2>2. CASE c \notin Inside
    BY <1>1, <2>2 DEF Restore, OInv, OverrideScoped, Overlapped
  <2>. QED  BY <2>1, <2>2
<1>5. Resolving'
  <2>1. \A d \in Inside' : Resolves(d)'
    BY <1>1 DEF Alone, OInv, Resolving, Resolves
  <2>2. \A p \in overlaps : p[1] <= started /\ Overridden(p[1])'  BY <1>2 DEF OInv, Resolving
  <2>3. ASSUME NEW a, NEW i \in DOMAIN fetch', fetch'[i] = a PROVE a <= started /\ Overridden(a)'
    <3>1. CASE Overlapped(a)
      <4>1. PICK b \in Ids : <<a, b>> \in overlaps  BY <3>1 DEF Overlapped
      <4>2. <<a, b>>[1] = a  OBVIOUS
      <4>. QED  BY <2>2, <4>1, <4>2
    <3>2. CASE a \in Inside'
      <4>1. a \in 1..started
        BY <1>1, <3>2 DEF OInv, Resolving, Resolves, TypeOK, SessionTypeOK, IsTable
      <4>2. Resolves(a)'  BY <2>1, <3>2
      <4>. QED  BY <4>1, <4>2 DEF TypeOK, SessionTypeOK, Resolves, Overridden
    <3>. QED  BY <1>4, <2>3, <3>1, <3>2
  <2>. QED  BY <2>1, <2>2, <2>3 DEF Resolving, Overridden
<1>6. Restorable'
  <2>. SUFFICES ASSUME NEW d \in Inside'
                PROVE  /\ \A i \in DOMAIN original[d] : Overlapped(original[d][i])
                       /\ \A b \in Inside' \ {d} : \/ <<d, b>> \in overlaps
                                                   \/ \E i \in DOMAIN original[d] : original[d][i] = b
                                                   \/ Shadowed(b)'
    BY <1>1 DEF Restorable, Overlapped
  <2>1. d \in Inside  BY <1>1
  <2>2. \A b \in Inside \ {d} : \/ <<d, b>> \in overlaps
                                \/ \E i \in DOMAIN original[d] : original[d][i] = b
                                \/ Shadowed(b)
    BY <2>1 DEF OInv, Restorable
  <2>. QED  BY <1>1, <1>3, <2>1, <2>2 DEF OInv, Restorable
<1>7. OverrideScoped'
  <2>1. \A i \in DOMAIN fetch' : fetch'[i] \in Inside' \/ \E b \in Ids : <<fetch'[i], b>> \in overlaps'
    BY <1>4 DEF Overlapped
  <2>2. \A b \in Inside' : Wrapping(b)' \/ Shadowed(b)'
    <3>. SUFFICES ASSUME NEW b \in Inside' PROVE Wrapping(b)' \/ Shadowed(b)'
      OBVIOUS
    <3>1. b \in Inside /\ b # c /\ b \in Ids  BY <1>1
    <3>2. CASE c \in Inside
      <4>1. fetch' = original[c]  BY <3>2 DEF Restore
      <4>2. \/ <<c, b>> \in overlaps
            \/ \E i \in DOMAIN original[c] : original[c][i] = b
            \/ Shadowed(b)
        BY <3>1, <3>2 DEF OInv, Restorable
      <4>3. CASE <<c, b>> \in overlaps  BY <1>1, <4>3 DEF Shadowed
      <4>. QED  BY <1>3, <3>1, <4>1, <4>2, <4>3 DEF Wrapping
    <3>3. CASE c \notin Inside
      <4>1. Wrapping(b) \/ Shadowed(b)  BY <3>1 DEF OInv, OverrideScoped, Shadowed
      <4>2. fetch' = fetch  BY <3>3 DEF Restore
      <4>. QED  BY <1>3, <3>1, <4>1, <4>2 DEF Wrapping
    <3>. QED  BY <3>2, <3>3
  <2>. QED  BY <2>1, <2>2 DEF OverrideScoped, Overlapped, Shadowed
<1>. QED  BY <1>5, <1>6, <1>7 DEF OInv

\* Every step keeps the wrappers explained.
LEMMA ScopedStep == ASSUME TypeOK, OInv, [Next]_vars PROVE OInv'
<1>. SessionTypeOK /\ started \in Nat  BY DEF TypeOK, SessionTypeOK
<1>1. CASE UNCHANGED vars
  <2>1. UNCHANGED <<calls, started, fetch, original, overlaps>>
    BY <1>1 DEF vars, sessionVars, exchangeVars
  <2>2. \A e : Stays(e)  BY <2>1 DEF Stays, Resolves, Overridden
  <2>. QED  BY <2>1, <2>2, Quietly
<1>2. CASE Crash
  <2>1. /\ DOMAIN calls' = {} /\ fetch' = <<>> /\ DOMAIN original' = {}
        /\ UNCHANGED <<overlaps, started>>
    BY <1>2 DEF Crash, SessionCrash, EmptyTable
  <2>2. DOMAIN fetch' = {}  BY <2>1
  <2>. QED  BY <2>1, <2>2 DEF OInv, Resolving, Restorable, OverrideScoped, Inside, Overridden
<1>3. ASSUME NEW kind \in Kinds, NEW keys \in Presented[kind], Arrive(kind, keys), UNCHANGED exchangeVars
      PROVE  OInv'
  <2>. DEFINE row == [kind |-> kind, keys |-> keys, step |-> IF keys = {"jwt"} THEN 0 ELSE 1]
  <2>1. started' = started + 1 /\ calls' = Put(calls, started', row)  BY <1>3 DEF Arrive
  <2>. HIDE DEF row
  <2>2. ASSUME NEW e \in 1..started PROVE Stays(e)
    <3>1. e # started'  BY <2>1, <2>2
    <3>. QED  BY <2>1, <3>1 DEF Stays, Resolves, Overridden, Put
  <2>3. UNCHANGED <<fetch, original, overlaps>> /\ started <= started' /\ started' \in Nat
    BY <1>3, <2>1 DEF exchangeVars
  <2>. QED  BY <2>2, <2>3, Quietly
<1>4. ASSUME NEW c \in Ids, HangUp(c), UNCHANGED exchangeVars PROVE OInv'
  <2>1. UNCHANGED <<calls, started, fetch, original, overlaps>>  BY <1>4 DEF HangUp, exchangeVars
  <2>2. \A e : Stays(e)  BY <2>1 DEF Stays, Resolves, Overridden
  <2>. QED  BY <2>1, <2>2, Quietly
<1>5. ASSUME NEW c \in Ids, NEW what, At(c, what), what # "resolve", Alone(c),
             UNCHANGED <<fetch, original, overlaps, started>>
      PROVE  OInv'
  <2>1. \A e : Stays(e)  BY <1>5, OtherStep
  <2>. QED  BY <1>5, <2>1, Quietly
<1>6. ASSUME NEW c \in Ids, Step(c) PROVE OInv'
  <2>1. CASE (TokenSession(c) \/ TokenRefused(c)) /\ UNCHANGED exchangeVars
    <3>1. UNCHANGED <<fetch, original, overlaps, started>>
      BY <2>1 DEF TokenSession, TokenRefused, exchangeVars
    <3>2. Alone(c) /\ (c \in DOMAIN calls /\ calls[c].step > 0 => calls' = calls)
      BY <2>1, TokenAlone
    <3>3. ASSUME NEW e PROVE Stays(e)
      <4>1. Resolves(e) => Resolves(e)'  BY <3>2 DEF Alone, Resolves
      <4>. QED  BY <3>2, <4>1, OnlyForward DEF Stays
    <3>. QED  BY <3>1, <3>3, Quietly
  <2>2. CASE (Open(c) \/ Close(c) \/ Awaited(c)) /\ UNCHANGED exchangeVars
    <3>1. PICK what \in {"open", "close", "await"} : At(c, what) /\ \E open : Proceed(c, open)
      BY <2>2 DEF Open, Close, Awaited
    <3>2. Alone(c)  BY <3>1, ProceedAlone DEF At
    <3>3. UNCHANGED <<fetch, original, overlaps, started>>
      BY <2>2 DEF Open, Close, Awaited, exchangeVars
    <3>. QED  BY <1>5, <3>1, <3>2, <3>3
  <2>3. CASE \/ (OpenRefused(c) \/ AwaitThrows(c)) /\ UNCHANGED exchangeVars
             \/ AnnounceThrows(c) \/ RedeemThrows(c)
    <3>1. PICK what \in {"open", "await", "announce", "redeem"} : At(c, what) /\ Throw(c)
      BY <2>3 DEF OpenRefused, AwaitThrows, AnnounceThrows, RedeemThrows
    <3>2. Alone(c)  BY <3>1, ThrowAlone DEF At
    <3>3. UNCHANGED <<fetch, original, overlaps, started>>
      BY <2>3 DEF OpenRefused, AwaitThrows, AnnounceThrows, RedeemThrows, exchangeVars
    <3>. QED  BY <1>5, <3>1, <3>2, <3>3
  <2>4. CASE ReadMetadata(c) \/ Announce(c) \/ (\E o \in Offers : Redeem(c, o)) \/ Store(c)
    <3>1. PICK what \in {"metadata", "announce", "redeem", "store"} : At(c, what) /\ Proceed(c, sessions)
      BY <2>4 DEF ReadMetadata, Announce, Redeem, Store
    <3>2. Alone(c)  BY <3>1, ProceedAlone DEF At
    <3>3. UNCHANGED <<fetch, original, overlaps, started>>
      BY <2>4 DEF ReadMetadata, Announce, Redeem, Store
    <3>. QED  BY <1>5, <3>1, <3>2, <3>3
  <2>5. CASE NotStored(c)
    <3>1. c \in DOMAIN calls /\ calls[c].step + 1 \in Nat /\ calls[c].step + 1 >= calls[c].step
      BY <2>5 DEF NotStored, At, SessionTypeOK, IsTable
    <3>2. Alone(c) /\ At(c, "store")  BY <2>5, <3>1, GoToAlone DEF NotStored
    <3>3. UNCHANGED <<fetch, original, overlaps, started>>  BY <2>5 DEF NotStored, exchangeVars
    <3>. QED  BY <1>5, <3>2, <3>3
  <2>6. CASE Override(c)  BY <2>6, OverrideHolds
  <2>7. CASE Resolved(c) \/ ResolveThrows(c)
    <3>1. Alone(c)  BY <2>7, ProceedAlone, ThrowAlone DEF Resolved, ResolveThrows, At
    <3>. QED  BY <2>7, <3>1, RestoreHolds DEF Resolved, ResolveThrows
  <2>. QED  BY <1>6, <2>1, <2>2, <2>3, <2>4, <2>5, <2>6, <2>7 DEF Step, SessionStep
<1>. QED  BY <1>1, <1>2, <1>3, <1>4, <1>6 DEF Next

-----------------------------------------------------------------------------
(* The way of a credential *)

KInv == Underway /\ Fetched

\* What the invariant says of an offer stays true while its request is left alone.
LEMMA KeptGrows ==
    ASSUME TypeOK, Grows, held \subseteq held', NEW o \in DOMAIN redeemed, redeemed'[o] = redeemed[o],
           Kept(o)
    PROVE  Kept(o)'
<1>1. redeemed[o] \in Ids  BY DEF TypeOK, IsTable
<1>. QED  BY <1>1 DEF Kept, Grows

LEMMA Elsewhere ==
    ASSUME TypeOK, Grows, held \subseteq held', NEW c, Alone(c), NEW o \in DOMAIN redeemed,
           redeemed'[o] = redeemed[o], redeemed[o] # c, Fate(o)
    PROVE  Fate(o)'
<1>1. redeemed[o] \in Ids  BY DEF TypeOK, IsTable
<1>2. CASE redeemed[o] \in DOMAIN calls
  <2>1. redeemed[o] \in DOMAIN calls' /\ calls'[redeemed[o]] = calls[redeemed[o]]  BY <1>2 DEF Alone
  <2>. QED  BY <1>1, <1>2, <2>1, KeptGrows DEF Fate, Grows
<1>3. CASE redeemed[o] \notin DOMAIN calls
  <2>1. redeemed[o] \notin DOMAIN calls'  BY <1>3 DEF Alone
  <2>. QED  BY <1>1, <1>3, <2>1, KeptGrows DEF Fate, Grows
<1>. QED  BY <1>2, <1>3

LEMMA FetchedHolds ==
    ASSUME TypeOK, Fetched, Grows, UNCHANGED held,
           \A o \in DOMAIN redeemed : o \in DOMAIN redeemed' /\ redeemed'[o] = redeemed[o]
    PROVE  Fetched'
<1>1. \A o \in DOMAIN redeemed : redeemed[o] \in Ids  BY DEF TypeOK, IsTable
<1>. QED  BY <1>1 DEF Fetched, Grows

\* A step that uses no offer up and stores nothing.
LEMMA OtherwiseKept ==
    ASSUME TypeOK, KInv, Grows, NEW c, Alone(c), UNCHANGED <<redeemed, held, started>>,
           \A o \in DOMAIN redeemed : redeemed[o] = c => Fate(o)'
    PROVE  KInv'
<1>1. Fetched'  BY FetchedHolds DEF KInv
<1>2. \A o \in DOMAIN redeemed : Fate(o)'  BY Elsewhere DEF KInv, Underway
<1>. QED  BY <1>1, <1>2 DEF KInv, Underway

\* The steps a request can be at after it used an offer up.
LEMMA AfterRedeem ==
    ASSUME TypeOK, KInv, NEW c, NEW what, At(c, what), NEW o \in DOMAIN redeemed, redeemed[o] = c
    PROVE  \/ what = "open" /\ calls[c].kind = "accept" /\ calls[c].step = 3
           \/ what = "store" /\ (\/ calls[c].kind = "accept" /\ calls[c].step = 4
                                 \/ calls[c].kind = "use" /\ calls[c].step = 5)
           \/ what = "close" /\ calls[c].kind = "accept" /\ calls[c].step = 5
                 /\ (Kept(o) \/ "store" \in blame[c])
<1>1. Fate(o) /\ c \in DOMAIN calls /\ Script[calls[c].kind][calls[c].step] = what
  BY DEF KInv, Underway, At
<1>2. /\ Script["accept"][3] = "open" /\ Script["accept"][4] = "store"
      /\ Script["accept"][5] = "close" /\ Script["use"][5] = "store"
  BY DEF Script, AcceptOffer, UseOfferRequest
<1>. QED  BY <1>1, <1>2 DEF Fate

\* The way of an offer that is used up: the request goes on to store its credential.
LEMMA RedeemHolds == ASSUME TypeOK, KInv, NEW c \in Ids, NEW o \in Offers, Redeem(c, o) PROVE KInv'
<1>. SessionTypeOK  BY DEF TypeOK
<1>1. /\ At(c, "redeem") /\ c \in DOMAIN calls /\ calls[c].step > 0 /\ o \notin DOMAIN redeemed
      /\ redeemed' = Put(redeemed, o, c) /\ Proceed(c, sessions) /\ UNCHANGED <<started, held>>
  BY DEF Redeem, At
<1>2. \/ calls[c].kind = "accept" /\ calls[c].step = 2
      \/ calls[c].kind = "use" /\ calls[c].step = 4
  BY <1>1, AtStep, Where DEF At
<1>3. ~(calls[c].step + 1 > Len(Script[calls[c].kind]))
  BY <1>2 DEF Script, AcceptOffer, UseOfferRequest
<1>4. /\ Alone(c) /\ Grows /\ c \in DOMAIN calls' /\ calls'[c].step = calls[c].step + 1
      /\ calls'[c].kind = calls[c].kind
  BY <1>1, <1>3, ProceedAlone DEF Alone
<1>5. /\ DOMAIN redeemed' = DOMAIN redeemed \cup {o} /\ redeemed'[o] = c
      /\ \A p \in DOMAIN redeemed : redeemed'[p] = redeemed[p]
  BY <1>1 DEF Put
<1>6. Fetched'  BY <1>1, <1>4, <1>5, FetchedHolds DEF KInv
<1>7. ASSUME NEW p \in DOMAIN redeemed PROVE Fate(p)' /\ redeemed'[p] <= started'
  <2>1. redeemed[p] # c  BY <1>1, <1>7, AfterRedeem
  <2>. QED  BY <1>1, <1>4, <1>5, <1>7, <2>1, Elsewhere DEF KInv, Underway
<1>8. Fate(o)' /\ redeemed'[o] <= started'
  <2>1. Fate(o)'  BY <1>2, <1>4, <1>5 DEF Fate
  <2>2. c <= started  BY <1>1, AtStep DEF SessionTypeOK
  <2>. QED  BY <1>1, <1>5, <2>1, <2>2
<1>. QED  BY <1>5, <1>6, <1>7, <1>8 DEF KInv, Underway

LEMMA RedeemThrowsHolds == ASSUME TypeOK, KInv, NEW c \in Ids, RedeemThrows(c) PROVE KInv'
<1>. SessionTypeOK  BY DEF TypeOK
<1>1. /\ At(c, "redeem") /\ c \in DOMAIN calls /\ calls[c].step > 0
      /\ Throw(c) /\ UNCHANGED <<started, held>>
      /\ redeemed' = redeemed \/ \E o \in Offers \ DOMAIN redeemed : redeemed' = Put(redeemed, o, c)
  BY DEF RedeemThrows, At
<1>2. \/ calls[c].kind = "accept" /\ calls[c].step = 2
      \/ calls[c].kind = "use" /\ calls[c].step = 4
  BY <1>1, AtStep, Where DEF At
<1>3. Caught(calls[c].kind, calls[c].step) = 0 /\ calls[c].kind \notin Tidy
  BY <1>2 DEF Caught, Tidy
<1>4. Alone(c) /\ Grows /\ c \notin DOMAIN calls' /\ "failed" \in blame'[c]
  BY <1>1, <1>3, ThrowAlone
<1>5. /\ \A p \in DOMAIN redeemed : p \in DOMAIN redeemed' /\ redeemed'[p] = redeemed[p]
      /\ \A p \in DOMAIN redeemed' : p \in DOMAIN redeemed \/ redeemed'[p] = c
  BY <1>1 DEF Put
<1>6. Fetched'  BY <1>1, <1>4, <1>5, FetchedHolds DEF KInv
<1>7. ASSUME NEW p \in DOMAIN redeemed PROVE Fate(p)' /\ redeemed'[p] <= started'
  <2>1. redeemed[p] # c  BY <1>1, <1>7, AfterRedeem
  <2>. QED  BY <1>1, <1>4, <1>5, <1>7, <2>1, Elsewhere DEF KInv, Underway
<1>8. ASSUME NEW p \in DOMAIN redeemed', redeemed'[p] = c PROVE Fate(p)' /\ redeemed'[p] <= started'
  <2>1. Fate(p)'  BY <1>4, <1>8 DEF Fate
  <2>2. c <= started  BY <1>1, AtStep DEF SessionTypeOK
  <2>. QED  BY <1>1, <1>8, <2>1, <2>2
<1>. QED  BY <1>5, <1>6, <1>7, <1>8 DEF KInv, Underway

\* The wallet of the base agent is only used for a request the API key admitted.
LEMMA BaseWallet ==
    ASSUME TypeOK, Admitted, NEW c \in DOMAIN calls, calls[c].step > 0, WalletOf(c) = "base",
           calls[c].kind \in {"accept", "use"}
    PROVE  "apiKey" \in blame[c]
<1>1. calls[c].kind = "use" /\ <<c, 0>> \notin sessions  BY DEF WalletOf
<1>2. calls[c].keys \in {{"jwt"}, {"apiKey"}, {"apiKey", "jwt"}}
  <2>1. Presented["use"] = {{"jwt"}, {"apiKey"}, {"apiKey", "jwt"}}
    BY DEF Presented, Kinds, Script
  <2>. QED  BY <1>1, <2>1 DEF Admitted
<1>3. calls[c].keys # {"jwt"}  BY <1>1 DEF Admitted
<1>. QED  BY <1>2, <1>3 DEF Admitted

LEMMA StoreHolds == ASSUME TypeOK, Admitted, KInv, NEW c \in Ids, Store(c) PROVE KInv'
<1>. SessionTypeOK  BY DEF TypeOK
<1>1. /\ At(c, "store") /\ c \in DOMAIN calls /\ calls[c].step > 0
      /\ held' = held \cup ({o \in Redeemed(c) : ~Passed(c, o)} \X {WalletOf(c)})
      /\ Proceed(c, sessions) /\ UNCHANGED <<started, redeemed>>
  BY DEF Store, At
<1>2. \/ calls[c].kind = "accept" /\ calls[c].step = 4
      \/ calls[c].kind = "use" /\ calls[c].step = 5
  BY <1>1, AtStep, Where DEF At
<1>3. Alone(c) /\ Grows  BY <1>1, ProceedAlone
<1>4. WalletOf(c) = "base" => "apiKey" \in blame'[c]
  <2>1. c \in Ids  OBVIOUS
  <2>. QED  BY <1>1, <1>2, <1>3, <2>1, BaseWallet DEF Grows
<1>5. WalletOf(c) \in {"tenant", "base"}  BY DEF WalletOf
<1>6. \A o \in Redeemed(c) : Kept(o)'
  <2>. SUFFICES ASSUME NEW o \in Redeemed(c) PROVE Kept(o)'
    OBVIOUS
  <2>1. redeemed'[o] = c  BY <1>1 DEF Redeemed
  <2>2. CASE Passed(c, o)
    <3>1. calls[c].kind = "use" /\ o \in Skipped  BY <2>2 DEF Passed
    <3>2. "use" \in blame'[c]  BY <1>1, <1>3, <3>1 DEF Admitted, Grows
    <3>. QED  BY <2>1, <3>1, <3>2 DEF Kept
  <2>3. CASE ~Passed(c, o)
    <3>1. <<o, WalletOf(c)>> \in held'  BY <1>1, <2>3
    <3>. QED  BY <1>4, <1>5, <2>1, <3>1 DEF Kept
  <2>. QED  BY <2>2, <2>3
<1>7. Fetched'
  <2>1. \A o \in DOMAIN redeemed : redeemed[o] \in Ids  BY DEF TypeOK, IsTable
  <2>2. ASSUME NEW h \in held
        PROVE  h[1] \in DOMAIN redeemed' /\ (h[2] = "base" => "apiKey" \in blame'[redeemed'[h[1]]])
    BY <1>1, <1>3, <2>1, <2>2 DEF KInv, Fetched, Grows
  <2>3. ASSUME NEW h \in Redeemed(c) \X {WalletOf(c)}
        PROVE  h[1] \in DOMAIN redeemed' /\ (h[2] = "base" => "apiKey" \in blame'[redeemed'[h[1]]])
    BY <1>1, <1>4, <2>3 DEF Redeemed
  <2>. QED  BY <1>1, <2>2, <2>3 DEF Fetched
<1>8. \A o \in DOMAIN redeemed : Fate(o)'
  <2>. SUFFICES ASSUME NEW o \in DOMAIN redeemed PROVE Fate(o)'
    OBVIOUS
  <2>1. CASE redeemed[o] # c
    BY <1>1, <1>3, <2>1, Elsewhere DEF KInv, Underway
  <2>2. CASE redeemed[o] = c
    <3>1. Kept(o)'  BY <1>6, <2>2 DEF Redeemed
    <3>2. CASE calls[c].kind = "use"
      <4>1. calls[c].step + 1 > Len(Script[calls[c].kind])  BY <1>2, <3>2 DEF Script, UseOfferRequest
      <4>2. c \notin DOMAIN calls'  BY <1>1, <4>1, ProceedAlone
      <4>. QED  BY <1>1, <2>2, <3>1, <4>2 DEF Fate
    <3>3. CASE calls[c].kind = "accept"
      <4>1. calls[c].step + 1 = 5 /\ ~(calls[c].step + 1 > Len(Script[calls[c].kind]))
        BY <1>2, <3>3 DEF Script, AcceptOffer
      <4>2. c \in DOMAIN calls' /\ calls'[c].step = 5 /\ calls'[c].kind = "accept"
        BY <1>1, <1>3, <3>3, <4>1, ProceedAlone DEF Alone
      <4>. QED  BY <1>1, <2>2, <3>1, <4>2 DEF Fate
    <3>. QED  BY <1>2, <3>2, <3>3
  <2>. QED  BY <2>1, <2>2
<1>. QED  BY <1>1, <1>7, <1>8 DEF KInv, Underway

LEMMA NotStoredHolds == ASSUME TypeOK, KInv, NEW c \in Ids, NotStored(c) PROVE KInv'
<1>. SessionTypeOK  BY DEF TypeOK
<1>1. /\ At(c, "store") /\ c \in DOMAIN calls /\ calls[c].step > 0 /\ Blame(c, "store")
      /\ GoTo(c, calls[c].step + 1, sessions) /\ UNCHANGED <<redeemed, held, started>>
  BY DEF NotStored, At, exchangeVars
<1>2. \/ calls[c].kind = "accept" /\ calls[c].step = 4
      \/ calls[c].kind = "use" /\ calls[c].step = 5
  BY <1>1, AtStep, Where DEF At
<1>3. Grows /\ "store" \in blame'[c]
  BY <1>1 DEF Blame, Grows, SessionTypeOK, Reasons
<1>4. calls[c].step + 1 \in Nat /\ calls[c].step + 1 >= calls[c].step  BY <1>2
<1>5. Alone(c)  BY <1>1, <1>4, GoToAlone
<1>6. \A o \in DOMAIN redeemed : redeemed[o] = c => Fate(o)'
  <2>. SUFFICES ASSUME NEW o \in DOMAIN redeemed, redeemed[o] = c PROVE Fate(o)'
    OBVIOUS
  <2>1. CASE calls[c].kind = "use"
    <3>1. calls[c].step + 1 > Len(Script[calls[c].kind])  BY <1>2, <2>1 DEF Script, UseOfferRequest
    <3>2. c \notin DOMAIN calls'  BY <1>1, <1>4, <3>1, GoToAlone
    <3>. QED  BY <1>1, <1>3, <3>2 DEF Fate
  <2>2. CASE calls[c].kind = "accept"
    <3>1. calls[c].step + 1 = 5 /\ ~(calls[c].step + 1 > Len(Script[calls[c].kind]))
      BY <1>2, <2>2 DEF Script, AcceptOffer
    <3>2. c \in DOMAIN calls' /\ calls'[c].step = 5 /\ calls'[c].kind = "accept"
      BY <1>1, <1>5, <1>4, <2>2, <3>1, GoToAlone DEF Alone
    <3>. QED  BY <1>1, <1>3, <3>2 DEF Fate
  <2>. QED  BY <1>2, <2>1, <2>2
<1>. QED  BY <1>1, <1>3, <1>5, <1>6, OtherwiseKept

\* The steps between: a session is opened or refused, or closed in the end.
LEMMA OpenKept ==
    ASSUME TypeOK, KInv, NEW c \in Ids, Open(c) \/ OpenRefused(c) \/ Close(c), UNCHANGED exchangeVars
    PROVE  KInv'
<1>. SessionTypeOK  BY DEF TypeOK
<1>1. /\ c \in DOMAIN calls /\ calls[c].step > 0 /\ UNCHANGED <<redeemed, held, started>>
      /\ At(c, "open") \/ At(c, "close")
  BY DEF Open, OpenRefused, Close, At, exchangeVars
<1>2. ASSUME NEW o \in DOMAIN redeemed, redeemed[o] = c
      PROVE  At(c, "open") => calls[c].kind = "accept" /\ calls[c].step = 3
  BY <1>2, AfterRedeem
<1>3. CASE Open(c)
  <2>1. PICK open : Proceed(c, open) /\ At(c, "open")  BY <1>3 DEF Open
  <2>2. Alone(c) /\ Grows  BY <1>1, <2>1, ProceedAlone
  <2>3. ASSUME NEW o \in DOMAIN redeemed, redeemed[o] = c PROVE Fate(o)'
    <3>1. calls[c].kind = "accept" /\ calls[c].step = 3  BY <1>2, <2>1, <2>3
    <3>2. calls[c].step + 1 = 4 /\ ~(calls[c].step + 1 > Len(Script[calls[c].kind]))
      BY <3>1 DEF Script, AcceptOffer
    <3>3. c \in DOMAIN calls' /\ calls'[c].step = 4 /\ calls'[c].kind = "accept"
      BY <1>1, <2>1, <2>2, <3>1, <3>2, ProceedAlone DEF Alone
    <3>. QED  BY <1>1, <2>3, <3>3 DEF Fate
  <2>. QED  BY <1>1, <2>2, <2>3, OtherwiseKept
<1>4. CASE OpenRefused(c)
  <2>1. Throw(c) /\ At(c, "open")  BY <1>4 DEF OpenRefused
  <2>2. Alone(c) /\ Grows  BY <1>1, <2>1, ThrowAlone
  <2>3. ASSUME NEW o \in DOMAIN redeemed, redeemed[o] = c PROVE Fate(o)'
    <3>1. calls[c].kind = "accept" /\ calls[c].step = 3  BY <1>2, <2>1, <2>3
    <3>2. Caught(calls[c].kind, calls[c].step) = 0 /\ calls[c].kind \notin Tidy
      BY <3>1 DEF Caught, Tidy
    <3>3. c \notin DOMAIN calls' /\ "failed" \in blame'[c]  BY <1>1, <2>1, <3>2, ThrowAlone
    <3>. QED  BY <1>1, <2>3, <3>3 DEF Fate
  <2>. QED  BY <1>1, <2>2, <2>3, OtherwiseKept
<1>5. CASE Close(c)
  <2>1. PICK open : Proceed(c, open) /\ At(c, "close")  BY <1>5 DEF Close
  <2>2. Alone(c) /\ Grows  BY <1>1, <2>1, ProceedAlone
  <2>3. ASSUME NEW o \in DOMAIN redeemed, redeemed[o] = c PROVE Fate(o)'
    <3>1. calls[c].kind = "accept" /\ calls[c].step = 5 /\ (Kept(o) \/ "store" \in blame[c])
      BY <2>1, <2>3, AfterRedeem
    <3>2. calls[c].step + 1 > Len(Script[calls[c].kind])  BY <3>1 DEF Script, AcceptOffer
    <3>3. c \notin DOMAIN calls'  BY <1>1, <2>1, <3>2, ProceedAlone
    <3>4. Kept(o)' \/ "store" \in blame'[c]  BY <1>1, <2>2, <2>3, <3>1, KeptGrows DEF Grows
    <3>. QED  BY <1>1, <2>3, <3>3, <3>4 DEF Fate
  <2>. QED  BY <1>1, <2>2, <2>3, OtherwiseKept
<1>. QED  BY <1>3, <1>4, <1>5

\* Every step keeps the credentials of used offers on their way.
LEMMA CredentialStep == ASSUME TypeOK, Admitted, KInv, [Next]_vars PROVE KInv'
<1>. SessionTypeOK /\ started \in Nat  BY DEF TypeOK, SessionTypeOK
<1>1. \A o \in DOMAIN redeemed : redeemed[o] \in Ids /\ redeemed[o] \in Nat
  BY DEF TypeOK, IsTable, Ids
<1>2. CASE UNCHANGED vars
  BY <1>2 DEF vars, sessionVars, exchangeVars, KInv, Underway, Fetched, Fate, Kept
<1>3. CASE Crash
  <2>1. /\ DOMAIN calls' = {} /\ UNCHANGED <<redeemed, held, started>>
        /\ blame' = [c \in Ids |-> blame[c] \cup IF c \in DOMAIN calls THEN {"crash"} ELSE {}]
    BY <1>3 DEF Crash, SessionCrash, EmptyTable
  <2>2. Grows  BY <2>1 DEF Grows, SessionTypeOK, Reasons
  <2>3. Fetched'  BY <2>1, <2>2, FetchedHolds DEF KInv
  <2>4. ASSUME NEW o \in DOMAIN redeemed PROVE Fate(o)'
    <3>1. CASE redeemed[o] \in DOMAIN calls
      <4>1. "crash" \in blame'[redeemed[o]]  BY <1>1, <2>1, <3>1
      <4>. QED  BY <2>1, <4>1 DEF Fate
    <3>2. CASE redeemed[o] \notin DOMAIN calls
      <4>1. {"failed", "store", "crash"} \cap blame[redeemed[o]] # {} \/ Kept(o)
        BY <2>4, <3>2 DEF KInv, Underway, Fate
      <4>. QED  BY <1>1, <2>1, <2>2, <2>4, <4>1, KeptGrows DEF Fate, Grows
    <3>. QED  BY <3>1, <3>2
  <2>. QED  BY <2>1, <2>3, <2>4 DEF KInv, Underway
<1>4. ASSUME NEW kind \in Kinds, NEW keys \in Presented[kind], Arrive(kind, keys), UNCHANGED exchangeVars
      PROVE  KInv'
  <2>. DEFINE row == [kind |-> kind, keys |-> keys, step |-> IF keys = {"jwt"} THEN 0 ELSE 1]
  <2>1. /\ started' = started + 1 /\ calls' = Put(calls, started', row)
        /\ blame' = [blame EXCEPT ![started'] = (keys \cup {kind}) \cap {"apiKey", "proof", "use"}]
        /\ UNCHANGED <<redeemed, held>>
    BY <1>4 DEF Arrive, exchangeVars
  <2>. HIDE DEF row
  <2>2. ASSUME NEW o \in DOMAIN redeemed
        PROVE  /\ redeemed[o] # started' /\ blame'[redeemed[o]] = blame[redeemed[o]]
               /\ redeemed[o] \in DOMAIN calls' <=> redeemed[o] \in DOMAIN calls
               /\ redeemed[o] \in DOMAIN calls => calls'[redeemed[o]] = calls[redeemed[o]]
    <3>1. redeemed[o] # started'  BY <1>1, <2>1, <2>2 DEF KInv, Underway
    <3>. QED  BY <1>1, <2>1, <2>2, <3>1 DEF Put, SessionTypeOK
  <2>3. \A o \in DOMAIN redeemed : Fate(o)' /\ redeemed[o] <= started'
    <3>. SUFFICES ASSUME NEW o \in DOMAIN redeemed PROVE Fate(o)' /\ redeemed[o] <= started'
      OBVIOUS
    <3>1. Kept(o)' <=> Kept(o)  BY <2>1, <2>2 DEF Kept
    <3>2. redeemed[o] <= started /\ Fate(o)  BY DEF KInv, Underway
    <3>3. redeemed[o] <= started'  BY <1>1, <2>1, <3>2
    <3>. QED  BY <2>1, <2>2, <3>1, <3>2, <3>3 DEF Fate
  <2>4. Fetched'  BY <2>1, <2>2 DEF KInv, Fetched
  <2>. QED  BY <2>1, <2>3, <2>4 DEF KInv, Underway
<1>5. ASSUME NEW c \in Ids, HangUp(c), UNCHANGED exchangeVars PROVE KInv'
  <2>1. UNCHANGED <<calls, redeemed, held, started>>  BY <1>5 DEF HangUp, exchangeVars
  <2>2. Grows  BY <1>5 DEF HangUp, Blame, Grows, SessionTypeOK, Reasons
  <2>3. Alone(0)  BY <2>1 DEF Alone, SessionTypeOK, IsTable
  <2>4. \A o \in DOMAIN redeemed : redeemed[o] # 0  BY <1>1 DEF Ids
  <2>. QED  BY <2>1, <2>2, <2>3, <2>4, OtherwiseKept
<1>6. ASSUME NEW c \in Ids, NEW what, At(c, what), what \notin {"open", "store", "close"},
             Alone(c), Grows, UNCHANGED <<redeemed, held, started>>
      PROVE  KInv'
  <2>1. \A o \in DOMAIN redeemed : redeemed[o] # c  BY <1>6, AfterRedeem
  <2>. QED  BY <1>6, <2>1, OtherwiseKept
<1>7. ASSUME NEW c \in Ids, Step(c) PROVE KInv'
  <2>1. CASE (TokenSession(c) \/ TokenRefused(c)) /\ UNCHANGED exchangeVars
    <3>1. UNCHANGED <<redeemed, held, started>>
      BY <2>1 DEF TokenSession, TokenRefused, exchangeVars
    <3>2. Alone(c) /\ Grows /\ (c \in DOMAIN calls /\ calls[c].step > 0 => calls' = calls)
      BY <2>1, TokenAlone
    <3>3. ASSUME NEW o \in DOMAIN redeemed, redeemed[o] = c PROVE Fate(o)'
      <4>1. Fate(o)  BY <3>3 DEF KInv, Underway
      <4>2. Kept(o) => Kept(o)'  BY <3>1, <3>2, <3>3, KeptGrows
      <4>3. CASE c \in DOMAIN calls
        <5>1. calls' = calls  BY <3>2, <3>3, <4>1, <4>3 DEF Fate
        <5>. QED  BY <3>1, <3>2, <3>3, <4>1, <4>2, <4>3, <5>1 DEF Fate, Grows
      <4>4. CASE c \notin DOMAIN calls
        BY <3>1, <3>2, <3>3, <4>1, <4>2, <4>4 DEF Fate, Grows, Alone
      <4>. QED  BY <4>3, <4>4
    <3>. QED  BY <3>1, <3>2, <3>3, OtherwiseKept
  <2>2. CASE (Open(c) \/ OpenRefused(c) \/ Close(c)) /\ UNCHANGED exchangeVars  BY <2>2, OpenKept
  <2>3. CASE \/ Awaited(c) /\ UNCHANGED exchangeVars
             \/ ReadMetadata(c) \/ Override(c) \/ Resolved(c) \/ Announce(c)
    <3>1. PICK what \in {"await", "metadata", "override", "resolve", "announce"} :
             At(c, what) /\ Proceed(c, sessions)
      BY <2>3 DEF Awaited, ReadMetadata, Override, Resolved, Announce
    <3>2. Alone(c) /\ Grows  BY <3>1, ProceedAlone DEF At
    <3>3. UNCHANGED <<redeemed, held, started>>
      BY <2>3 DEF Awaited, ReadMetadata, Override, Resolved, Announce, exchangeVars
    <3>. QED  BY <1>6, <3>1, <3>2, <3>3
  <2>4. CASE (AwaitThrows(c) /\ UNCHANGED exchangeVars) \/ ResolveThrows(c) \/ AnnounceThrows(c)
    <3>1. PICK what \in {"await", "resolve", "announce"} : At(c, what) /\ Throw(c)
      BY <2>4 DEF AwaitThrows, ResolveThrows, AnnounceThrows
    <3>2. Alone(c) /\ Grows  BY <3>1, ThrowAlone DEF At
    <3>3. UNCHANGED <<redeemed, held, started>>
      BY <2>4 DEF AwaitThrows, ResolveThrows, AnnounceThrows, exchangeVars
    <3>. QED  BY <1>6, <3>1, <3>2, <3>3
  <2>5. CASE \E o \in Offers : Redeem(c, o)  BY <2>5, RedeemHolds
  <2>6. CASE RedeemThrows(c)  BY <2>6, RedeemThrowsHolds
  <2>7. CASE Store(c)  BY <2>7, StoreHolds
  <2>8. CASE NotStored(c)  BY <2>8, NotStoredHolds
  <2>. QED  BY <1>7, <2>1, <2>2, <2>3, <2>4, <2>5, <2>6, <2>7, <2>8 DEF Step, SessionStep
<1>. QED  BY <1>2, <1>3, <1>4, <1>5, <1>7 DEF Next

-----------------------------------------------------------------------------
(* Theorems *)

\* For any limit, offers, calls and failures: never more tenant sessions are open than
\* the limit allows, and calls, wrappers, codes and wallets keep their types.
THEOREM ExchangeTypeCorrect == Spec => []TypeOK
<1>1. Init => TypeOK  BY InitType
<1>2. TypeOK /\ [Next]_vars => TypeOK'  BY StepType
<1>. QED  BY <1>1, <1>2, PTL DEF Spec

\* The inductive invariant: what handlers hold and leave behind, what the requests inside
\* withScopedIssuerFetch will restore, and where the requests that used an offer up are.
THEOREM ExchangeInvariant == Spec => []IInv
<1>1. Init => IInv
  <2>. SUFFICES ASSUME Init PROVE IInv
    OBVIOUS
  <2>1. TypeOK  BY InitType
  <2>2. /\ DOMAIN calls = {} /\ asking = {} /\ sessions = {} /\ fetch = <<>> /\ DOMAIN original = {}
        /\ overlaps = {} /\ DOMAIN redeemed = {} /\ held = {}
    BY DEF Init, SessionInit, EmptyTable
  <2>3. HInv  BY <2>2, NothingHeld
  <2>4. Asked  BY <2>2 DEF Asked
  <2>5. DOMAIN fetch = {}  BY <2>2
  <2>6. OInv  BY <2>2, <2>5 DEF OInv, Resolving, Restorable, OverrideScoped, Inside
  <2>7. KInv  BY <2>2 DEF KInv, Underway, Fetched
  <2>. QED  BY <2>1, <2>3, <2>4, <2>6, <2>7 DEF IInv, HInv, OInv, KInv
<1>2. IInv /\ [Next]_vars => IInv'
  <2>. SUFFICES ASSUME IInv, [Next]_vars PROVE IInv'
    OBVIOUS
  <2>1. TypeOK /\ Asked /\ HInv /\ OInv /\ KInv /\ Admitted  BY DEF IInv, HInv, OInv, KInv
  <2>2. TypeOK' /\ Asked' /\ HInv' /\ OInv' /\ KInv'
    BY <2>1, StepType, AskedStep, HeldStep, ScopedStep, CredentialStep
  <2>. QED  BY <2>2 DEF IInv, HInv, OInv, KInv
<1>. QED  BY <1>1, <1>2, PTL DEF Spec

\* "End tenant session if active", for any limit and any number of calls and failures: a
\* session that outlives its call was left by a client that went away, a token accepted
\* late, a proof event, or a handler that threw between getTenantAgent and endSession.
THEOREM SessionsAreExplained == Spec => []SessionsExplained
<1>1. IInv => SessionsExplained
  <2>. SUFFICES ASSUME IInv, NEW s \in sessions, ~Running(s[1])
                PROVE  \/ s[2] = 0 /\ {"hung", "late"} \cap blame[s[1]] # {}
                       \/ s[2] > 0 /\ {"proof", "failed"} \cap blame[s[1]] # {}
    BY DEF SessionsExplained
  <2>1. s[1] \notin DOMAIN calls  BY DEF Running
  <2>2. s[2] \in Nat  BY DEF IInv, TypeOK, SessionTypeOK
  <2>. QED  BY <2>1, <2>2 DEF IInv, LeftOpen
<1>. QED  BY <1>1, ExchangeInvariant, PTL

\* "Always restores original fetch", for any number of requests: wrapper and request are
\* gone together, except for requests that overlapped, where one that is left was
\* overlapped by a later request and one that is missing was taken off by an earlier one.
THEOREM OverridesAreScoped == Spec => []OverrideScoped
<1>1. IInv => OverrideScoped  BY DEF IInv
<1>. QED  BY <1>1, ExchangeInvariant, PTL

\* useOfferRequest and acceptOffer, for any offers and requests: the credential of a used
\* offer is in the wallet its request was made for, or the request runs, met a failure, or
\* was useOfferRequest and got a record it does not store.
THEOREM RedeemedAreHeld == Spec => []RedeemedIsHeld
<1>1. IInv => RedeemedIsHeld
  <2>. SUFFICES ASSUME IInv PROVE RedeemedIsHeld
    OBVIOUS
  <2>1. ASSUME NEW o \in DOMAIN redeemed
        PROVE  \/ redeemed[o] \in DOMAIN calls
               \/ {"failed", "store", "crash"} \cap blame[redeemed[o]] # {}
               \/ "use" \in blame[redeemed[o]] /\ o \in Skipped
               \/ <<o, "tenant">> \in held
               \/ "apiKey" \in blame[redeemed[o]] /\ <<o, "base">> \in held
    BY <2>1 DEF IInv, Underway, Fate, Kept
  <2>. QED  BY <2>1 DEF RedeemedIsHeld, IInv, Fetched
<1>. QED  BY <1>1, ExchangeInvariant, PTL
=============================================================================
