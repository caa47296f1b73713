--------------------------- MODULE TenantSessions ---------------------------
(***************************************************************************)
(* The sessions of tenant agents: who opens one, while it waits for what,  *)
(* and when it is ended.  The library (TenantsModule, configured in        *)
(* src/src/cliAgent.ts) keeps at most SessionLimit of them open; who asks  *)
(* for one more waits until one is ended, or until its wait times out.     *)
(*                                                                         *)
(* A token opens a session for the whole request (authentication.ts),      *)
(* which server.ts ends when the response is sent; handlers open others    *)
(* meanwhile.  A handler is a script of the awaits that matter here:       *)
(*   open, close   getTenantAgent or withTenantAgent, and endSession       *)
(*   await         other awaits of the library, HTTP or a wallet           *)
(* and steps with effects of their own, which WalletExchange defines.      *)
(***************************************************************************)
EXTENDS Tables, FiniteSets, Sequences

CONSTANTS SessionLimit,     \* SESSION_LIMIT
          MaxCalls, MaxFailures

ASSUME SessionAssumption ==
    SessionLimit \in Nat \ {0} /\ MaxCalls \in Nat /\ MaxFailures \in Nat

VARIABLES calls,        \* the requests and event handlers that run
          asking,       \* the requests whose token is being turned into a session
          sessions,     \* <<c, 0>> is the session of request c, <<c, n>> one of its handler
          blame,        \* what was special about a call, or went wrong with it
          started, failures

sessionVars == <<calls, asking, sessions, blame, started, failures>>

-----------------------------------------------------------------------------
(* Scripts *)

GetPendingOffers == <<"open", "await", "close", "open", "await", "close", "await">>
FoundGenericId   == <<"open", "await", "close">>    \* the same, for a wallet that has its GenericID
AcceptOffer      == <<"await", "redeem", "open", "store", "close">>
UseOfferRequest  == <<"metadata", "override", "resolve", "redeem", "store">>
ResolveOffer     == <<"metadata", "override", "resolve">>
CreateOffer      == <<"open", "await", "close">>
Login            == <<"open", "await", "close">>    \* or the provisioning of a user
Provision        == <<"open", "await", "open", "await", "close", "announce", "await", "close">>
DefineCredential == <<"await", "announce">>
ProofEvent       == <<"open", "await">>

Script == [pending |-> GetPendingOffers, known |-> FoundGenericId, accept |-> AcceptOffer,
           use |-> UseOfferRequest, resolve |-> ResolveOffer, offer |-> CreateOffer,
           login |-> Login, provision |-> Provision, define |-> DefineCredential,
           proof |-> ProofEvent]

Kinds == DOMAIN Script

\* The keys a request of a kind is admitted with.  An offer is created for requests
\* without a token, and for workflows, whose endpoints want one.
Presented ==
    [k \in Kinds |->
       CASE k = "use"                            -> {{"jwt"}, {"apiKey"}, {"apiKey", "jwt"}}
         [] k = "offer"                          -> {{}, {"jwt"}}
         [] k \in {"login", "provision", "proof"} -> {{}}
         [] OTHER                                -> {{"jwt"}}]

\* The handlers that end their sessions whatever happens, in a finally or a catch.
Tidy == {"offer", "login", "provision"}

\* What a failure at a step is caught by: the step to go on with, or 0.
Caught(kind, step) ==
    CASE kind = "provision" /\ step \in 3..5 -> 6   \* "Failed to seed default VC models"
      [] kind = "pending" /\ step = 7        -> 8
      [] kind = "define"                     -> 3
      [] OTHER                               -> 0

-----------------------------------------------------------------------------
Ids     == 1..MaxCalls
Reasons == {"apiKey", "proof", "use", "hung", "late", "failed", "store", "crash"}

SessionTypeOK ==
    /\ IsTable(calls, 1..started, [kind: Kinds, step: Nat, keys: SUBSET {"apiKey", "jwt"}])
    /\ \A c \in DOMAIN calls : calls[c].step <= Len(Script[calls[c].kind])
    /\ asking \subseteq 1..started
    /\ sessions \subseteq (1..started) \X Nat
    /\ IsFiniteSet(sessions) /\ Cardinality(sessions) <= SessionLimit
    /\ blame \in [Ids -> SUBSET Reasons]
    /\ started \in 0..MaxCalls /\ failures \in 0..MaxFailures

SessionInit ==
    /\ calls = EmptyTable /\ asking = {} /\ sessions = {} /\ blame = [c \in Ids |-> {}]
    /\ started = 0 /\ failures = 0

Free           == Cardinality(sessions) < SessionLimit
Failure        == failures < MaxFailures /\ failures' = failures + 1
Blame(c, why)  == blame' = [blame EXCEPT ![c] = @ \cup {why}]
Own(c)         == {s \in sessions : s[1] = c /\ s[2] > 0}
Innermost(c)   == <<c, Cardinality(Own(c))>>
At(c, what)    == c \in DOMAIN calls /\ calls[c].step > 0
                  /\ Script[calls[c].kind][calls[c].step] = what

\* A slip: the session of the request stays open.
Finished_Never(c, open) == open

\* The response is sent, and `finish' ends the session of the request; a client
\* that has gone is sent nothing.
Finished(c, open) == IF "hung" \in blame[c] THEN open ELSE open \ {<<c, 0>>}

Answer(c, open) ==
    calls' = Without(calls, {c}) /\ sessions' = Finished(c, open)

GoTo(c, step, open) ==
    IF step > Len(Script[calls[c].kind]) THEN Answer(c, open)
    ELSE calls' = Put(calls, c, [calls[c] EXCEPT !.step = step]) /\ sessions' = open

Proceed(c, open) == GoTo(c, calls[c].step + 1, open) /\ UNCHANGED blame

\* A step throws: it is caught, or the request is answered with an error.
Throw(c) ==
    LET next == Caught(calls[c].kind, calls[c].step)
        kept == IF calls[c].kind \in Tidy THEN sessions \ Own(c) ELSE sessions
    IN IF next > 0 THEN GoTo(c, next, sessions \ {s \in Own(c) : s[2] > 1}) /\ UNCHANGED blame
       ELSE /\ Answer(c, kept)
            /\ IF calls[c].kind \in Tidy THEN UNCHANGED blame ELSE Blame(c, "failed")

-----------------------------------------------------------------------------
(* Actions *)

\* authenticateMiddleware tries all keys at once, and the first that is good admits
\* the request; the API key is compared without an await.
Arrive(kind, keys) ==
    /\ started < MaxCalls /\ started' = started + 1
    /\ keys \in Presented[kind]
    /\ calls' = Put(calls, started', [kind |-> kind, keys |-> keys,
                                      step |-> IF keys = {"jwt"} THEN 0 ELSE 1])
    /\ asking' = IF "jwt" \in keys THEN asking \cup {started'} ELSE asking
    /\ blame' = [blame EXCEPT ![started'] = (keys \cup {kind}) \cap {"apiKey", "proof", "use"}]
    /\ UNCHANGED <<sessions, failures>>

\* getTenantAgent for the token, while or after the API key admitted the request.
TokenSession(c) ==
    /\ c \in asking /\ Free
    /\ asking' = asking \ {c}
    /\ sessions' = sessions \cup {<<c, 0>>}
    /\ calls' = IF c \in DOMAIN calls /\ calls[c].step = 0
                THEN Put(calls, c, [calls[c] EXCEPT !.step = 1]) ELSE calls
    /\ IF c \in DOMAIN calls THEN UNCHANGED blame ELSE Blame(c, "late")
    /\ UNCHANGED <<started, failures>>

\* A wait for a session ends without one: it timed out, or the library failed.
NoSession == IF Free THEN Failure ELSE UNCHANGED failures

TokenRefused(c) ==
    /\ c \in asking /\ NoSession
    /\ asking' = asking \ {c}
    /\ calls' = IF c \in DOMAIN calls /\ calls[c].step = 0 THEN Without(calls, {c}) ELSE calls
    /\ UNCHANGED <<sessions, blame, started>>

Open(c) ==
    /\ At(c, "open") /\ Free
    /\ Proceed(c, sessions \cup {<<c, Cardinality(Own(c)) + 1>>})
    /\ UNCHANGED <<asking, started, failures>>

\* A slip: a handler waits for its session without a timeout.
OpenRefused_NoTimeout(c) ==
    /\ At(c, "open") /\ Free /\ Failure
    /\ Throw(c)
    /\ UNCHANGED <<asking, started>>

OpenRefused(c) ==
    /\ At(c, "open") /\ NoSession
    /\ Throw(c)
    /\ UNCHANGED <<asking, started>>

Close(c) ==
    /\ At(c, "close")
    /\ Proceed(c, sessions \ {Innermost(c)})
    /\ UNCHANGED <<asking, started, failures>>

Awaited(c) ==
    /\ At(c, "await")
    /\ Proceed(c, sessions)
    /\ UNCHANGED <<asking, started, failures>>

AwaitThrows(c) ==
    /\ At(c, "await") /\ Failure
    /\ Throw(c)
    /\ UNCHANGED <<asking, started>>

\* The client goes away before it is answered.
HangUp(c) ==
    /\ c \in DOMAIN calls /\ calls[c].kind # "proof" /\ "hung" \notin blame[c]
    /\ Failure /\ Blame(c, "hung")
    /\ UNCHANGED <<calls, asking, sessions, started>>

\* The process dies, and all of this with it.
SessionCrash ==
    /\ Failure
    /\ calls' = EmptyTable /\ asking' = {} /\ sessions' = {}
    /\ blame' = [c \in Ids |-> blame[c] \cup IF c \in DOMAIN calls THEN {"crash"} ELSE {}]
    /\ UNCHANGED started

SessionStep(c) ==
    \/ TokenSession(c) \/ TokenRefused(c) \/ Open(c) \/ OpenRefused(c)
    \/ Close(c) \/ Awaited(c) \/ AwaitThrows(c)

-----------------------------------------------------------------------------
(* Properties *)

Running(c) == c \in DOMAIN calls \cup asking

\* "End tenant session if active": a session that no running call holds was left by
\* a client that went away, by a token that was accepted after the API key had got the
\* request admitted and answered, by the handler of a proof event, or by one that
\* threw between getTenantAgent and endSession.  Those are open until the process ends.
SessionsExplained ==
    \A s \in sessions :
        \/ Running(s[1])
        \/ s[2] = 0 /\ {"hung", "late"} \cap blame[s[1]] # {}
        \/ s[2] > 0 /\ {"proof", "failed"} \cap blame[s[1]] # {}
=============================================================================
