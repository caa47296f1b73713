--------------------------- MODULE WalletExchange ---------------------------
(***************************************************************************)
(* What wallet requests do at the steps of their scripts besides opening   *)
(* sessions (TenantSessions): the override of the global fetch while an    *)
(* offer is resolved, from the cache of issuer metadata, and the way of a  *)
(* credential from its offer into a wallet.                                *)
(*   src/src/controllers/wallet/WalletController.ts                        *)
(*   src/src/controllers/wallet/WalletCredentialsController.ts             *)
(***************************************************************************)
EXTENDS TenantSessions

CONSTANTS Offers,       \* credential offers, of this server or another one
          Skipped       \* those whose credential comes in a record useOfferRequest does
                        \* not store: a string, or a JWT record without `credential'

ASSUME ExchangeAssumption == Skipped \subseteq Offers

VARIABLES cached,       \* whether issuerMetadataCache has metadata for the local origin
          informed,     \* the resolving requests that found some
          fetch,        \* globalThis.fetch: the requests whose wrappers it runs through,
                        \* outermost first; <<>> is the original
          original,     \* what the requests inside withScopedIssuerFetch will restore
          overlaps,     \* <<a, b>>: b installed its wrapper over that of a
          redeemed,     \* the request that used the code of an offer up
          held          \* <<o, w>>: the credential of offer o is in wallet w

exchangeVars == <<cached, informed, fetch, original, overlaps, redeemed, held>>
vars == <<sessionVars, exchangeVars>>

Wallets == {"tenant", "base"}

TypeOK ==
    /\ SessionTypeOK
    /\ cached \in BOOLEAN /\ informed \subseteq Ids
    /\ fetch \in Seq(Ids) /\ IsTable(original, Ids, Seq(Ids))
    /\ overlaps \subseteq Ids \X Ids
    /\ IsTable(redeemed, Offers, Ids)
    /\ held \subseteq Offers \X Wallets

\* A server that nobody asks anything yet; an organisation may have been announced.
Init ==
    /\ SessionInit
    /\ cached \in BOOLEAN /\ informed = {} /\ fetch = <<>> /\ original = EmptyTable
    /\ overlaps = {} /\ redeemed = EmptyTable /\ held = {}

-----------------------------------------------------------------------------
(* resolveCredentialOffer, and the first steps of useOfferRequest          *)

Inside == DOMAIN original

\* issuerMetadataCache.get || getLocalIssuer, for an offer of a local origin, before
\* the offer is looked up.  useOfferRequest asks the wallet of the base agent for a
\* record of the issuer instead.
ReadMetadata(c) ==
    /\ At(c, "metadata")
    /\ \/ (cached \/ calls[c].kind = "use") /\ informed' = informed \cup {c}
       \/ UNCHANGED informed
    /\ Proceed(c, sessions)
    /\ UNCHANGED <<asking, started, failures, cached, fetch, original, overlaps, redeemed, held>>

\* The lookup of the offer has been answered (errors are caught).  With metadata,
\* withScopedIssuerFetch puts its wrapper around fetch; then the library resolves.
Override(c) ==
    /\ At(c, "override")
    /\ IF c \in informed
       THEN /\ original' = Put(original, c, fetch)
            /\ fetch' = <<c>> \o fetch
            /\ overlaps' = overlaps \cup (Inside \X {c})
       ELSE UNCHANGED <<original, fetch, overlaps>>
    /\ Proceed(c, sessions)
    /\ UNCHANGED <<asking, started, failures, cached, informed, redeemed, held>>

\* The finally of withScopedIssuerFetch.
Restore(c) ==
    /\ fetch' = IF c \in Inside THEN original[c] ELSE fetch
    /\ original' = Without(original, {c})

\* A slip: the wrapper is taken off only when the offer was resolved.
ResolveThrows_NoFinally(c) ==
    /\ At(c, "resolve") /\ Failure
    /\ Throw(c)
    /\ original' = Without(original, {c})
    /\ UNCHANGED <<asking, started, cached, informed, fetch, overlaps, redeemed, held>>

Resolved(c) ==
    /\ At(c, "resolve")
    /\ Restore(c)
    /\ Proceed(c, sessions)
    /\ UNCHANGED <<asking, started, failures, cached, informed, overlaps, redeemed, held>>

ResolveThrows(c) ==
    /\ At(c, "resolve") /\ Failure
    /\ Restore(c)
    /\ Throw(c)
    /\ UNCHANGED <<asking, started, cached, informed, overlaps, redeemed, held>>

\* issuerMetadataCache.set: an organisation is provisioned or defines a credential.
Announce(c) ==
    /\ At(c, "announce")
    /\ cached' = TRUE
    /\ Proceed(c, sessions)
    /\ UNCHANGED <<asking, started, failures, informed, fetch, original, overlaps, redeemed, held>>

AnnounceThrows(c) ==
    /\ At(c, "announce") /\ Failure
    /\ Throw(c)
    /\ UNCHANGED <<asking, started, exchangeVars>>

-----------------------------------------------------------------------------
(* useOfferRequest and acceptOffer                                           *)

\* acceptCredentialOfferUsingPreAuthorizedCode: the code of an offer is good once.
Redeem(c, o) ==
    /\ At(c, "redeem") /\ o \notin DOMAIN redeemed
    /\ redeemed' = Put(redeemed, o, c)
    /\ Proceed(c, sessions)
    /\ UNCHANGED <<asking, started, failures, cached, informed, fetch, original, overlaps, held>>

\* It throws: for a code that was used before, or before or after it used one.
RedeemThrows(c) ==
    /\ At(c, "redeem")
    /\ \/ redeemed # EmptyTable /\ UNCHANGED <<redeemed, failures>>
       \/ Failure /\ UNCHANGED redeemed
       \/ Failure /\ \E o \in Offers \ DOMAIN redeemed : redeemed' = Put(redeemed, o, c)
    /\ Throw(c)
    /\ UNCHANGED <<asking, started, cached, informed, fetch, original, overlaps, held>>

Redeemed(c) == {o \in DOMAIN redeemed : redeemed[o] = c}

\* A slip: credentials are kept in the wallet of the base agent, which redeems them.
WalletOf_Base(c) == "base"

\* useOfferRequest stores with request.agent as it is by then, acceptOffer with the
\* session it opened for the tenant.
WalletOf(c) ==
    IF calls[c].kind = "accept" \/ <<c, 0>> \in sessions THEN "tenant" ELSE "base"

\* "skipping tenant wallet storage", and the request succeeds.
Passed(c, o) == calls[c].kind = "use" /\ o \in Skipped

Store(c) ==
    /\ At(c, "store")
    /\ held' = held \cup ({o \in Redeemed(c) : ~Passed(c, o)} \X {WalletOf(c)})
    /\ Proceed(c, sessions)
    /\ UNCHANGED <<asking, started, failures, cached, informed, fetch, original, overlaps, redeemed>>

\* storeCredential throws; that is logged, and the request answers all the same.
NotStored(c) ==
    /\ At(c, "store") /\ Failure
    /\ Blame(c, "store")
    /\ GoTo(c, calls[c].step + 1, sessions)
    /\ UNCHANGED <<asking, started, exchangeVars>>

-----------------------------------------------------------------------------
Crash ==
    /\ SessionCrash
    /\ cached' = FALSE /\ informed' = {} /\ fetch' = <<>> /\ original' = EmptyTable
    /\ UNCHANGED <<overlaps, redeemed, held>>

Step(c) ==
    \/ SessionStep(c) /\ UNCHANGED exchangeVars
    \/ ReadMetadata(c) \/ Override(c) \/ Resolved(c) \/ ResolveThrows(c)
    \/ Announce(c) \/ AnnounceThrows(c)
    \/ \E o \in Offers : Redeem(c, o)
    \/ RedeemThrows(c) \/ Store(c) \/ NotStored(c)

Next ==
    \/ \E kind \in Kinds : \E keys \in Presented[kind] : Arrive(kind, keys) /\ UNCHANGED exchangeVars
    \/ \E c \in Ids : Step(c) \/ (HangUp(c) /\ UNCHANGED exchangeVars)
    \/ Crash

Spec == Init /\ [][Next]_vars

\* Node goes on with a handler whose promise is settled; the library answers, or its
\* wait for a session times out.
FairSpec == Spec /\ \A c \in Ids : WF_vars(Step(c))

-----------------------------------------------------------------------------
(* Properties *)

Wrapping(c) == \E i \in DOMAIN fetch : fetch[i] = c

\* "Always restores original fetch": a wrapper is in place exactly while its request
\* is inside, except for requests that overlapped: one left behind was overlapped by
\* a later request, and one that is missing was taken off by an earlier request.
OverrideScoped ==
    /\ \A i \in DOMAIN fetch : fetch[i] \in Inside \/ \E b \in Ids : <<fetch[i], b>> \in overlaps
    /\ \A b \in Inside : Wrapping(b) \/ \E a \in Ids \ Inside : <<a, b>> \in overlaps

\* A used offer is not lost: its credential is in the wallet its request was made for
\* (the tenant's, or the base agent's if an API key admitted it), or the request runs,
\* or it met a failure, or was refused the session to store it with, or useOfferRequest
\* was given a record it does not store.
RedeemedIsHeld ==
    /\ \A o \in DOMAIN redeemed :
          LET c == redeemed[o]
          IN c \in DOMAIN calls \/ {"failed", "store", "crash"} \cap blame[c] # {}
             \/ ("use" \in blame[c] /\ o \in Skipped)
             \/ <<o, "tenant">> \in held \/ ("apiKey" \in blame[c] /\ <<o, "base">> \in held)
    /\ \A h \in held : /\ h[1] \in DOMAIN redeemed
                       /\ h[2] = "base" => "apiKey" \in blame[redeemed[h[1]]]

\* Every request is answered and every handler ends, although requests that hold the
\* session of their token wait for one more, all of them for each other.
RequestsEnd == \A c \in Ids : Running(c) ~> ~Running(c)
=============================================================================
