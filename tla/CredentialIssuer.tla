-------------------------- MODULE CredentialIssuer --------------------------
(***************************************************************************)
(* createOffer of src/src/services/CredentialIssuanceService.ts, as its    *)
(* callers see it: they await it while other handlers run.  It may throw   *)
(* before there is an offer (no tenant, no issuer, a failed step) and,     *)
(* because the tenant session is closed in a `finally', also after.        *)
(***************************************************************************)
EXTENDS Naturals, Sequences

CONSTANT MaxFailures        \* calls of createOffer that throw, and crashes

VARIABLES offers,           \* the credential offers ever made, in their order
          failures

\* A reference to an offer: its position in offers, or no offer.
NoOffer == 0

\* since: how many offers there were when the caller read what it acts on.
NewOffer(type, of, since, lost) ==
    offers' = Append(offers, [type |-> type, of |-> of, since |-> since, lost |-> lost])

\* createOffer returns; the caller stores OfferId.
Offered(type, of, since) == NewOffer(type, of, since, FALSE) /\ UNCHANGED failures
OfferId_Last == Len(offers)         \* a slip: the offer before
OfferId == Len(offers) + 1

Failure == failures < MaxFailures /\ failures' = failures + 1

\* createOffer throws, and there is no offer or one nobody knows of.
Refused(type, of, since) ==
    Failure /\ (UNCHANGED offers \/ NewOffer(type, of, since, TRUE))
=============================================================================
