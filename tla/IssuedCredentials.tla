-------------------------- MODULE IssuedCredentials --------------------------
(***************************************************************************)
(* The registry of issued credentials: the mapper in src/src/cliAgent.ts   *)
(* that Credo calls when a wallet asks for a credential, the repository    *)
(* src/src/persistence/IssuedCredentialRepository.ts, and the endpoints    *)
(* that offer, revoke and verify (OidcIssuerController and                 *)
(* OidcVerifierController).                                                *)
(*                                                                         *)
(* An issuance session has one row, and one credential id, whatever number *)
(* of credentials it offers; a wallet asks for them one at a time.         *)
(***************************************************************************)
EXTENDS CredentialIssuer, Tables, FiniteSets

CONSTANTS OfferSizes,   \* numbers of credentials an operator puts into an offer
          MaxChecks,    \* verifications that are waiting or have ended
          MaxCalls      \* other requests of a behaviour

CredentialAssumption ==
    /\ OfferSizes \subseteq Nat \ {0} /\ MaxChecks \in Nat
    /\ MaxCalls \in Nat /\ MaxFailures \in Nat

VARIABLES portal,       \* sizes of the offers made by operators, in their order
          registry,     \* issued_credentials: whether the row of a session is revoked
          history,      \* what was issued and revoked, in its order
          checks,       \* presentations whose verification awaits the library
          verdicts,     \* what was answered, and after how many steps of history
          started       \* requests so far

credentialVars == <<portal, registry, history, checks, verdicts>>

Session == {"service", "portal"} \X Nat
Event   == [what: {"saved", "lost", "revoked"}, session: Session]
Verdict == [of: SUBSET Session, revoked: SUBSET Session, at: Nat]

CredentialTypeOK ==
    /\ portal \in Seq(OfferSizes) /\ history \in Seq(Event)
    /\ IsTable(registry, Session, BOOLEAN)
    /\ IsTable(checks, 1..MaxChecks, SUBSET Session)
    /\ \A v \in verdicts : v \in Verdict /\ v.revoked \subseteq v.of

CredentialInit ==
    /\ portal = <<>> /\ registry = EmptyTable /\ history = <<>>
    /\ checks = EmptyTable /\ verdicts = {}

-----------------------------------------------------------------------------
Request == started < MaxCalls /\ started' = started + 1

\* The sessions whose offer somebody holds: those of createOffer, and operators'.
Sessions == ({"service"} \X {i \in DOMAIN offers : ~offers[i].lost})
            \cup ({"portal"} \X DOMAIN portal)

Size(s)   == IF s[1] = "portal" THEN portal[s[2]] ELSE 1
Issued(s) == Cardinality({i \in DOMAIN history :
                             history[i].session = s /\ history[i].what # "revoked"})
Happened(what, s) == history' = Append(history, [what |-> what, session |-> s])

\* createCredentialOffer, with a template for each of n credentials.
CreateCredentialOffer(n) ==
    /\ Request
    /\ portal' = Append(portal, n)
    /\ UNCHANGED <<registry, history, checks, verdicts, offers, failures>>

\* save: ON CONFLICT(id) DO UPDATE SET ... revoked = @revoked.
Save(s) == registry' = Put(registry, s, FALSE)

\* The library has a wallet's request for the next credential of its session and
\* calls the mapper.  A save that throws is logged; the credential is issued.
CredentialMapper(s) ==
    /\ Request
    /\ s \in Sessions /\ Issued(s) < Size(s)
    /\ \/ Save(s) /\ Happened("saved", s) /\ UNCHANGED failures
       \/ Failure /\ Happened("lost", s) /\ UNCHANGED registry
    /\ UNCHANGED <<portal, checks, verdicts, offers>>

\* revokeCredential: the UPDATE, if there is a row.  The deletion that follows looks
\* for an exchange record of that id, and the endpoint answers that it failed.
RevokeCredential(s) ==
    /\ Request
    /\ s \in Sessions /\ Issued(s) > 0
    /\ registry' = IF s \in DOMAIN registry THEN Put(registry, s, TRUE) ELSE registry
    /\ Happened("revoked", s)
    /\ UNCHANGED <<portal, checks, verdicts, offers, failures>>

IsRevoked(s) == s \in DOMAIN registry /\ registry[s]

\* verifyPresentation, to the await of verifyAuthorizationResponse.
VerifyPresentation(c, presented) ==
    /\ c \notin DOMAIN checks /\ Cardinality(DOMAIN checks) + Cardinality(verdicts) < MaxChecks
    /\ presented # {} /\ \A s \in presented : Issued(s) > 0
    /\ checks' = Put(checks, c, presented)
    /\ UNCHANGED <<portal, registry, history, verdicts, offers, failures, started>>

\* A slip: the answer for the first credential of the presentation is that for all.
RevokedIds_First(presented) ==
    LET first == CHOOSE s \in presented : TRUE
    IN IF IsRevoked(first) THEN presented ELSE {}

RevokedIds(presented) == {s \in presented : IsRevoked(s)}

\* The signatures are good, and the registry decides; or they are not.
PresentationVerified(c) ==
    /\ verdicts' = verdicts \cup
           {[of |-> checks[c], revoked |-> RevokedIds(checks[c]), at |-> Len(history)]}
    /\ checks' = Without(checks, {c})
    /\ UNCHANGED <<portal, registry, history, offers, failures, started>>

PresentationRejected(c) ==
    /\ checks' = Without(checks, {c})
    /\ UNCHANGED <<portal, registry, history, verdicts, offers, failures, started>>

\* The process dies, and the verifications with it.
CredentialCrash ==
    /\ Failure
    /\ checks' = EmptyTable
    /\ UNCHANGED <<portal, registry, history, verdicts, offers, started>>

CredentialNext ==
    \/ \E n \in OfferSizes : CreateCredentialOffer(n)
    \/ \E s \in Sessions : CredentialMapper(s) \/ RevokeCredential(s)
    \/ \E c \in 1..MaxChecks, presented \in SUBSET Sessions : VerifyPresentation(c, presented)
    \/ \E c \in DOMAIN checks : PresentationVerified(c) \/ PresentationRejected(c)

-----------------------------------------------------------------------------
(* Properties *)

\* What the registry was told of a session in the first n steps of history.
Told(s, n) == {i \in DOMAIN history :
                  i <= n /\ history[i].session = s /\ history[i].what # "lost"}

\* The last of that is a revocation, and a row was saved.
RevokedBy(s, n) ==
    /\ \E i \in Told(s, n) : history[i].what = "saved"
    /\ \E i \in Told(s, n) : history[i].what = "revoked" /\ \A k \in Told(s, n) : k <= i

\* "Per-VC revocation flag works and verifier consults it": a verdict refuses exactly
\* the credentials that were revoked, also during the verification, since the
\* registry last saved one of their session.  What this leaves out is what the code
\* does: a credential whose saving failed cannot be revoked, and the next credential
\* of an offer of several revives those before it.
RevocationsHonoured ==
    \A v \in verdicts : \A s \in v.of : s \in v.revoked <=> RevokedBy(s, v.at)
=============================================================================
