------------------------------- MODULE Consent -------------------------------
(***************************************************************************)
(* Consent records (src/src/persistence/ConsentRepository.ts) and the      *)
(* workflow actions that capture, verify and revoke them                   *)
(* (src/src/services/workflow/actions/ConsentActions.ts).  Times are in    *)
(* minutes; a retention of 0 is one whose text matches no pattern, which   *)
(* makes the consent end the moment it is given.                           *)
(***************************************************************************)
EXTENDS Naturals, FiniteSets, Tables

CONSTANTS Subjects, Tenants, Purposes,
          ConsentIds,   \* the ids uuid can draw
          Retentions    \* lengths of the retention periods configured

ConsentAssumption == \A r \in Retentions : r \in Nat

VARIABLES now,          \* the clock
          consents,     \* consent_records
          verified      \* context.state.consentVerified, if the last step set it

consentVars == <<consents, verified>>

AllPurposes == "*"
None        == {}

Record == [subject: Subjects, tenant: Tenants, purposes: SUBSET (Purposes \cup {AllPurposes}),
           until: Nat, created: Nat, status: {"active", "revoked", "expired"},
           revokedAt: SUBSET Nat]
Check  == [consent: ConsentIds, subject: Subjects, tenant: Tenants, purpose: Purposes]

ConsentTypeOK ==
    /\ IsTable(consents, ConsentIds, Record)
    /\ verified \subseteq Check /\ Cardinality(verified) <= 1

ConsentInit == consents = EmptyTable /\ verified = None

Set(id, record) == Put(consents, id, record)

-----------------------------------------------------------------------------
\* ConsentActions.capture and recordConsent, for consent that was not refused.
Capture(id, s, t, purposes, retention) ==
    /\ id \notin DOMAIN consents
    /\ consents' = Set(id, [subject |-> s, tenant |-> t, purposes |-> purposes,
                            until |-> now + retention, created |-> now,
                            status |-> "active", revokedAt |-> None])
    /\ verified' = None

\* The WHERE of findActiveConsent, and its ORDER BY created_at DESC LIMIT 1,
\* where records of one second come in any order.
InForce(id) == consents[id].status = "active" /\ consents[id].until > now

Held(s, t) == {id \in DOMAIN consents :
                 consents[id].subject = s /\ consents[id].tenant = t /\ InForce(id)}
Newest(s, t) == {id \in Held(s, t) :
                   \A other \in Held(s, t) : consents[other].created <= consents[id].created}

\* The purpose is looked for in the newest record only.
FindActiveConsent(s, t, p) ==
    {id \in Newest(s, t) : consents[id].purposes \cap {p, AllPurposes} # {}}

\* ConsentActions.verify; when it throws it leaves no state behind.
Verify(s, t, p) ==
    \E id \in FindActiveConsent(s, t, p) :
        /\ verified' = {[consent |-> id, subject |-> s, tenant |-> t, purpose |-> p]}
        /\ UNCHANGED consents

\* revokeConsent asks for no status: what has expired can still be revoked.
Revoke(id) ==
    /\ id \in DOMAIN consents
    /\ consents' = Set(id, [consents[id] EXCEPT !.status = "revoked", !.revokedAt = {now}])
    /\ verified' = None

\* The records expireConsents updates; and a slip, without status = 'active'.
Overdue_AnyStatus == {id \in DOMAIN consents : consents[id].until <= now}
Overdue == {id \in DOMAIN consents : consents[id].status = "active" /\ consents[id].until <= now}

\* expireConsents, an operation no code of the server calls.
ExpireConsents ==
    /\ Overdue # {}
    /\ consents' = [id \in DOMAIN consents |->
                      IF id \in Overdue THEN [consents[id] EXCEPT !.status = "expired"]
                      ELSE consents[id]]
    /\ verified' = None

ConsentNext ==
    \/ \E id \in ConsentIds, s \in Subjects, t \in Tenants, r \in Retentions,
          purposes \in (SUBSET Purposes) \cup {{AllPurposes}} : Capture(id, s, t, purposes, r)
    \/ \E s \in Subjects, t \in Tenants, p \in Purposes : Verify(s, t, p)
    \/ \E id \in ConsentIds : Revoke(id)
    \/ ExpireConsents

-----------------------------------------------------------------------------
(* Properties *)

\* "Revocation audit trail", "Time-bound retention with automatic expiry": a
\* record shows that it was revoked for ever, whatever sweeps run later, and a
\* verification rests on one that the subject gave that tenant for that purpose
\* (or for all), and whose retention was not over, although records past it
\* stay active in the table.
ConsentHonoured ==
    /\ \A id \in DOMAIN consents :
           consents[id].status = "revoked" <=> consents[id].revokedAt # None
    /\ \A check \in verified :
           LET record == consents[check.consent]
           IN /\ record.subject = check.subject /\ record.tenant = check.tenant
              /\ record.purposes \cap {check.purpose, AllPurposes} # {}
              /\ record.revokedAt = None
              /\ record.created <= now /\ now < record.until
=============================================================================
