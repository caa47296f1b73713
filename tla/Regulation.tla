----------------------------- MODULE Regulation -----------------------------
(***************************************************************************)
(* What a regulator looks at, on one database and one clock: the consents  *)
(* subjects gave, and the trust scores of merchants.  Two databases are    *)
(* looked at: one the server created with its list of migrations (007, no  *)
(* consent_records), and one on which an operator ran                      *)
(* 015_consent_and_trust.sql before it.  Without its table every statement *)
(* of ConsentRepository throws, and nothing changes.                       *)
(***************************************************************************)
EXTENDS Integers

CONSTANTS Times,    \* the times the clock shows, from 0
          Subjects, Tenants, Purposes, ConsentIds, Retentions,
          Merchants, Ratings, Weights, Ages, Histories, MaxEvents

VARIABLES now, consents, verified, shape, log, scores, served, logged

Consents == INSTANCE Consent
Scores   == INSTANCE Trust

ASSUME RegulationAssumption ==
    /\ \A t \in Times : t \in Nat
    /\ Consents!ConsentAssumption /\ Scores!TrustAssumption

regulationVars == <<now, consents, verified, shape, log, scores, served, logged>>
trusting == <<shape, log, scores, logged>>

\* 015 creates consent_records, and the tables of the repository if 007 did not.
HasConsentRecords == shape = "repository"

RegulationTypeOK ==
    now \in Times \cup {0} /\ Consents!ConsentTypeOK /\ Scores!TrustTypeOK

RegulationInit == now = 0 /\ Consents!ConsentInit /\ Scores!TrustInit

\* Time passes.  An answer is one of the last step: any other step forgets it.
Tick(t) ==
    /\ now < t /\ now' = t
    /\ verified' = {} /\ served' = {}
    /\ UNCHANGED consents /\ UNCHANGED trusting

RegulationNext ==
    \/ \E t \in Times : Tick(t)
    \/ HasConsentRecords /\ Consents!ConsentNext /\ served' = {} /\ UNCHANGED now /\ UNCHANGED trusting
    \/ Scores!TrustNext /\ verified' = {} /\ UNCHANGED <<now, consents>>

RegulationSpec == RegulationInit /\ [][RegulationNext]_regulationVars

-----------------------------------------------------------------------------
\* The properties of the parts, in the whole.
ConsentHonoured      == Consents!ConsentHonoured
ServedScoreIsCurrent == Scores!ServedScoreIsCurrent
IncentivesRight      == Scores!IncentivesRight
=============================================================================
