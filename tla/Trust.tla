-------------------------------- MODULE Trust --------------------------------
(***************************************************************************)
(* Trust scores: src/src/services/TrustEngine.ts behind TrustController,   *)
(* the repository the workflow action trust.update_score uses              *)
(* (src/src/persistence/TrustRepository.ts).  The evidence package of          *)
(* EscalationController asks for a score as the other readers do.          *)
(*                                                                         *)
(* Both services call their tables trust_events and trust_scores, with     *)
(* different columns: `shape' says whose migration (007 or 015) created    *)
(* them.  Every statement of the other service throws.  Times are minutes. *)
(***************************************************************************)
EXTENDS Integers, Sequences, FiniteSets, SequencesExt, TrustScores, Tables

CONSTANTS Merchants,
          Ratings,      \* what a review can carry: nothing checks it
          Weights,      \* weights trust.update_score is configured with
          Ages,         \* the maxAgeMinutes callers ask with (0: none)
          Histories,    \* events of the engine that merchants may have from before
          MaxEvents     \* bound on the events that are recorded

VARIABLES now,          \* the clock
          shape,        \* whose columns trust_events and trust_scores have
          log,          \* trust_events by merchant, in insertion order
          scores,       \* trust_scores of the engine
          served,       \* the answer, if the last step gave one
          logged        \* number of events recorded since

trustVars == <<shape, log, scores, served, logged>>

EngineEvents == {"kyc_attestation", "payment", "dispute", "refund", "delivery"}
NoAnswer     == {}

EngineEvent     == [type: EngineEvents, rating: {0}, at: Nat]
                   \cup [type: {"review"}, rating: Ratings, at: Nat]
RepositoryEvent == [weight: Weights, at: Nat]

TrustAssumption ==
    /\ \A r \in Ratings \cup Weights \cup Ages : r \in Int
    /\ \A h \in Histories : h \in Seq(EngineEvent) /\ \A i \in DOMAIN h : h[i].at = 0
    /\ MaxEvents \in Nat

\* An answer of the time `at', to a caller that takes one of that age.
Answer          == [merchant: Merchants, at: Nat, age: Int,
                    score: IF shape = "engine" THEN Rational ELSE (0..100) \X {1}]

TrustTypeOK ==
    /\ shape \in {"engine", "repository"}
    /\ \A m \in Merchants : log[m] \in Seq(IF shape = "engine" THEN EngineEvent
                                             ELSE RepositoryEvent)
    /\ IsTable(scores, Merchants, [score: Rational, at: Nat])
    /\ served \subseteq Answer /\ Cardinality(served) <= 1
    /\ logged \in 0..MaxEvents

TrustInit ==
    /\ shape \in {"engine", "repository"}
    /\ log \in [Merchants -> IF shape = "engine" THEN Histories ELSE {<<>>}]
    /\ scores = EmptyTable /\ served = NoAnswer /\ logged = 0

-----------------------------------------------------------------------------
(* TrustEngine *)

Count(history, type) == Cardinality({i \in DOMAIN history : history[i].type = type})

\* A review without a rating, or with 0, counts three stars; any other rating counts
\* as it is.
StarsOf(event) == IF event.rating = 0 THEN 3 ELSE event.rating

\* The stars of all reviews: as many as the positive ones have units, less the units
\* of the negative ones.
Units(history, sign) ==
    UNION {{i} \X (1..(sign * StarsOf(history[i]))) :
              i \in {j \in DOMAIN history : history[j].type = "review"}}
Stars(history) == Cardinality(Units(history, 1)) - Cardinality(Units(history, -1))

\* What computeScore counts in the events of a merchant.
Tally(history) ==
    [kyc      |-> Count(history, "kyc_attestation"),
     payments |-> Count(history, "payment"),
     disputes |-> Count(history, "dispute") + Count(history, "refund"),
     delivered |-> Count(history, "delivery"),
     reviews  |-> Count(history, "review"),
     stars    |-> Stars(history)]

\* Whole days since the first event.
TenureDays(history, t) == IF history = <<>> THEN 0 ELSE (t - history[1].at) \div 1440

ScoreOf(history, t) == Score(Tally(history), TenureDays(history, t))

Record(m, event) ==
    /\ logged < MaxEvents /\ logged' = logged + 1
    /\ log' = [log EXCEPT ![m] = Append(@, event)]
    /\ UNCHANGED <<shape, scores>>

\* recordEvent
RecordEvent(m, type, rating) ==
    /\ shape = "engine"
    /\ Record(m, [type |-> type, rating |-> rating, at |-> now])
    /\ served' = NoAnswer

\* What a computation stores and answers (rounded to a tenth).
Compute(m, age) ==
    LET score == ScoreOf(log[m], now)
    IN /\ scores' = Put(scores, m, [score |-> score, at |-> now])
       /\ served' = {[merchant |-> m, score |-> ToTenths(score), at |-> now, age |-> age]}

\* A slip of the test for a stale row: by the default, whatever the caller asks for.
Stale_Hourly(m, age) == now - scores[m].at > 60
Stale(m, age)        == now - scores[m].at > age

\* getScore: the cached row while it is fresh to the caller.
GetScore(m, age) ==
    IF m \notin DOMAIN scores \/ Stale(m, age) THEN Compute(m, age)
    ELSE /\ served' = {[merchant |-> m, score |-> scores[m].score, at |-> scores[m].at,
                       age |-> age]}
         /\ UNCHANGED scores

\* POST {merchantId}/compute
ComputeTrustScore(m) ==
    shape = "engine" /\ Compute(m, 0) /\ UNCHANGED <<shape, log, logged>>

\* GET {merchantId}, which takes any maxAgeMinutes; its card and the evidence package
\* of an escalation ask for 60 minutes, the default.
GetTrustScore(m, asked) ==
    /\ shape = "engine"
    /\ GetScore(m, IF asked = 0 THEN 60 ELSE asked)
    /\ UNCHANGED <<shape, log, logged>>

-----------------------------------------------------------------------------
(* TrustActions.updateScore: it records and scores at once, with no cache.   *)

TotalWeight(history) == FoldSeq(LAMBDA e, sum : sum + e.weight, 0, history)

UpdateScore(m, weight) ==
    /\ shape = "repository"
    /\ Record(m, [weight |-> weight, at |-> now])
    /\ served' = {[merchant |-> m, at |-> now, age |-> 0,
                   score |-> <<RepositoryScore(TotalWeight(log'[m]), 0), 1>>]}

\* calculateScore, some time after the last event: 0 when there is none.
ScoreRead(history) ==
    IF history = <<>> THEN 0
    ELSE RepositoryScore(TotalWeight(history), now - history[Len(history)].at)

\* TrustActions.getScore
ReadScore(m) ==
    /\ shape = "repository"
    /\ served' = {[merchant |-> m, at |-> now, age |-> 0, score |-> <<ScoreRead(log[m]), 1>>]}
    /\ UNCHANGED <<shape, log, scores, logged>>

TrustNext ==
    \E m \in Merchants : \/ \E type \in EngineEvents : RecordEvent(m, type, 0)
                          \/ \E r \in Ratings : RecordEvent(m, "review", r)
                          \/ ComputeTrustScore(m) \/ \E a \in Ages : GetTrustScore(m, a)
                          \/ ReadScore(m) \/ \E w \in Weights : UpdateScore(m, w)

-----------------------------------------------------------------------------
(* Properties *)

\* The score of the first n events of the merchant, computed at the time the
\* answer says, is the one answered: rounded if it was computed for the answer.
Explains(n, a) ==
    LET score == ScoreOf(SubSeq(log[a.merchant], 1, n), a.at)
    IN a.score \in {score, ToTenths(score)}

\* "Returns cached score if fresh, otherwise recomputes": a score that is served,
\* to a buyer or in an evidence package, takes every event into account that is older
\* than the age the caller takes.
ServedScoreIsCurrent ==
    shape = "engine" => \A a \in served :
        \E n \in 0..Len(log[a.merchant]) :
            /\ Explains(n, a)
            /\ \A i \in (n + 1)..Len(log[a.merchant]) :
                   log[a.merchant][i].at >= now - a.age

With(history, type) == Append(history, [type |-> type, rating |-> 0, at |-> now])

\* Every review so far counts one to five stars.
FairlyRated(m) ==
    \A i \in DOMAIN log[m] : log[m][i].type = "review" => StarsOf(log[m][i]) \in 1..5

\* Events count the right way: a dispute or refund never raises the score a merchant
\* would get now, and a payment, a delivery or an attestation never lowers it, although
\* a payment changes two drivers at once.  Scores stay between 0 and 100 while reviews
\* have one to five stars, which nothing sees to.
IncentivesRight ==
    shape = "engine" => \A m \in Merchants :
        LET fresh(history) == ScoreOf(history, now)
        IN /\ FairlyRated(m) =>
                  AtMost(<<0, 1>>, fresh(log[m])) /\ AtMost(fresh(log[m]), <<100, 1>>)
           /\ \A type \in {"dispute", "refund"} :
                  AtMost(fresh(With(log[m], type)), fresh(log[m]))
           /\ \A type \in {"payment", "delivery", "kyc_attestation"} :
                  AtMost(fresh(log[m]), fresh(With(log[m], type)))
=============================================================================
