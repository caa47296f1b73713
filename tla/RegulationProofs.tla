-------------------------- MODULE RegulationProofs --------------------------
(***************************************************************************)
(* What holds of the database a regulator looks at.  First of Migrations,  *)
(* after any number of starts, failures, crashes and deployments: its type *)
(* invariant, that a finished run is complete, that no script stumbles     *)
(* over what an earlier start left, and that the trust tables keep the     *)
(* columns they were created with.  That is why Regulation, of which the   *)
(* rest is, has a shape that no step changes: consents are honoured, and   *)
(* trust scores are explained by the events, as recent as the caller       *)
(* asks, and right in what they reward.                                    *)
(***************************************************************************)
EXTENDS Migrations, Regulation, FiniteSetTheorems, SequenceTheorems, WellFoundedInduction, TLAPS

-----------------------------------------------------------------------------
(* The migration runner                                                      *)

Dealt == applied \cup warned

\* Versions are dealt with in order: all up to one that is recorded, and all before
\* the one the runner turns to.
InOrder ==
    /\ \A v \in recorded, w \in Listed : w <= v => w \in Dealt
    /\ run.next > 0 => \A w \in Listed : w < run.next => w \in Dealt

\* The runner goes by a version that was recorded, and what is recorded since is
\* behind it.
CurrentIsRecorded ==
    /\ run.current \in recorded \cup {0}
    /\ run.next > 0 => \A w \in recorded : w <= run.current \/ w < run.next

IInv == TypeOK /\ InOrder /\ CurrentIsRecorded /\ RefusedForCause

-----------------------------------------------------------------------------
\* The greatest recorded version, of the three that record themselves.
LEMMA CurrentVersionIsGreatest ==
    ASSUME TypeOK
    PROVE  /\ CurrentVersion \in 0..12
           /\ CurrentVersion \in recorded \cup {0}
           /\ \A w \in recorded : w <= CurrentVersion
<1>1. recorded \subseteq {1, 2, 4}
  BY DEF TypeOK, RecordedIffApplied, Records
<1>2. CASE recorded = {}
  BY <1>2 DEF CurrentVersion
<1>3. CASE recorded # {}
  <2>1. \E x \in recorded : \A y \in recorded : x >= y
    <3>1. CASE 4 \in recorded
      BY <1>1, <3>1
    <3>2. CASE 4 \notin recorded /\ 2 \in recorded
      BY <1>1, <3>2
    <3>3. CASE recorded = {1}
      BY <3>3
    <3> QED BY <1>1, <1>3, <3>1, <3>2, <3>3
  <2>2. Max(recorded) \in recorded /\ \A y \in recorded : Max(recorded) >= y
    BY <2>1 DEF Max
  <2>3. CurrentVersion = Max(recorded)
    BY <1>3 DEF CurrentVersion
  <2>4. CurrentVersion \in recorded /\ CurrentVersion \in {1, 2, 4}
    BY <1>1, <2>2, <2>3
  <2>5. \A w \in recorded : w \in {1, 2, 4} /\ CurrentVersion >= w
    BY <1>1, <2>2, <2>3
  <2>6. \A w \in recorded : w <= CurrentVersion
    BY <2>4, <2>5
  <2> QED BY <2>4, <2>6
<1> QED BY <1>2, <1>3

\* An empty database satisfies the invariant.
LEMMA InitInvariant == ASSUME Init PROVE IInv
<1>1. TypeOK
  <2>1. files \subseteq Listed BY DEF Init
  <2>2. run \in [next: 0..13, current: 0..12] BY DEF Init, Idle
  <2>3. faults \in 0..MaxFaults BY MigrationsAssumption DEF Init
  <2>4. recorded = {v \in applied : Records(v)} BY DEF Init
  <2> QED BY <2>1, <2>2, <2>3, <2>4 DEF Init, TypeOK, RecordedIffApplied
<1>2. InOrder /\ CurrentIsRecorded
  BY DEF Init, Idle, InOrder, CurrentIsRecorded
<1> QED
  BY <1>1, <1>2 DEF Init, IInv, RefusedForCause

\* A script that the runner turns to and that has run to its end before is one that
\* the version it read would have made it skip.
LEMMA RefusalsCaused ==
    ASSUME IInv, NEW v \in Listed, Reached(v), v > run.current, Throws(v)
    PROVE  Caused(v)
<1>1. run.next = v /\ run.next > 0 /\ run.current \in 0..12
  BY DEF Reached, Listed, IInv, TypeOK
<1>2. v \notin recorded
  BY <1>1 DEF IInv, CurrentIsRecorded, Listed
<1>3. ~(v \in {1, 2, 4} /\ v \in applied)
  BY <1>2 DEF IInv, TypeOK, RecordedIffApplied, Records
<1> QED
  BY <1>3 DEF Throws, Caused, ColumnsScript

-----------------------------------------------------------------------------
(* One lemma per step of the runner                                          *)

\* A start reads the greatest version and turns to the first.
LEMMA InitializeStep == ASSUME IInv, Initialize PROVE IInv'
<1>1. /\ CurrentVersion \in 0..12
      /\ CurrentVersion \in recorded \cup {0}
      /\ \A w \in recorded : w <= CurrentVersion
  BY CurrentVersionIsGreatest DEF IInv
<1>2. run'.next = 1 /\ run'.current = CurrentVersion
      /\ run' = [next |-> 1, current |-> CurrentVersion]
  BY DEF Initialize
<1>3. UNCHANGED <<files, applied, recorded, wallet, trust, warned, refused, faults>>
      /\ instance' = TRUE
  BY DEF Initialize
<1>4. TypeOK'
  BY <1>1, <1>2, <1>3 DEF IInv, TypeOK, RecordedIffApplied
<1>5. InOrder'
  BY <1>2, <1>3 DEF IInv, InOrder, Dealt, Listed
<1>6. CurrentIsRecorded'
  BY <1>1, <1>2, <1>3 DEF IInv, CurrentIsRecorded
<1> QED
  BY <1>3, <1>4, <1>5, <1>6 DEF IInv, RefusedForCause

\* The runner advances over a version that is dealt with after the step, and writes
\* nothing down but that.
LEMMA AdvanceStep ==
    ASSUME IInv, NEW v \in Listed, Reached(v), Advance, v \in Dealt',
           applied \subseteq applied', warned \subseteq warned',
           recorded \subseteq recorded', recorded' \subseteq recorded \cup {v}
    PROVE  /\ run' \in [next: 0..13, current: 0..12]
           /\ InOrder' /\ CurrentIsRecorded'
<1>1. run.next = v /\ v \in 1..12 /\ run \in [next: 0..13, current: 0..12]
  BY DEF Reached, Listed, IInv, TypeOK
<1>2. run' \in [next: 0..13, current: 0..12] /\ run'.next = v + 1
      /\ run'.current = run.current
  BY <1>1 DEF Advance
<1>3. \A w \in Listed : w < v => w \in Dealt
  BY <1>1 DEF IInv, InOrder
<1>4. \A w \in Listed : w <= v => w \in Dealt'
  BY <1>1, <1>3 DEF Dealt, Listed
<1>5. InOrder'
  BY <1>1, <1>2, <1>4 DEF IInv, InOrder, Dealt, Listed
<1>6. recorded \subseteq Nat
  BY DEF IInv, TypeOK, Listed
<1>7. CurrentIsRecorded'
  BY <1>1, <1>2, <1>6 DEF IInv, CurrentIsRecorded
<1> QED BY <1>2, <1>5, <1>7

\* A version that is not greater than the current one is dealt with.
LEMMA SkipStep == ASSUME IInv, NEW v \in Listed, Skip(v) PROVE IInv'
<1>1. UNCHANGED <<files, applied, recorded, wallet, trust, instance, warned, refused, faults>>
  BY DEF Skip
<1>2. v \in Dealt
  <2>1. v <= run.current /\ v > 0
    BY DEF Skip, Listed
  <2>2. run.current \in recorded
    <3>1. v \in 1..12 /\ run.current \in 0..12
      BY DEF IInv, TypeOK, Listed
    <3>2. run.current # 0
      BY <2>1, <3>1
    <3> QED BY <3>2 DEF IInv, CurrentIsRecorded
  <2> QED BY <2>1, <2>2 DEF IInv, InOrder
<1>3. /\ run' \in [next: 0..13, current: 0..12]
      /\ InOrder' /\ CurrentIsRecorded'
  <2>1. v \in Dealt' BY <1>1, <1>2 DEF Dealt
  <2>2. Reached(v) /\ Advance BY DEF Skip
  <2> QED BY <1>1, <2>1, <2>2, AdvanceStep
<1> QED
  BY <1>1, <1>3 DEF IInv, TypeOK, RecordedIffApplied, RefusedForCause

\* A missing file is warned about.
LEMMA MissingStep == ASSUME IInv, NEW v \in Listed, Missing(v) PROVE IInv'
<1>1. UNCHANGED <<files, applied, recorded, wallet, trust, instance, refused, faults>>
      /\ warned' = warned \cup {v}
  BY DEF Missing
<1>2. /\ run' \in [next: 0..13, current: 0..12]
      /\ InOrder' /\ CurrentIsRecorded'
  <2>1. v \in Dealt' BY <1>1 DEF Dealt
  <2>2. Reached(v) /\ Advance BY DEF Missing
  <2> QED BY <1>1, <2>1, <2>2, AdvanceStep
<1> QED
  BY <1>1, <1>2 DEF IInv, TypeOK, RecordedIffApplied, RefusedForCause

\* A script that is run to its end is applied, and recorded if it records itself.
LEMMA ApplyStep == ASSUME IInv, NEW v \in Listed, Apply(v) PROVE IInv'
<1>1. UNCHANGED <<files, instance, warned, refused, faults>> /\ Execute(v)
      /\ Reached(v) /\ Advance
  BY DEF Apply
<1>2. applied' = applied \cup {v}
      /\ recorded' = (IF Records(v) THEN recorded \cup {v} ELSE recorded)
  BY <1>1 DEF Execute
<1>3. /\ run' \in [next: 0..13, current: 0..12]
      /\ InOrder' /\ CurrentIsRecorded'
  <2>1. v \in Dealt' BY <1>2 DEF Dealt
  <2> QED BY <1>1, <1>2, <2>1, AdvanceStep
<1>4. RecordedIffApplied'
  BY <1>2 DEF IInv, TypeOK, RecordedIffApplied, Records
<1>5. wallet' \in {"none", "script", "repository"} /\ trust' \in {"none", "script", "operator"}
  BY <1>1 DEF Execute, IInv, TypeOK
<1> QED
  BY <1>1, <1>2, <1>3, <1>4, <1>5 DEF IInv, TypeOK, RefusedForCause

\* A script that throws leaves nothing behind and ends the run; if no fault made it
\* throw, there is a cause.
LEMMA FailStep ==
    ASSUME IInv, NEW v \in Listed, NEW fault \in BOOLEAN, Fail(v, fault)
    PROVE  IInv'
<1>1. UNCHANGED <<files, recorded, wallet, trust, instance, warned>> /\ run' = Idle
  BY DEF Fail, AfterFailure
<1>2. applied' = applied
  BY DEF Fail, LeftBehind
<1>3. faults' \in 0..MaxFaults
  BY MigrationsAssumption DEF Fail, IInv, TypeOK
<1>4. refused' = {}
  <2>1. CASE fault
    BY <2>1 DEF Fail, IInv, RefusedForCause
  <2>2. CASE ~fault
    BY <2>2, RefusalsCaused DEF Fail, IInv, RefusedForCause
  <2> QED BY <2>1, <2>2
<1>5. TypeOK'
  BY <1>1, <1>2, <1>3, <1>4 DEF IInv, TypeOK, RecordedIffApplied, Idle
<1>6. InOrder' /\ CurrentIsRecorded'
  BY <1>1, <1>2 DEF IInv, InOrder, CurrentIsRecorded, Dealt, Idle
<1> QED
  BY <1>4, <1>5, <1>6 DEF IInv, RefusedForCause

\* Whoever else writes the schema, and stops and deployments, do not touch the
\* versions.
LEMMA OtherSteps ==
    ASSUME IInv, Stop \/ UseWallet \/ RunConsentAndTrust \/ Deploy
    PROVE  IInv'
<1>1. UNCHANGED <<applied, recorded, warned, refused, faults>> /\ (run' = run \/ run' = Idle)
  BY DEF Stop, UseWallet, RunConsentAndTrust, Deploy
<1>2. TypeOK'
  <2>1. files' \subseteq Listed
    BY DEF IInv, TypeOK, Stop, UseWallet, RunConsentAndTrust, Deploy
  <2>2. /\ wallet' \in {"none", "script", "repository"}
        /\ trust' \in {"none", "script", "operator"}
        /\ instance' \in BOOLEAN
    BY DEF IInv, TypeOK, Stop, UseWallet, RunConsentAndTrust, Deploy
  <2>3. run' \in [next: 0..13, current: 0..12]
    BY <1>1 DEF IInv, TypeOK, Idle
  <2> QED BY <1>1, <2>1, <2>2, <2>3 DEF IInv, TypeOK, RecordedIffApplied
<1>3. InOrder' /\ CurrentIsRecorded'
  BY <1>1 DEF IInv, InOrder, CurrentIsRecorded, Dealt, Idle
<1> QED
  BY <1>1, <1>2, <1>3 DEF IInv, RefusedForCause

\* IInv is an invariant of the runner.
LEMMA Invariance == Spec => []IInv
<1>1. Init => IInv
  BY InitInvariant
<1>2. IInv /\ [Next]_vars => IInv'
  <2> SUFFICES ASSUME IInv, [Next]_vars PROVE IInv'
    OBVIOUS
  <2>1. CASE UNCHANGED vars
    BY <2>1 DEF vars, IInv, TypeOK, RecordedIffApplied, InOrder, CurrentIsRecorded,
                Dealt, RefusedForCause
  <2>2. CASE RunnerStep
    BY <2>2, SkipStep, MissingStep, ApplyStep, FailStep DEF RunnerStep
  <2>3. CASE Initialize
    BY <2>3, InitializeStep
  <2>4. CASE Stop \/ UseWallet \/ RunConsentAndTrust \/ Deploy
    BY <2>4, OtherSteps
  <2> QED BY <2>1, <2>2, <2>3, <2>4 DEF Next
<1> QED BY <1>1, <1>2, PTL DEF Spec

-----------------------------------------------------------------------------
\* The tables and the runner of DatabaseManager have their types, and
\* schema_migrations holds exactly the applied versions that record themselves.
THEOREM MigrationsTypeCorrect == Spec => []TypeOK
<1>1. IInv => TypeOK BY DEF IInv
<1> QED BY <1>1, Invariance, PTL

\* 'All migrations applied successfully' is true of the listed versions up to the
\* ones a warning was given for, after any history of starts and failures.
THEOREM FinishedIsComplete == Spec => []CompleteWhenFinished
<1>1. IInv => CompleteWhenFinished
  BY DEF IInv, TypeOK, InOrder, Dealt, CompleteWhenFinished, Finished, Listed
<1> QED BY <1>1, Invariance, PTL

\* No script is refused but for a cause that the runner did not leave itself.
THEOREM RefusalsHaveCauses == Spec => []RefusedForCause
<1>1. IInv => RefusedForCause BY DEF IInv
<1> QED BY <1>1, Invariance, PTL

\* 007 has run exactly when it created the trust tables: where the operator's 015 was
\* first, it is refused, for all its CREATE TABLE IF NOT EXISTS.
ScriptCreatedTables == trust = "script" <=> TrustScript \in applied

\* The trust tables are 007's in every database on which it has run, and only there.
THEOREM TrustTablesAreTheScripts == Spec => []ScriptCreatedTables
<1>1. Init => ScriptCreatedTables
  BY DEF Init, ScriptCreatedTables
<1>2. IInv /\ ScriptCreatedTables /\ [Next]_vars => ScriptCreatedTables'
  <2> SUFFICES ASSUME trust \in {"none", "script", "operator"}, ScriptCreatedTables, [Next]_vars
               PROVE  ScriptCreatedTables'
    BY DEF IInv, TypeOK
  <2>1. ASSUME NEW v \in Listed, Apply(v) PROVE ScriptCreatedTables'
    BY <2>1 DEF Apply, Execute, Throws, TrustScript, ColumnsScript, ScriptCreatedTables
  <2>2. ASSUME NEW v \in Listed, NEW f \in BOOLEAN, Skip(v) \/ Missing(v) \/ Fail(v, f)
        PROVE  ScriptCreatedTables'
    BY <2>2 DEF Skip, Missing, Fail, LeftBehind, ScriptCreatedTables
  <2>3. CASE Initialize \/ Stop \/ UseWallet \/ Deploy \/ UNCHANGED vars
    BY <2>3 DEF Initialize, Stop, UseWallet, Deploy, vars, ScriptCreatedTables
  <2>4. CASE RunConsentAndTrust
    BY <2>4 DEF RunConsentAndTrust, ScriptCreatedTables
  <2> QED BY <2>1, <2>2, <2>3, <2>4 DEF Next, RunnerStep
<1> QED BY <1>1, <1>2, Invariance, PTL DEF Spec

\* The trust tables keep the columns they were created with, whichever of 007 and 015
\* comes later.
TablesStay == trust # "none" => trust' = trust

\* No start, crash or script of the operator changes the columns of the trust tables.
LEMMA ShapeIsFixed == Spec => [][TablesStay]_vars
<1>1. [Next]_vars => [TablesStay]_vars
  BY DEF Next, RunnerStep, Initialize, Skip, Missing, Apply, Execute, Fail, Stop, UseWallet,
         RunConsentAndTrust, Deploy, TablesStay, vars
<1> QED BY <1>1, PTL DEF Spec


-----------------------------------------------------------------------------
(* Arithmetic                                                                *)

\* Factors that are not negative keep an order, and a product of them is none.
LEMMA Times0 ==
    ASSUME NEW a \in Int, NEW b \in Int, a >= 0, b >= 0
    PROVE  a * b \in Int /\ a * b >= 0
OBVIOUS

LEMMA TimesMonotone ==
    ASSUME NEW a \in Int, NEW b \in Int, NEW c \in Int, a <= b, c >= 0
    PROVE  /\ c * a \in Int /\ c * b \in Int /\ c * a <= c * b
           /\ a * c \in Int /\ b * c \in Int /\ a * c <= b * c
OBVIOUS

\* The score with transactions t, reviews r, and the weighted drivers k, d and s.
Num(t, r, k, d, s) == t * r * k + 40 * d * r + 20 * t * s
Den(t, r)          == 200 * t * r

LEMMA ScoreBounds ==
    ASSUME NEW t \in Nat \ {0}, NEW r \in Nat \ {0}, NEW k \in Nat, k <= 14000,
           NEW d \in Nat, d <= 100 * t, NEW s \in Nat, s <= 100 * r
    PROVE  /\ Num(t, r, k, d, s) \in Nat /\ Den(t, r) \in Nat \ {0}
           /\ Num(t, r, k, d, s) <= 100 * Den(t, r)
<1>1. t * r \in Nat \ {0}
  OBVIOUS
<1>2. t * r * k \in Nat /\ t * r * k <= t * r * 14000
  BY <1>1, TimesMonotone
<1>3. d * r \in Nat /\ d * r <= (100 * t) * r
  BY TimesMonotone
<1>4. t * s \in Nat /\ t * s <= t * (100 * r)
  BY TimesMonotone
<1>5. (100 * t) * r = 100 * (t * r) /\ t * (100 * r) = 100 * (t * r)
      /\ 200 * t * r = 200 * (t * r) /\ 40 * d * r = 40 * (d * r) /\ 20 * t * s = 20 * (t * s)
  OBVIOUS
<1> DEFINE p == t * r
           q == t * r * k
           x == d * r
           y == t * s
<1>6. /\ p \in Nat \ {0} /\ q \in Nat /\ x \in Nat /\ y \in Nat
      /\ q <= p * 14000 /\ x <= 100 * p /\ y <= 100 * p
  BY <1>1, <1>2, <1>3, <1>4, <1>5
<1>7. Num(t, r, k, d, s) = q + 40 * x + 20 * y /\ Den(t, r) = 200 * p
  BY <1>5 DEF Num, Den
<1> HIDE DEF p, q, x, y
<1> QED BY <1>6, <1>7

\* The score grows with the weighted drivers and with the quota of settled payments.
LEMMA ScoreGrows ==
    ASSUME NEW r \in Nat \ {0}, NEW s \in Int,
           NEW t \in Nat \ {0}, NEW k \in Nat, NEW d \in Nat,
           NEW u \in Nat \ {0}, NEW l \in Nat, NEW e \in Nat,
           k <= l, d * u <= e * t
    PROVE  Num(t, r, k, d, s) * Den(u, r) <= Num(u, r, l, e, s) * Den(t, r)
<1> DEFINE p == 200 * r * r * t * u
           q == 8000 * r * r
           w == 4000 * r * t * u * s
<1>1. Num(t, r, k, d, s) * Den(u, r) = p * k + q * (d * u) + w
  BY DEF Num, Den
<1>2. Num(u, r, l, e, s) * Den(t, r) = p * l + q * (e * t) + w
  BY DEF Num, Den
<1>3. p \in Nat /\ q \in Nat /\ w \in Int
  OBVIOUS
<1>4. d * u \in Nat /\ e * t \in Nat
  OBVIOUS
<1> HIDE DEF p, q, w
<1>5. p * k \in Int /\ p * l \in Int /\ p * k <= p * l
  BY <1>3, TimesMonotone
<1>6. q * (d * u) \in Int /\ q * (e * t) \in Int /\ q * (d * u) <= q * (e * t)
  BY <1>3, <1>4, TimesMonotone
<1> QED BY <1>1, <1>2, <1>3, <1>5, <1>6

-----------------------------------------------------------------------------
(* The engine's score of a tally                                             *)

\* What the events of a merchant tally up to, and if each review has no more than five
\* stars and no less than none.
Tallies == [kyc: Nat, payments: Nat, disputes: Nat, delivered: Nat, reviews: Nat, stars: Int]
Tallied(t) == t \in Tallies
Rated(t)   == 0 <= t.stars /\ t.stars <= 5 * t.reviews

\* The drivers but for disputes and reviews, weighted.
Weighed(t, days) ==
    60 * Scores!KycDriver(t) + 50 * Scores!PaymentDriver(t) + 20 * Scores!DeliveryDriver(t)
    + 5 * Scores!TwiceTenureDriver(days)

\* What the weights make of four drivers, the last of them twice itself.
Driver(n) == n \in Nat /\ n <= 100
LEMMA WeightedSum ==
    ASSUME NEW a, NEW b, NEW c, Driver(a), Driver(b), Driver(c), NEW d \in Nat, d <= 200,
           NEW a2, NEW b2, NEW c2, Driver(a2), Driver(b2), Driver(c2),
           a <= a2, b <= b2, c <= c2
    PROVE  /\ 60 * a + 50 * b + 20 * c + 5 * d \in Nat
           /\ 60 * a + 50 * b + 20 * c + 5 * d <= 14000
           /\ 60 * a + 50 * b + 20 * c + 5 * d <= 60 * a2 + 50 * b2 + 20 * c2 + 5 * d
BY DEF Driver

\* Drivers are numbers between their limits.
LEMMA DriverFacts ==
    ASSUME NEW t, Tallied(t), NEW days \in Nat
    PROVE  /\ Weighed(t, days) \in Nat /\ Weighed(t, days) <= 14000
           /\ Scores!Transactions(t) \in Nat \ {0}
           /\ Scores!DisputeDriver(t)[2] = Scores!Transactions(t)
           /\ Scores!DisputeDriver(t)[1] \in Nat
           /\ Scores!DisputeDriver(t)[1] <= 100 * Scores!Transactions(t)
           /\ Scores!ReviewDriver(t)[1] \in Int /\ Scores!ReviewDriver(t)[2] \in Nat \ {0}
           /\ Rated(t) => /\ 0 <= Scores!ReviewDriver(t)[1]
                          /\ Scores!ReviewDriver(t)[1] <= 100 * Scores!ReviewDriver(t)[2]
<1>1. /\ t.kyc \in Nat /\ t.payments \in Nat /\ t.disputes \in Nat /\ t.delivered \in Nat
      /\ t.reviews \in Nat /\ t.stars \in Int
  BY DEF Tallied, Tallies
<1>2. /\ Driver(Scores!KycDriver(t)) /\ Driver(Scores!PaymentDriver(t))
      /\ Driver(Scores!DeliveryDriver(t))
      /\ Scores!TwiceTenureDriver(days) \in Nat /\ Scores!TwiceTenureDriver(days) <= 200
  BY <1>1 DEF Driver, Scores!KycDriver, Scores!PaymentDriver, Scores!DeliveryDriver,
              Scores!TwiceTenureDriver, Scores!Least
<1>3. Weighed(t, days) \in Nat /\ Weighed(t, days) <= 14000
  BY <1>2 DEF Weighed, Driver
<1>4. Scores!Transactions(t) \in Nat \ {0}
  BY <1>1 DEF Scores!Transactions, Scores!Greatest
<1>5. /\ Scores!DisputeDriver(t)[2] = Scores!Transactions(t)
      /\ Scores!DisputeDriver(t)[1] \in Nat
      /\ Scores!DisputeDriver(t)[1] <= 100 * Scores!Transactions(t)
  BY <1>1, <1>4 DEF Scores!DisputeDriver, Scores!Greatest
<1>6. /\ Scores!ReviewDriver(t)[1] \in Int /\ Scores!ReviewDriver(t)[2] \in Nat \ {0}
      /\ Rated(t) => /\ 0 <= Scores!ReviewDriver(t)[1]
                     /\ Scores!ReviewDriver(t)[1] <= 100 * Scores!ReviewDriver(t)[2]
  BY <1>1 DEF Scores!ReviewDriver, Rated
<1> QED BY <1>3, <1>4, <1>5, <1>6

\* The score of a tally as the quotient above.
LEMMA ScoreIsQuotient ==
    ASSUME NEW t, Tallied(t), NEW days \in Nat
    PROVE  Scores!Score(t, days) =
              <<Num(Scores!Transactions(t), Scores!ReviewDriver(t)[2], Weighed(t, days),
                    Scores!DisputeDriver(t)[1], Scores!ReviewDriver(t)[1]),
                Den(Scores!Transactions(t), Scores!ReviewDriver(t)[2])>>
BY DriverFacts DEF Scores!Score, Weighed, Num, Den

\* A score is a fraction, and with fair reviews between 0 and 100.
LEMMA ScoreInBounds ==
    ASSUME NEW t, Tallied(t), NEW days \in Nat
    PROVE  /\ Scores!Score(t, days) \in Scores!Rational
           /\ Rated(t) => /\ Scores!AtMost(<<0, 1>>, Scores!Score(t, days))
                          /\ Scores!AtMost(Scores!Score(t, days), <<100, 1>>)
<1> DEFINE r == Scores!ReviewDriver(t)[2]
           s == Scores!ReviewDriver(t)[1]
           u == Scores!Transactions(t)
           d == Scores!DisputeDriver(t)[1]
           k == Weighed(t, days)
           n == Num(u, r, k, d, s)
           m == Den(u, r)
<1>1. /\ r \in Nat \ {0} /\ s \in Int /\ u \in Nat \ {0}
      /\ d \in Nat /\ d <= 100 * u /\ k \in Nat /\ k <= 14000
      /\ Rated(t) => 0 <= s /\ s <= 100 * r
  BY DriverFacts
<1>2. Scores!Score(t, days) = <<n, m>>
  BY ScoreIsQuotient
<1> HIDE DEF r, s, u, d, k
<1>3. n \in Int /\ m \in Nat \ {0}
  BY <1>1 DEF Num, Den
<1>4. ASSUME Rated(t) PROVE n \in Nat /\ n <= 100 * m
  <2>1. s \in Nat /\ s <= 100 * r
    BY <1>1, <1>4
  <2> QED BY <1>1, <2>1, ScoreBounds
<1> HIDE DEF n, m
<1> QED BY <1>2, <1>3, <1>4 DEF Scores!Rational, Scores!AtMost

\* Of two tallies with the same reviews, the one with the better drivers has at least
\* the score of the other.
LEMMA ScoreOrder ==
    ASSUME NEW t, Tallied(t), NEW u, Tallied(u), NEW days \in Nat,
           Scores!ReviewDriver(t) = Scores!ReviewDriver(u),
           Weighed(t, days) <= Weighed(u, days),
           Scores!DisputeDriver(t)[1] * Scores!Transactions(u)
              <= Scores!DisputeDriver(u)[1] * Scores!Transactions(t)
    PROVE  Scores!AtMost(Scores!Score(t, days), Scores!Score(u, days))
<1> DEFINE r == Scores!ReviewDriver(t)[2]
           s == Scores!ReviewDriver(t)[1]
           tt == Scores!Transactions(t)
           tu == Scores!Transactions(u)
           dt == Scores!DisputeDriver(t)[1]
           du == Scores!DisputeDriver(u)[1]
           kt == Weighed(t, days)
           ku == Weighed(u, days)
<1>1. /\ r \in Nat \ {0} /\ s \in Int /\ tt \in Nat \ {0} /\ tu \in Nat \ {0}
      /\ dt \in Nat /\ du \in Nat /\ kt \in Nat /\ ku \in Nat
  <2>1. /\ Weighed(t, days) \in Nat /\ Scores!Transactions(t) \in Nat \ {0}
        /\ Scores!DisputeDriver(t)[1] \in Nat
        /\ Scores!ReviewDriver(t)[1] \in Int /\ Scores!ReviewDriver(t)[2] \in Nat \ {0}
    BY DriverFacts
  <2>2. /\ Weighed(u, days) \in Nat /\ Scores!Transactions(u) \in Nat \ {0}
        /\ Scores!DisputeDriver(u)[1] \in Nat
    BY DriverFacts
  <2> QED BY <2>1, <2>2
<1>2. /\ Scores!Score(t, days) = <<Num(tt, r, kt, dt, s), Den(tt, r)>>
      /\ Scores!Score(u, days) = <<Num(tu, r, ku, du, s), Den(tu, r)>>
  BY ScoreIsQuotient
<1>3. kt <= ku /\ dt * tu <= du * tt
  OBVIOUS
<1> HIDE DEF r, s, tt, tu, dt, du, kt, ku
<1>4. Num(tt, r, kt, dt, s) * Den(tu, r) <= Num(tu, r, ku, du, s) * Den(tt, r)
  BY <1>1, <1>3, ScoreGrows
<1>5. Den(tt, r) * Num(tu, r, ku, du, s) = Num(tu, r, ku, du, s) * Den(tt, r)
  BY <1>1 DEF Num, Den
<1> QED BY <1>2, <1>4, <1>5 DEF Scores!AtMost

\* A tally with one more event of a kind.
OneMore(t, u, field) == u = [t EXCEPT ![field] = @ + 1]

\* One more payment, delivery or attestation does not lower a score,
LEMMA ScoreRises ==
    ASSUME NEW t, Tallied(t), NEW u, NEW field \in {"kyc", "payments", "delivered"},
           OneMore(t, u, field), NEW days \in Nat
    PROVE  Scores!AtMost(Scores!Score(t, days), Scores!Score(u, days))
<1>1. Tallied(u)
  BY DEF Tallied, Tallies, OneMore
<1>2. /\ t.kyc \in Nat /\ t.payments \in Nat /\ t.disputes \in Nat /\ t.delivered \in Nat
      /\ u.reviews = t.reviews /\ u.stars = t.stars /\ u.disputes = t.disputes
      /\ u.kyc \in {t.kyc, t.kyc + 1} /\ u.payments \in {t.payments, t.payments + 1}
      /\ u.delivered \in {t.delivered, t.delivered + 1}
  BY DEF Tallied, Tallies, OneMore
<1>3. Scores!ReviewDriver(t) = Scores!ReviewDriver(u)
  BY <1>2 DEF Scores!ReviewDriver
<1>4. Weighed(t, days) <= Weighed(u, days)
  <2>1. /\ Driver(Scores!KycDriver(t)) /\ Driver(Scores!KycDriver(u))
        /\ Scores!KycDriver(t) <= Scores!KycDriver(u)
    BY <1>2 DEF Driver, Scores!KycDriver
  <2>2. /\ Driver(Scores!PaymentDriver(t)) /\ Driver(Scores!PaymentDriver(u))
        /\ Scores!PaymentDriver(t) <= Scores!PaymentDriver(u)
    BY <1>2 DEF Driver, Scores!PaymentDriver, Scores!Least
  <2>3. /\ Driver(Scores!DeliveryDriver(t)) /\ Driver(Scores!DeliveryDriver(u))
        /\ Scores!DeliveryDriver(t) <= Scores!DeliveryDriver(u)
    BY <1>2 DEF Driver, Scores!DeliveryDriver, Scores!Least
  <2>4. Scores!TwiceTenureDriver(days) \in Nat /\ Scores!TwiceTenureDriver(days) <= 200
    BY DEF Scores!TwiceTenureDriver, Scores!Least
  <2> QED BY <2>1, <2>2, <2>3, <2>4, WeightedSum DEF Weighed
<1>5. Scores!DisputeDriver(t)[1] * Scores!Transactions(u)
         <= Scores!DisputeDriver(u)[1] * Scores!Transactions(t)
  <2> DEFINE a == Scores!Transactions(t)
             b == Scores!Transactions(u)
             x == 500 * t.disputes
  <2>1. a \in Nat \ {0} /\ b \in Nat \ {0} /\ a <= b /\ x \in Nat
    BY <1>2 DEF Scores!Transactions, Scores!Greatest
  <2>2. /\ Scores!DisputeDriver(t)[1] = (IF 0 >= 100 * a - x THEN 0 ELSE 100 * a - x)
        /\ Scores!DisputeDriver(u)[1] = (IF 0 >= 100 * b - x THEN 0 ELSE 100 * b - x)
    BY <1>2 DEF Scores!DisputeDriver, Scores!Greatest
  <2> HIDE DEF a, b, x
  <2>3. CASE 100 * a - x <= 0
    <3>1. Scores!DisputeDriver(t)[1] = 0 /\ Scores!DisputeDriver(u)[1] \in Nat
      BY <2>1, <2>2, <2>3
    <3>2. Scores!DisputeDriver(u)[1] * a \in Int /\ Scores!DisputeDriver(u)[1] * a >= 0
      BY <2>1, <3>1, Times0
    <3> QED BY <2>1, <3>1, <3>2 DEF a, b
  <2>4. CASE 100 * a - x > 0
    <3>1. /\ Scores!DisputeDriver(t)[1] = 100 * a - x
          /\ Scores!DisputeDriver(u)[1] = 100 * b - x
      BY <2>1, <2>2, <2>4
    <3>2. x * a \in Int /\ x * b \in Int /\ x * a <= x * b
      BY <2>1, TimesMonotone
    <3>3. /\ (100 * a - x) * b = 100 * (a * b) - x * b
          /\ (100 * b - x) * a = 100 * (a * b) - x * a
          /\ a * b \in Int
      BY <2>1
    <3>4. (100 * a - x) * b <= (100 * b - x) * a
      BY <3>2, <3>3
    <3> QED BY <3>1, <3>4 DEF a, b
  <2> QED BY <2>1, <2>3, <2>4
<1> QED BY <1>1, <1>3, <1>4, <1>5, ScoreOrder

\* and one more dispute does not raise it.
LEMMA ScoreFalls ==
    ASSUME NEW t, Tallied(t), NEW u, OneMore(t, u, "disputes"), NEW days \in Nat
    PROVE  Scores!AtMost(Scores!Score(u, days), Scores!Score(t, days))
<1>1. Tallied(u)
  BY DEF Tallied, Tallies, OneMore
<1>2. /\ t.disputes \in Nat /\ u.disputes = t.disputes + 1
      /\ u.kyc = t.kyc /\ u.payments = t.payments /\ u.delivered = t.delivered
      /\ u.reviews = t.reviews /\ u.stars = t.stars
  BY DEF Tallied, Tallies, OneMore
<1>3. /\ Scores!ReviewDriver(u) = Scores!ReviewDriver(t)
      /\ Weighed(u, days) = Weighed(t, days) /\ Scores!Transactions(u) = Scores!Transactions(t)
  BY <1>2 DEF Scores!ReviewDriver, Weighed, Scores!KycDriver, Scores!PaymentDriver,
              Scores!DeliveryDriver, Scores!Transactions
<1>4. /\ Scores!Transactions(t) \in Nat \ {0} /\ Weighed(t, days) \in Nat
      /\ Scores!DisputeDriver(t)[1] \in Nat
  BY DriverFacts
<1>5. Scores!DisputeDriver(u)[1] \in Nat
  BY <1>1, DriverFacts
<1>6. Scores!DisputeDriver(u)[1] <= Scores!DisputeDriver(t)[1]
  BY <1>2, <1>3, <1>4, <1>5 DEF Scores!DisputeDriver, Scores!Greatest
<1>7. Scores!DisputeDriver(u)[1] * Scores!Transactions(t)
         <= Scores!DisputeDriver(t)[1] * Scores!Transactions(t)
  BY <1>4, <1>5, <1>6, TimesMonotone
<1>8. Weighed(u, days) <= Weighed(t, days)
  BY <1>3, <1>4
<1> QED BY <1>1, <1>3, <1>7, <1>8, ScoreOrder

-----------------------------------------------------------------------------
(* Tallies                                                                   *)

EngineLog == Seq(Scores!EngineEvent)

\* The indices of the events of a type.
OfType(h, type) == {i \in DOMAIN h : h[i].type = type}

\* The cardinality of an instance is the cardinality.
LEMMA SameCardinality == \A S : Scores!Cardinality(S) = Cardinality(S) /\ Consents!Cardinality(S) = Cardinality(S)
BY DEF Scores!Cardinality, Consents!Cardinality, Cardinality

LEMMA CountsAreNumbers ==
    ASSUME NEW h \in EngineLog
    PROVE  \A type : /\ IsFiniteSet(OfType(h, type))
                     /\ Scores!Count(h, type) = Cardinality(OfType(h, type))
                     /\ Scores!Count(h, type) \in Nat
<1>1. DOMAIN h = 1..Len(h) /\ Len(h) \in Nat
  BY DEF EngineLog
<1>2. IsFiniteSet(DOMAIN h)
  BY <1>1, FS_Interval
<1>3. \A type : IsFiniteSet(OfType(h, type)) /\ Cardinality(OfType(h, type)) \in Nat
  <2> TAKE type
  <2>1. OfType(h, type) \in SUBSET DOMAIN h
    BY DEF OfType
  <2> QED BY <1>2, <2>1, FS_Subset, FS_CardinalityType
<1>4. \A type : Scores!Count(h, type) = Cardinality(OfType(h, type))
  BY SameCardinality DEF Scores!Count, OfType
<1> QED BY <1>3, <1>4

\* One more event adds itself to the events of its type.
LEMMA AppendCounts ==
    ASSUME NEW h \in EngineLog, NEW e \in Scores!EngineEvent
    PROVE  /\ Append(h, e) \in EngineLog
           /\ \A type : Scores!Count(Append(h, e), type) =
                           Scores!Count(h, type) + (IF e.type = type THEN 1 ELSE 0)
<1> DEFINE k == Append(h, e)
           last == Len(h) + 1
<1>1. /\ DOMAIN h = 1..Len(h) /\ Len(h) \in Nat /\ k \in EngineLog
      /\ DOMAIN k = DOMAIN h \cup {last} /\ last \notin DOMAIN h
      /\ k[last] = e /\ \A i \in DOMAIN h : k[i] = h[i]
  BY AppendProperties DEF EngineLog
<1> HIDE DEF k, last
<1>2. \A type : Scores!Count(k, type) = Scores!Count(h, type) + (IF e.type = type THEN 1 ELSE 0)
  <2> TAKE type
  <2>1. OfType(k, type) = IF e.type = type THEN OfType(h, type) \cup {last} ELSE OfType(h, type)
    BY <1>1 DEF OfType
  <2>2. IsFiniteSet(OfType(h, type)) /\ last \notin OfType(h, type)
        /\ Scores!Count(k, type) = Cardinality(OfType(k, type))
        /\ Scores!Count(h, type) = Cardinality(OfType(h, type)) /\ Scores!Count(h, type) \in Nat
    BY <1>1, CountsAreNumbers DEF OfType
  <2>3. Cardinality(OfType(h, type) \cup {last}) = Cardinality(OfType(h, type)) + 1
    BY <2>2, FS_AddElement
  <2> QED BY <2>1, <2>2, <2>3
<1> QED BY <1>1, <1>2 DEF k

\* A review carries a whole number, and so do its stars.
LEMMA StarsAreNumbers ==
    ASSUME NEW h \in EngineLog, NEW i \in OfType(h, "review")
    PROVE  i \in DOMAIN h /\ Scores!StarsOf(h[i]) \in Int
<1>1. h[i] \in Scores!EngineEvent /\ i \in DOMAIN h
  BY DEF EngineLog, OfType
<1>2. \A e \in Scores!EngineEvent : e.rating \in Int
  BY RegulationAssumption DEF Scores!TrustAssumption, Scores!EngineEvent
<1> QED BY <1>1, <1>2 DEF Scores!StarsOf

\* Finitely many reviews have finitely many units.
LEMMA UnitsAreFinite ==
    ASSUME NEW h \in EngineLog, NEW sign \in Int
    PROVE  /\ IsFiniteSet(Scores!Units(h, sign))
           /\ Scores!Cardinality(Scores!Units(h, sign)) = Cardinality(Scores!Units(h, sign))
           /\ Cardinality(Scores!Units(h, sign)) \in Nat
<1> DEFINE D == OfType(h, "review")
           g == [i \in D |-> {i} \X (1..(sign * Scores!StarsOf(h[i])))]
           T == {{i} \X (1..(sign * Scores!StarsOf(h[i]))) : i \in D}
<1>1. g \in Surjection(D, T)
  BY DEF Surjection
<1>2. IsFiniteSet(T)
  <2>1. IsFiniteSet(D)
    BY CountsAreNumbers
  <2> HIDE DEF D, g, T
  <2> QED BY <1>1, <2>1, FS_Surjection
<1>3. ASSUME NEW i \in D PROVE IsFiniteSet({i} \X (1..(sign * Scores!StarsOf(h[i]))))
  <2> DEFINE q == sign * Scores!StarsOf(h[i])
             A == {i}
             B == 1..q
  <2>1. q \in Int
    BY <1>3, StarsAreNumbers
  <2> HIDE DEF q
  <2>2. IsFiniteSet(A)
    BY FS_Singleton
  <2>3. IsFiniteSet(B)
    BY <2>1, FS_Interval
  <2> HIDE DEF A, B
  <2>4. IsFiniteSet(A \X B)
    BY <2>2, <2>3, FS_Product
  <2> QED BY <2>4 DEF A, B, q
<1>4. \A S \in T : IsFiniteSet(S)
  BY <1>3
<1>5. Scores!Units(h, sign) = UNION T
  BY DEF Scores!Units, OfType
<1>6. IsFiniteSet(Scores!Units(h, sign))
  <2> HIDE DEF T
  <2> QED BY <1>2, <1>4, <1>5, FS_UNION
<1> QED BY <1>6, FS_CardinalityType, SameCardinality

\* Reviews of one to five stars have no negative units, and at most five each.
LEMMA FairStars ==
    ASSUME NEW h \in EngineLog,
           \A i \in DOMAIN h : h[i].type = "review" => Scores!StarsOf(h[i]) \in 1..5
    PROVE  0 <= Scores!Stars(h) /\ Scores!Stars(h) <= 5 * Scores!Count(h, "review")
<1> DEFINE D == OfType(h, "review")
           F == 1..5
           P == Scores!Units(h, 1)
           N == Scores!Units(h, -1)
<1>1. /\ IsFiniteSet(D) /\ Scores!Count(h, "review") = Cardinality(D)
      /\ IsFiniteSet(F) /\ Cardinality(F) = 5
      /\ Cardinality(P) \in Nat /\ Cardinality(D) \in Nat
  <2>1. IsFiniteSet(F) /\ Cardinality(F) = 5
    <3>1. 1 \in Int /\ 5 \in Int
      OBVIOUS
    <3>2. IsFiniteSet(1..5) /\ Cardinality(1..5) = IF 1 > 5 THEN 0 ELSE 5 - 1 + 1
      BY ONLY <3>1, FS_Interval
    <3> QED BY <3>2
  <2> QED BY <2>1, CountsAreNumbers, UnitsAreFinite, FS_CardinalityType
<1>2. \A i \in D : Scores!StarsOf(h[i]) \in Int
                  /\ 1 <= Scores!StarsOf(h[i]) /\ Scores!StarsOf(h[i]) <= 5
  BY DEF OfType
<1>3. N = {}
  BY <1>2 DEF Scores!Units, OfType
<1>4. P \in SUBSET (D \X F)
  BY <1>2 DEF Scores!Units, OfType
<1>5. Scores!Stars(h) = Cardinality(P) - Cardinality(N)
  BY SameCardinality DEF Scores!Stars
<1> HIDE DEF D, F, P, N
<1>6. IsFiniteSet(D \X F) /\ Cardinality(D \X F) = Cardinality(D) * Cardinality(F)
  BY <1>1, FS_Product
<1>7. Cardinality(P) <= Cardinality(D) * 5 /\ Cardinality(N) = 0
  BY <1>1, <1>3, <1>4, <1>6, FS_Subset, FS_EmptySet
<1> QED BY <1>1, <1>5, <1>7

\* The tally of a log of the engine has its type.
LEMMA TallyFacts ==
    ASSUME NEW h \in EngineLog
    PROVE  /\ Tallied(Scores!Tally(h))
           /\ (\A i \in DOMAIN h : h[i].type = "review" => Scores!StarsOf(h[i]) \in 1..5)
                 => Rated(Scores!Tally(h))
<1>1. /\ \A type : Scores!Count(h, type) \in Nat
      /\ Scores!Stars(h) \in Int
  BY CountsAreNumbers, UnitsAreFinite DEF Scores!Stars
<1>2. Scores!Tally(h) \in Tallies
  BY <1>1 DEF Scores!Tally, Tallies
<1>3. ASSUME \A i \in DOMAIN h : h[i].type = "review" => Scores!StarsOf(h[i]) \in 1..5
      PROVE  Rated(Scores!Tally(h))
  BY <1>3, FairStars DEF Rated, Scores!Tally
<1> QED BY <1>2, <1>3 DEF Tallied

\* What one more event that is no review does to the tally.
LEMMA TallyAppend ==
    ASSUME NEW h \in EngineLog, NEW e \in Scores!EngineEvent, e.type # "review"
    PROVE  /\ e.type \in {"dispute", "refund"} =>
                 OneMore(Scores!Tally(h), Scores!Tally(Append(h, e)), "disputes")
           /\ e.type = "payment" =>
                 OneMore(Scores!Tally(h), Scores!Tally(Append(h, e)), "payments")
           /\ e.type = "delivery" =>
                 OneMore(Scores!Tally(h), Scores!Tally(Append(h, e)), "delivered")
           /\ e.type = "kyc_attestation" =>
                 OneMore(Scores!Tally(h), Scores!Tally(Append(h, e)), "kyc")
<1> DEFINE k == Append(h, e)
           last == Len(h) + 1
<1>1. \A type : Scores!Count(h, type) \in Nat
  BY CountsAreNumbers
<1>2. \A type : Scores!Count(k, type) = Scores!Count(h, type) + (IF e.type = type THEN 1 ELSE 0)
  BY AppendCounts
<1>3. /\ DOMAIN k = DOMAIN h \cup {last} /\ k[last] = e
      /\ \A i \in DOMAIN h : k[i] = h[i]
  BY AppendProperties DEF EngineLog
<1> HIDE DEF k, last
<1>4. Scores!Stars(k) = Scores!Stars(h)
  <2>1. {j \in DOMAIN k : k[j].type = "review"} = {j \in DOMAIN h : h[j].type = "review"}
    BY <1>3
  <2> DEFINE D == {j \in DOMAIN h : h[j].type = "review"}
  <2>2. \A i \in D : k[i] = h[i]
    BY <1>3
  <2>3. ASSUME NEW sign PROVE Scores!Units(k, sign) = Scores!Units(h, sign)
    <3>1. {{i} \X (1..(sign * Scores!StarsOf(k[i]))) : i \in D}
             = {{i} \X (1..(sign * Scores!StarsOf(h[i]))) : i \in D}
      BY <2>2
    <3> QED BY <2>1, <3>1 DEF Scores!Units
  <2> QED BY <2>3 DEF Scores!Stars
<1>5. \A type : /\ e.type = type => Scores!Count(k, type) = Scores!Count(h, type) + 1
                /\ e.type # type => Scores!Count(k, type) = Scores!Count(h, type)
  BY <1>1, <1>2
<1>6. CASE e.type = "payment"
  BY <1>4, <1>5, <1>6 DEF OneMore, Scores!Tally, k
<1>7. CASE e.type = "delivery"
  BY <1>4, <1>5, <1>7 DEF OneMore, Scores!Tally, k
<1>8. CASE e.type = "kyc_attestation"
  BY <1>4, <1>5, <1>8 DEF OneMore, Scores!Tally, k
<1>9. CASE e.type = "dispute"
  BY <1>1, <1>4, <1>5, <1>9 DEF OneMore, Scores!Tally, k
<1>10. CASE e.type = "refund"
  BY <1>1, <1>4, <1>5, <1>10 DEF OneMore, Scores!Tally, k
<1> QED BY <1>6, <1>7, <1>8, <1>9, <1>10

-----------------------------------------------------------------------------
(* The repository's total, which the library computes by a recursive function *)

\* A set of numbers has a least one: what stands for induction here.
LEMMA Least ==
    ASSUME NEW N \in SUBSET Nat, N # {}
    PROVE  \E n \in N : \A k \in N : n <= k
<1> DEFINE R == {ss \in Nat \X Nat : ss[1] < ss[2]}
<1>1. IsWellFoundedOn(R, Nat)
  BY NatLessThanWellFounded DEF OpToRel
<1>2. \A k, n \in Nat : <<k, n>> \in R <=> k < n
  OBVIOUS
<1> HIDE DEF R
<1>3. PICK n \in N : \A k \in N : ~ (<<k, n>> \in R)
  BY <1>1, WFMin
<1>4. \A k \in N : ~(k < n)
  BY <1>2, <1>3
<1> QED BY <1>4

\* The event the fold takes last of a set of indices, and its equation, on some of the
\* sets it comes to.
Chosen(s) == CHOOSE x \in s : TRUE
Solves(g, h, Sets) ==
    g = [s \in Sets |-> IF s = {} THEN 0 ELSE g[s \ {Chosen(s)}] + h[Chosen(s)].weight]

\* The total is the fold's function at all indices.
LEMMA TotalIsSolution ==
    ASSUME NEW h
    PROVE  Scores!TotalWeight(h) =
              (CHOOSE g : Solves(g, h, SUBSET DOMAIN h))[DOMAIN h]
BY DEF Scores!TotalWeight, Scores!FoldSeq, Scores!FoldFunction, Scores!FoldFunctionOnSet,
       Scores!MapThenFoldSet, Solves, Chosen

Upto(S, n) == {s \in SUBSET S : Cardinality(s) <= n}

\* Without the chosen one, a set of indices is smaller by one.
LEMMA ChosenFacts ==
    ASSUME NEW S, IsFiniteSet(S), NEW s \in SUBSET S, s # {}
    PROVE  /\ Chosen(s) \in s /\ s \ {Chosen(s)} \in SUBSET S
           /\ Cardinality(s) \in Nat /\ Cardinality(s \ {Chosen(s)}) \in Nat
           /\ Cardinality(s) = Cardinality(s \ {Chosen(s)}) + 1
<1>1. Chosen(s) \in s
  BY DEF Chosen
<1>2. IsFiniteSet(s) /\ Cardinality(s) \in Nat
  BY FS_Subset, FS_CardinalityType
<1>3. IsFiniteSet(s \ {Chosen(s)}) /\ Cardinality(s \ {Chosen(s)}) = Cardinality(s) - 1
  BY <1>1, <1>2, FS_RemoveElement
<1>4. Cardinality(s \ {Chosen(s)}) \in Nat
  BY <1>3, FS_CardinalityType
<1> QED BY <1>1, <1>2, <1>3, <1>4

\* The equation has a solution on the sets of at most n indices, for every n.
LEMMA SolutionUpto ==
    ASSUME NEW h, NEW S, IsFiniteSet(S)
    PROVE  \A n \in Nat : \E g : Solves(g, h, Upto(S, n))
<1> DEFINE Bad == {n \in Nat : ~\E g : Solves(g, h, Upto(S, n))}
<1>1. Bad = {}
  <2> SUFFICES ASSUME Bad # {}
               PROVE  FALSE
    OBVIOUS
  <2>1. PICK n \in Bad : \A k \in Bad : n <= k
    BY Least
  <2>2. CASE n = 0
    <3>1. \A s \in Upto(S, 0) : s = {}
      <4> SUFFICES ASSUME NEW s \in SUBSET S, Cardinality(s) <= 0
                   PROVE  s = {}
        BY DEF Upto
      <4>1. IsFiniteSet(s) /\ Cardinality(s) \in Nat
        BY FS_Subset, FS_CardinalityType
      <4>2. Cardinality(s) = 0
        BY <4>1
      <4> QED BY <4>1, <4>2, FS_EmptySet
    <3>2. Solves([s \in Upto(S, 0) |-> 0], h, Upto(S, 0))
      BY <3>1 DEF Solves
    <3> QED BY <2>1, <2>2, <3>2
  <2>3. CASE n # 0
    <3>1. n - 1 \in Nat /\ n - 1 \notin Bad
      BY <2>1, <2>3
    <3>2. PICK g : Solves(g, h, Upto(S, n - 1))
      BY <3>1
    <3> DEFINE f == [s \in Upto(S, n) |-> IF s = {} THEN 0
                                          ELSE g[s \ {Chosen(s)}] + h[Chosen(s)].weight]
    <3>3. ASSUME NEW s \in Upto(S, n), s # {}
          PROVE  f[s \ {Chosen(s)}] = g[s \ {Chosen(s)}]
      <4>1. s \in SUBSET S /\ Cardinality(s) <= n
        BY DEF Upto
      <4>2. s \ {Chosen(s)} \in Upto(S, n - 1) /\ s \ {Chosen(s)} \in Upto(S, n)
        <5>1. /\ s \ {Chosen(s)} \in SUBSET S /\ Cardinality(s) \in Nat
              /\ Cardinality(s \ {Chosen(s)}) \in Nat
              /\ Cardinality(s) = Cardinality(s \ {Chosen(s)}) + 1
          BY <3>3, <4>1, ChosenFacts
        <5>2. n \in Nat
          OBVIOUS
        <5>3. Cardinality(s \ {Chosen(s)}) <= n - 1 /\ Cardinality(s \ {Chosen(s)}) <= n
          BY <4>1, <5>1, <5>2
        <5> QED BY <5>1, <5>3 DEF Upto
      <4> QED BY <3>2, <4>2 DEF Solves
    <3>4. Solves(f, h, Upto(S, n))
      <4>1. \A s \in Upto(S, n) : f[s] = IF s = {} THEN 0
                                         ELSE f[s \ {Chosen(s)}] + h[Chosen(s)].weight
        BY <3>3
      <4>2. f = [s \in Upto(S, n) |-> f[s]]
        OBVIOUS
      <4> HIDE DEF f
      <4> QED BY <4>1, <4>2 DEF Solves
    <3> QED BY <2>1, <3>4
  <2> QED BY <2>2, <2>3
<1> QED BY <1>1

\* A total of whole weights is whole.
LEMMA TotalType ==
    ASSUME NEW h, NEW Row, h \in Seq(Row), \A row \in Row : row.weight \in Int
    PROVE  Scores!TotalWeight(h) \in Int
<1> DEFINE S == DOMAIN h
           G == CHOOSE g : Solves(g, h, SUBSET S)
<1>1. S = 1..Len(h) /\ Len(h) \in Nat
  OBVIOUS
<1>2. IsFiniteSet(S) /\ Cardinality(S) \in Nat
  BY <1>1, FS_Interval, FS_CardinalityType
<1>3. \A i \in S : h[i].weight \in Int
  BY <1>1
<1>4. Upto(S, Cardinality(S)) = SUBSET S
  BY <1>2, FS_Subset DEF Upto
<1>5. \E g : Solves(g, h, SUBSET S)
  <2>1. \A n \in Nat : \E g : Solves(g, h, Upto(S, n))
    BY <1>2, SolutionUpto
  <2> QED BY <1>2, <1>4, <2>1
<1>6. Solves(G, h, SUBSET S)
  BY <1>5
<1>7. Scores!TotalWeight(h) = G[S]
  BY TotalIsSolution
<1> HIDE DEF S, G
<1> DEFINE Bad == {n \in Nat : \E s \in SUBSET S : Cardinality(s) = n /\ G[s] \notin Int}
<1>8. Bad = {}
  <2> SUFFICES ASSUME Bad # {}
               PROVE  FALSE
    OBVIOUS
  <2>1. PICK n \in Bad : \A k \in Bad : n <= k
    BY Least
  <2>2. PICK s \in SUBSET S : Cardinality(s) = n /\ G[s] \notin Int
    BY <2>1
  <2>3. s # {}
    BY <1>6, <2>2 DEF Solves
  <2> DEFINE rest == s \ {Chosen(s)}
  <2>4. /\ Chosen(s) \in S /\ rest \in SUBSET S /\ Cardinality(rest) \in Nat
        /\ n \in Nat /\ n = Cardinality(rest) + 1
    BY <1>2, <2>2, <2>3, ChosenFacts
  <2>5. G[s] = G[rest] + h[Chosen(s)].weight /\ h[Chosen(s)].weight \in Int
    BY <1>3, <1>6, <2>3, <2>4 DEF Solves
  <2> HIDE DEF rest
  <2>6. G[rest] \notin Int
    BY <2>2, <2>5
  <2>7. Cardinality(rest) \in Bad
    BY <2>4, <2>6
  <2> QED BY <2>1, <2>4, <2>7
<1>9. S \in SUBSET S
  OBVIOUS
<1> QED BY <1>2, <1>7, <1>8, <1>9

\* The repository's score of a whole total is a whole number from 0 to 100.
LEMMA RepositoryScoreType ==
    ASSUME NEW total \in Int, NEW minutes \in Int
    PROVE  Scores!RepositoryScore(total, minutes) \in 0..100
<1>1. Scores!Clamped(total) \in Nat /\ Scores!Clamped(total) <= 100
  BY DEF Scores!Clamped, Scores!Least, Scores!Greatest
<1>2. Scores!Recency(minutes) \in {95, 100, 105}
  BY DEF Scores!Recency
<1>3. Scores!Clamped(total) * Scores!Recency(minutes) \in Nat
  BY <1>1, <1>2
<1> DEFINE x == Scores!Least(10000, Scores!Clamped(total) * Scores!Recency(minutes))
<1>4. x \in Nat /\ x <= 10000
  BY <1>3 DEF Scores!Least
<1>5. Scores!RepositoryScore(total, minutes) = (x + 50) \div 100
  BY DEF Scores!RepositoryScore
<1> HIDE DEF x
<1>6. (x + 50) \div 100 \in Nat /\ (x + 50) \div 100 <= 100
  BY <1>4
<1> QED BY <1>5, <1>6

-----------------------------------------------------------------------------
(* The inductive invariant of Regulation                                     *)

\* Records were created, and so are not found before they were given, in the past.
ConsentInv ==
    /\ Consents!ConsentTypeOK /\ Consents!ConsentHonoured
    /\ \A id \in DOMAIN consents : consents[id].created <= now

EventRow == IF shape = "engine" THEN Scores!EngineEvent ELSE Scores!RepositoryEvent

\* Events and cached scores are of the past.
PastOnly ==
    /\ \A m \in Merchants : \A i \in DOMAIN log[m] : log[m][i].at <= now
    /\ \A m \in DOMAIN scores : scores[m].at <= now

\* Score s of time t is that of the first events, and what it leaves out came later.
Accounts(m, s, t) ==
    \E n \in 0..Len(log[m]) :
        /\ s = Scores!ScoreOf(SubSeq(log[m], 1, n), t)
        /\ \A i \in (n + 1)..Len(log[m]) : log[m][i].at >= t

CacheExplained == \A m \in DOMAIN scores : Accounts(m, scores[m].score, scores[m].at)

TrustInv ==
    /\ Scores!TrustTypeOK /\ Scores!ServedScoreIsCurrent
    /\ log \in [Merchants -> Seq(EventRow)]
    /\ PastOnly /\ CacheExplained

RInv == now \in Times \cup {0} /\ ConsentInv /\ TrustInv

\* The clock shows numbers.
LEMMA TimesAreNumbers == ASSUME NEW t \in Times \cup {0} PROVE t \in Nat
BY RegulationAssumption

-----------------------------------------------------------------------------
(* Consents                                                                  *)

\* Steps of others leave the records, and forget the last verification.
LEMMA ConsentFrame ==
    ASSUME ConsentInv, UNCHANGED consents, verified' = {}, now \in Nat, now' \in Nat, now <= now'
    PROVE  ConsentInv'
<1>1. Consents!Cardinality({}) = 0
  BY SameCardinality, FS_EmptySet
<1>2. Consents!ConsentTypeOK'
  BY <1>1 DEF ConsentInv, Consents!ConsentTypeOK
<1>3. \A id \in DOMAIN consents : consents[id].created \in Nat
  BY DEF ConsentInv, Consents!ConsentTypeOK, Consents!IsTable, Consents!Record
<1>4. \A id \in DOMAIN consents' : consents'[id].created <= now'
  BY <1>3 DEF ConsentInv
<1>5. Consents!ConsentHonoured'
  BY DEF ConsentInv, Consents!ConsentHonoured
<1> QED BY <1>2, <1>4, <1>5 DEF ConsentInv

\* A record that is written over another, or anew.
LEMMA ConsentPut ==
    ASSUME ConsentInv, verified' = {}, now \in Nat, now' = now,
           NEW id \in ConsentIds, NEW record \in Consents!Record,
           consents' = Consents!Put(consents, id, record),
           record.status = "revoked" <=> record.revokedAt # {}, record.created <= now
    PROVE  ConsentInv'
<1>1. Consents!Cardinality({}) = 0
  BY SameCardinality, FS_EmptySet
<1>2. Consents!IsTable(consents', ConsentIds, Consents!Record)
  BY DEF ConsentInv, Consents!ConsentTypeOK, Consents!IsTable, Consents!Put
<1>3. DOMAIN consents' = DOMAIN consents \cup {id}
      /\ \A k \in DOMAIN consents' : consents'[k] = IF k = id THEN record ELSE consents[k]
  BY DEF Consents!Put
<1>4. \A k \in DOMAIN consents' : consents'[k].created <= now'
  BY <1>3 DEF ConsentInv
<1>5. \A k \in DOMAIN consents' : consents'[k].status = "revoked" <=> consents'[k].revokedAt # {}
  BY <1>3 DEF ConsentInv, Consents!ConsentHonoured, Consents!None
<1>6. Consents!ConsentHonoured'
  BY <1>5 DEF Consents!ConsentHonoured, Consents!None
<1> QED BY <1>1, <1>2, <1>4, <1>6 DEF ConsentInv, Consents!ConsentTypeOK

\* One lemma per operation of the repository: a capture,
LEMMA CaptureStep ==
    ASSUME ConsentInv, now \in Nat, now' = now,
           NEW id \in ConsentIds, NEW s \in Subjects, NEW t \in Tenants, NEW r \in Retentions,
           NEW purposes \in (SUBSET Purposes) \cup {{Consents!AllPurposes}},
           Consents!Capture(id, s, t, purposes, r)
    PROVE  ConsentInv'
<1> DEFINE record == [subject |-> s, tenant |-> t, purposes |-> purposes,
                      until |-> now + r, created |-> now,
                      status |-> "active", revokedAt |-> {}]
<1>1. r \in Nat
  BY RegulationAssumption DEF Consents!ConsentAssumption
<1>2. record \in Consents!Record
  BY <1>1 DEF Consents!Record, Consents!AllPurposes
<1>3. verified' = {} /\ consents' = Consents!Put(consents, id, record)
  BY DEF Consents!Capture, Consents!Set, Consents!None
<1>4. (record.status = "revoked" <=> record.revokedAt # {}) /\ record.created <= now
  OBVIOUS
<1> HIDE DEF record
<1> QED BY <1>2, <1>3, <1>4, ConsentPut

\* a revocation,
LEMMA RevokeStep ==
    ASSUME ConsentInv, now \in Nat, now' = now, NEW id \in ConsentIds, Consents!Revoke(id)
    PROVE  ConsentInv'
<1> DEFINE record == [consents[id] EXCEPT !.status = "revoked", !.revokedAt = {now}]
<1>1. id \in DOMAIN consents /\ verified' = {} /\ consents' = Consents!Put(consents, id, record)
  BY DEF Consents!Revoke, Consents!Set, Consents!None
<1>2. consents[id] \in Consents!Record /\ consents[id].created <= now
  BY <1>1 DEF ConsentInv, Consents!ConsentTypeOK, Consents!IsTable
<1>3. record \in Consents!Record /\ record.status = "revoked" /\ record.revokedAt # {}
      /\ record.created = consents[id].created
  BY <1>2 DEF Consents!Record
<1> HIDE DEF record
<1> QED BY <1>1, <1>2, <1>3, ConsentPut

\* a verification,
LEMMA VerifyStep ==
    ASSUME ConsentInv, now \in Nat, now' = now,
           NEW s \in Subjects, NEW t \in Tenants, NEW p \in Purposes, Consents!Verify(s, t, p)
    PROVE  ConsentInv'
<1>1. PICK id \in Consents!FindActiveConsent(s, t, p) :
         /\ verified' = {[consent |-> id, subject |-> s, tenant |-> t, purpose |-> p]}
         /\ UNCHANGED consents
  BY DEF Consents!Verify
<1>2. /\ id \in DOMAIN consents /\ id \in ConsentIds /\ consents[id] \in Consents!Record
      /\ consents[id].subject = s /\ consents[id].tenant = t
      /\ consents[id].status = "active" /\ consents[id].until > now
      /\ consents[id].purposes \cap {p, Consents!AllPurposes} # {}
  BY DEF ConsentInv, Consents!ConsentTypeOK, Consents!IsTable, Consents!FindActiveConsent,
         Consents!Newest, Consents!Held, Consents!InForce
<1>3. consents[id].revokedAt = {} /\ consents[id].created <= now
  BY <1>2 DEF ConsentInv, Consents!ConsentHonoured, Consents!None
<1>4. Consents!ConsentTypeOK'
  <2>1. verified' \subseteq Consents!Check
    BY <1>1, <1>2 DEF Consents!Check
  <2>2. Cardinality(verified') = 1
    BY <1>1, FS_Singleton
  <2>3. Consents!Cardinality(verified') <= 1
    BY <2>2, SameCardinality
  <2> QED BY <1>1, <2>1, <2>3 DEF ConsentInv, Consents!ConsentTypeOK
<1>5. Consents!ConsentHonoured'
  <2>1. \A k \in DOMAIN consents' : consents'[k].status = "revoked" <=> consents'[k].revokedAt # {}
    BY <1>1 DEF ConsentInv, Consents!ConsentHonoured, Consents!None
  <2>2. /\ consents'[id].subject = s /\ consents'[id].tenant = t
        /\ consents'[id].purposes \cap {p, Consents!AllPurposes} # {}
        /\ consents'[id].revokedAt = {}
        /\ consents'[id].created <= now' /\ now' < consents'[id].until
    BY <1>1, <1>2, <1>3 DEF Consents!Record
  <2> QED BY <1>1, <2>1, <2>2 DEF Consents!ConsentHonoured, Consents!None
<1> QED BY <1>1, <1>4, <1>5 DEF ConsentInv

\* and a sweep.
LEMMA ExpireStep ==
    ASSUME ConsentInv, now \in Nat, now' = now, Consents!ExpireConsents
    PROVE  ConsentInv'
<1>1. /\ verified' = {} /\ DOMAIN consents' = DOMAIN consents
      /\ consents' = [id \in DOMAIN consents |->
                        IF id \in Consents!Overdue THEN [consents[id] EXCEPT !.status = "expired"]
                        ELSE consents[id]]
  BY DEF Consents!ExpireConsents, Consents!None
<1>2. \A id \in DOMAIN consents : consents[id] \in Consents!Record /\ consents[id].created <= now
  BY DEF ConsentInv, Consents!ConsentTypeOK, Consents!IsTable
<1>3. \A id \in DOMAIN consents :
         /\ consents'[id] \in Consents!Record /\ consents'[id].created = consents[id].created
         /\ consents'[id].revokedAt = consents[id].revokedAt
         /\ consents'[id].status = "revoked" <=> consents[id].status = "revoked"
  <2> TAKE id \in DOMAIN consents
  <2>1. CASE id \in Consents!Overdue
    <3>1. consents[id].status = "active"
      BY <2>1 DEF Consents!Overdue
    <3> QED BY <1>1, <1>2, <2>1, <3>1 DEF Consents!Record
  <2>2. CASE id \notin Consents!Overdue
    BY <1>1, <1>2, <2>2
  <2> QED BY <2>1, <2>2
<1>4. Consents!ConsentTypeOK'
  <2>1. Consents!Cardinality({}) = 0
    BY SameCardinality, FS_EmptySet
  <2>2. Consents!IsTable(consents', ConsentIds, Consents!Record)
    BY <1>1, <1>3 DEF ConsentInv, Consents!ConsentTypeOK, Consents!IsTable
  <2> QED BY <1>1, <2>1, <2>2 DEF Consents!ConsentTypeOK
<1>5. Consents!ConsentHonoured'
  BY <1>1, <1>3 DEF ConsentInv, Consents!ConsentHonoured, Consents!None
<1> QED BY <1>1, <1>2, <1>3, <1>4, <1>5 DEF ConsentInv

\* A step of the consents keeps their invariant.
LEMMA ConsentStep ==
    ASSUME ConsentInv, now \in Nat, now' = now, Consents!ConsentNext
    PROVE  ConsentInv'
BY CaptureStep, RevokeStep, VerifyStep, ExpireStep DEF Consents!ConsentNext

-----------------------------------------------------------------------------
(* Trust                                                                     *)

\* The score of events of the past is a fraction, also rounded, and with fair reviews
\* between 0 and 100.
LEMMA ScoreOfFacts ==
    ASSUME NEW h \in EngineLog, NEW t \in Nat, \A i \in DOMAIN h : h[i].at <= t
    PROVE  /\ Scores!TenureDays(h, t) \in Nat
           /\ Scores!ScoreOf(h, t) \in Scores!Rational
           /\ Scores!ToTenths(Scores!ScoreOf(h, t)) \in Scores!Rational
           /\ (\A i \in DOMAIN h : h[i].type = "review" => Scores!StarsOf(h[i]) \in 1..5)
                 => /\ Scores!AtMost(<<0, 1>>, Scores!ScoreOf(h, t))
                    /\ Scores!AtMost(Scores!ScoreOf(h, t), <<100, 1>>)
<1>1. Scores!TenureDays(h, t) \in Nat
  <2>1. CASE h = <<>>
    BY <2>1 DEF Scores!TenureDays
  <2>2. CASE h # <<>>
    <3>1. 1 \in DOMAIN h /\ h[1] \in Scores!EngineEvent
      BY <2>2 DEF EngineLog
    <3>2. h[1].at \in Nat /\ h[1].at <= t
      BY <3>1 DEF Scores!EngineEvent
    <3> DEFINE minutes == t - h[1].at
    <3>3. minutes \in Nat /\ Scores!TenureDays(h, t) = minutes \div 1440
      BY <2>2, <3>2 DEF Scores!TenureDays
    <3> HIDE DEF minutes
    <3> QED BY <3>3
  <2> QED BY <2>1, <2>2
<1>2. /\ Scores!ScoreOf(h, t) \in Scores!Rational
      /\ (\A i \in DOMAIN h : h[i].type = "review" => Scores!StarsOf(h[i]) \in 1..5)
            => /\ Scores!AtMost(<<0, 1>>, Scores!ScoreOf(h, t))
               /\ Scores!AtMost(Scores!ScoreOf(h, t), <<100, 1>>)
  BY <1>1, TallyFacts, ScoreInBounds DEF Scores!ScoreOf
<1>3. Scores!ToTenths(Scores!ScoreOf(h, t)) \in Scores!Rational
  <2> DEFINE a == Scores!ScoreOf(h, t)[1]
             b == Scores!ScoreOf(h, t)[2]
             u == 20 * a + b
             w == 2 * b
  <2>1. a \in Int /\ b \in Nat \ {0} /\ u \in Int /\ w \in Nat \ {0}
    BY <1>2 DEF Scores!Rational
  <2>2. Scores!ToTenths(Scores!ScoreOf(h, t)) = <<u \div w, 10>>
    BY DEF Scores!ToTenths
  <2> HIDE DEF u, w
  <2> QED BY <2>1, <2>2 DEF Scores!Rational
<1> QED BY <1>1, <1>2, <1>3

\* Rows of the past, of either service.
LEMMA RowsArePast ==
    ASSUME TrustInv, NEW m \in Merchants
    PROVE  /\ log[m] \in Seq(EventRow) /\ Len(log[m]) \in Nat /\ DOMAIN log[m] = 1..Len(log[m])
           /\ \A i \in DOMAIN log[m] : log[m][i] \in EventRow /\ log[m][i].at \in Nat
                                       /\ log[m][i].at <= now
<1>1. log[m] \in Seq(EventRow)
  BY DEF TrustInv
<1>2. Len(log[m]) \in Nat /\ DOMAIN log[m] = 1..Len(log[m])
      /\ \A i \in DOMAIN log[m] : log[m][i] \in EventRow
  BY <1>1
<1>3. \A row \in EventRow : row.at \in Nat
  BY DEF EventRow, Scores!EngineEvent, Scores!RepositoryEvent
<1> QED BY <1>1, <1>2, <1>3 DEF TrustInv, PastOnly

\* Steps of others leave the tables, and forget the last answer.
LEMMA TrustFrame ==
    ASSUME TrustInv, UNCHANGED <<shape, log, scores, logged>>, served' = {},
           now \in Nat, now' \in Nat, now <= now'
    PROVE  TrustInv'
<1>1. Scores!Cardinality({}) = 0
  BY SameCardinality, FS_EmptySet
<1>2. Scores!TrustTypeOK'
  BY <1>1 DEF TrustInv, Scores!TrustTypeOK
<1>3. Scores!ServedScoreIsCurrent'
  BY DEF Scores!ServedScoreIsCurrent
<1>4. PastOnly'
  <2>1. \A m \in Merchants : \A i \in DOMAIN log[m] : log[m][i].at <= now'
    BY RowsArePast
  <2>2. \A m \in DOMAIN scores : scores[m].at \in Nat /\ scores[m].at <= now
    BY DEF TrustInv, PastOnly, Scores!TrustTypeOK, Scores!IsTable
  <2> QED BY <2>1, <2>2 DEF PastOnly
<1>5. CacheExplained'
  BY DEF TrustInv, CacheExplained, Accounts
<1>6. log' \in [Merchants -> Seq(EventRow')]
  BY DEF TrustInv, EventRow
<1> QED BY <1>2, <1>3, <1>4, <1>5, <1>6 DEF TrustInv

\* An event that is appended comes after what the cached scores account for.
LEMMA Appended ==
    ASSUME TrustInv, now \in Nat, now' = now, UNCHANGED <<shape, scores>>,
           NEW m \in Merchants, NEW event \in EventRow, event.at = now,
           log' = [log EXCEPT ![m] = Append(@, event)]
    PROVE  log' \in [Merchants -> Seq(EventRow')] /\ PastOnly' /\ CacheExplained'
<1>1. \A k \in Merchants : log'[k] = IF k = m THEN Append(log[m], event) ELSE log[k]
  BY DEF TrustInv
<1>2. /\ Append(log[m], event) \in Seq(EventRow)
      /\ Len(Append(log[m], event)) = Len(log[m]) + 1
      /\ \A i \in 1..Len(log[m]) : Append(log[m], event)[i] = log[m][i]
      /\ Append(log[m], event)[Len(log[m]) + 1] = event
      /\ DOMAIN Append(log[m], event) = 1..(Len(log[m]) + 1)
  BY RowsArePast, AppendProperties
<1>3. \A k \in Merchants : Len(log[k]) \in Nat /\ DOMAIN log[k] = 1..Len(log[k])
  BY RowsArePast
<1>4. log' \in [Merchants -> Seq(EventRow')]
  BY <1>2 DEF TrustInv, EventRow
<1>5. PastOnly'
  <2>1. ASSUME NEW k \in Merchants, NEW i \in DOMAIN log'[k]
        PROVE  log'[k][i].at <= now
    <3>1. CASE k # m
      BY <1>1, <2>1, <3>1, RowsArePast
    <3>2. CASE k = m /\ i = Len(log[m]) + 1
      BY <1>1, <1>2, <3>2
    <3>3. CASE k = m /\ i # Len(log[m]) + 1
      <4>1. i \in DOMAIN log[m] /\ log'[k][i] = log[m][i]
        BY <1>1, <1>2, <1>3, <2>1, <3>3
      <4> QED BY <4>1, RowsArePast
    <3> QED BY <3>1, <3>2, <3>3
  <2> QED BY <2>1 DEF TrustInv, PastOnly
<1>6. CacheExplained'
  <2>1. ASSUME NEW k \in DOMAIN scores
        PROVE  Accounts(k, scores[k].score, scores[k].at)'
    <3>1. k \in Merchants /\ scores[k].at \in Nat /\ scores[k].at <= now
      BY DEF TrustInv, PastOnly, Scores!TrustTypeOK, Scores!IsTable
    <3>2. PICK n \in 0..Len(log[k]) :
             /\ scores[k].score = Scores!ScoreOf(SubSeq(log[k], 1, n), scores[k].at)
             /\ \A i \in (n + 1)..Len(log[k]) : log[k][i].at >= scores[k].at
      BY <2>1 DEF TrustInv, CacheExplained, Accounts
    <3>3. CASE k # m
      BY <1>1, <3>1, <3>2, <3>3 DEF Accounts
    <3>4. CASE k = m
      <4>1. /\ log'[k] = Append(log[m], event) /\ Len(log'[k]) = Len(log[m]) + 1
            /\ Len(log[m]) \in Nat /\ n \in Nat /\ n <= Len(log[m])
        <5>1. log'[k] = Append(log[m], event)
          BY <1>1, <3>4
        <5>2. Len(Append(log[m], event)) = Len(log[m]) + 1 /\ Len(log[m]) \in Nat
          BY <1>2, <1>3
        <5>3. n \in 0..Len(log[m])
          BY <3>2, <3>4
        <5> QED BY <5>1, <5>2, <5>3
      <4>2. SubSeq(log'[k], 1, n) = SubSeq(log[k], 1, n)
        <5>1. \A i \in 1..n : log'[k][i] = log[k][i]
          BY <1>2, <3>4, <4>1
        <5> QED BY <3>4, <4>1, <5>1
      <4>3. \A i \in (n + 1)..Len(log'[k]) : log'[k][i].at >= scores[k].at
        <5> TAKE i \in (n + 1)..Len(log'[k])
        <5>1. CASE i = Len(log[m]) + 1
          BY <1>2, <3>1, <4>1, <5>1
        <5>2. CASE i # Len(log[m]) + 1
          <6>1. i \in 1..Len(log[m]) /\ i \in (n + 1)..Len(log[k])
            BY <3>4, <4>1, <5>2
          <6>2. log'[k][i] = log[k][i]
            BY <1>2, <3>4, <4>1, <6>1
          <6> QED BY <3>2, <6>1, <6>2
        <5> QED BY <5>1, <5>2
      <4>4. n \in 0..Len(log'[k])
        BY <4>1
      <4> QED BY <3>2, <4>2, <4>3, <4>4 DEF Accounts
    <3> QED BY <3>3, <3>4
  <2> QED BY <2>1 DEF CacheExplained
<1> QED BY <1>4, <1>5, <1>6

\* The answer of the last step is one answer.
LEMMA OneAnswer ==
    ASSUME NEW a, a \in Scores!Answer', served' = {a}
    PROVE  served' \subseteq Scores!Answer' /\ Scores!Cardinality(served') <= 1
<1>1. Cardinality(served') = 1
  BY FS_Singleton
<1>2. Scores!Cardinality(served') = 1
  BY <1>1, SameCardinality
<1> QED BY <1>2

\* An event that is recorded is counted.
LEMMA CountedEvent ==
    ASSUME TrustInv, logged < MaxEvents, logged' = logged + 1
    PROVE  logged' \in 0..MaxEvents
BY RegulationAssumption DEF TrustInv, Scores!TrustTypeOK, Scores!TrustAssumption

\* recordEvent
LEMMA RecordStep ==
    ASSUME TrustInv, now \in Nat, now' = now, NEW m \in Merchants,
           NEW type, NEW rating, Scores!RecordEvent(m, type, rating),
           \/ type \in Scores!EngineEvents /\ rating = 0
           \/ type = "review" /\ rating \in Ratings
    PROVE  TrustInv'
<1> DEFINE event == [type |-> type, rating |-> rating, at |-> now]
<1>1. /\ shape = "engine" /\ log' = [log EXCEPT ![m] = Append(@, event)]
      /\ served' = {} /\ UNCHANGED <<shape, scores>> /\ logged' \in 0..MaxEvents
  BY CountedEvent DEF Scores!RecordEvent, Scores!Record, Scores!NoAnswer
<1>2. event \in EventRow /\ event.at = now
  BY <1>1 DEF EventRow, Scores!EngineEvent
<1> HIDE DEF event
<1>3. log' \in [Merchants -> Seq(EventRow')] /\ PastOnly' /\ CacheExplained'
  BY <1>1, <1>2, Appended
<1>4. Scores!TrustTypeOK'
  <2>1. Scores!Cardinality({}) = 0
    BY SameCardinality, FS_EmptySet
  <2>2. \A k \in Merchants : log'[k] \in Seq(EventRow')
    BY <1>3
  <2> QED BY <1>1, <2>1, <2>2 DEF TrustInv, Scores!TrustTypeOK, EventRow
<1>5. Scores!ServedScoreIsCurrent'
  BY <1>1 DEF Scores!ServedScoreIsCurrent
<1> QED BY <1>3, <1>4, <1>5 DEF TrustInv

\* A score that is computed accounts for every event.
LEMMA ComputeStep ==
    ASSUME TrustInv, now \in Nat, now' = now, shape = "engine", UNCHANGED <<shape, log, logged>>,
           NEW m \in Merchants, NEW age \in Int, Scores!Compute(m, age)
    PROVE  TrustInv'
<1> DEFINE score == Scores!ScoreOf(log[m], now)
           answer == [merchant |-> m, score |-> Scores!ToTenths(score), at |-> now, age |-> age]
           row == [score |-> score, at |-> now]
<1>1. /\ Len(log[m]) \in Nat /\ DOMAIN log[m] = 1..Len(log[m]) /\ log[m] \in EngineLog
      /\ \A i \in DOMAIN log[m] : log[m][i].at <= now
  BY RowsArePast DEF EventRow, EngineLog
<1>2. score \in Scores!Rational /\ Scores!ToTenths(score) \in Scores!Rational
  BY <1>1, ScoreOfFacts
<1>3. scores' = Scores!Put(scores, m, row) /\ served' = {answer}
  BY DEF Scores!Compute
<1>4. SubSeq(log[m], 1, Len(log[m])) = log[m]
  BY <1>1, SubSeqFull DEF EngineLog
<1>5. answer.merchant = m /\ answer.score = Scores!ToTenths(score) /\ answer.at = now
      /\ answer \in Scores!Answer' /\ row.score = score /\ row.at = now
      /\ row \in [score: Scores!Rational, at: Nat]
  BY <1>2 DEF Scores!Answer
<1> HIDE DEF answer, row
<1>6. DOMAIN scores' = DOMAIN scores \cup {m}
      /\ \A k \in DOMAIN scores' : scores'[k] = IF k = m THEN row ELSE scores[k]
  BY <1>3 DEF Scores!Put
<1>7. Scores!TrustTypeOK'
  <2>1. Scores!IsTable(scores', Merchants, [score: Scores!Rational, at: Nat])
    BY <1>3, <1>5 DEF TrustInv, Scores!TrustTypeOK, Scores!IsTable, Scores!Put
  <2>2. served' \subseteq Scores!Answer' /\ Scores!Cardinality(served') <= 1
    BY <1>3, <1>5, OneAnswer
  <2> QED BY <2>1, <2>2 DEF TrustInv, Scores!TrustTypeOK
<1>8. PastOnly'
  BY <1>5, <1>6 DEF TrustInv, PastOnly
<1>9. Accounts(m, score, now)
  <2>1. \A i \in (Len(log[m]) + 1)..Len(log[m]) : log[m][i].at >= now
    BY <1>1
  <2>2. Len(log[m]) \in 0..Len(log[m])
    BY <1>1
  <2> QED BY <1>4, <2>1, <2>2 DEF Accounts
<1> HIDE DEF score
<1>10. CacheExplained'
  <2>1. ASSUME NEW k \in DOMAIN scores'
        PROVE  Accounts(k, scores'[k].score, scores'[k].at)
    <3>1. CASE k = m
      BY <1>5, <1>6, <1>9, <3>1
    <3>2. CASE k # m
      BY <1>6, <3>2 DEF TrustInv, CacheExplained
    <3> QED BY <3>1, <3>2
  <2> QED BY <2>1 DEF CacheExplained, Accounts
<1>11. Scores!ServedScoreIsCurrent'
  <2>2. /\ Len(log[m]) \in 0..Len(log[m])
        /\ Scores!Explains(Len(log[m]), answer)
        /\ \A i \in (Len(log[m]) + 1)..Len(log[m]) : log[m][i].at >= now - answer.age
    <3>1. SubSeq(log[answer.merchant], 1, Len(log[m])) = log[m]
      BY <1>4, <1>5
    <3>2. Scores!Explains(Len(log[m]), answer)
      BY <1>5, <3>1 DEF Scores!Explains, score
    <3>3. Len(log[m]) \in 0..Len(log[m])
          /\ \A i \in (Len(log[m]) + 1)..Len(log[m]) : log[m][i].at >= now - answer.age
      BY <1>1
    <3> QED BY <3>2, <3>3
  <2> QED BY <1>3, <1>5, <2>2 DEF Scores!ServedScoreIsCurrent, Scores!Explains
<1> QED BY <1>7, <1>8, <1>10, <1>11 DEF TrustInv, EventRow

\* What is served from the cache is no older than the caller takes.
LEMMA CachedStep ==
    ASSUME TrustInv, now \in Nat, now' = now, shape = "engine", UNCHANGED <<shape, log, scores, logged>>,
           NEW m \in DOMAIN scores, NEW age \in Int, ~Scores!Stale(m, age),
           served' = {[merchant |-> m, score |-> scores[m].score, at |-> scores[m].at,
                       age |-> age]}
    PROVE  TrustInv'
<1> DEFINE answer == [merchant |-> m, score |-> scores[m].score, at |-> scores[m].at,
                      age |-> age]
<1>1. /\ m \in Merchants /\ scores[m].score \in Scores!Rational /\ scores[m].at \in Nat
      /\ now - scores[m].at <= age
  BY DEF TrustInv, Scores!TrustTypeOK, Scores!IsTable, Scores!Stale
<1>2. /\ answer.merchant = m /\ answer.score = scores[m].score /\ answer.at = scores[m].at
      /\ answer.age = age
      /\ answer \in Scores!Answer' /\ served' = {answer}
  BY <1>1 DEF Scores!Answer
<1> HIDE DEF answer
<1>3. Scores!TrustTypeOK'
  <2>1. served' \subseteq Scores!Answer' /\ Scores!Cardinality(served') <= 1
    BY <1>2, OneAnswer
  <2> QED BY <2>1 DEF TrustInv, Scores!TrustTypeOK
<1>4. Scores!ServedScoreIsCurrent'
  <2>1. PICK n \in 0..Len(log[m]) :
           /\ scores[m].score = Scores!ScoreOf(SubSeq(log[m], 1, n), scores[m].at)
           /\ \A i \in (n + 1)..Len(log[m]) : log[m][i].at >= scores[m].at
    BY DEF TrustInv, CacheExplained, Accounts
  <2>2. Scores!Explains(n, answer)
    BY <1>2, <2>1 DEF Scores!Explains
  <2>3. \A i \in (n + 1)..Len(log[m]) : log[m][i].at >= now - age
    <3> TAKE i \in (n + 1)..Len(log[m])
    <3>1. i \in DOMAIN log[m]
      BY <1>1, RowsArePast
    <3>2. log[m][i].at \in Nat /\ log[m][i].at >= scores[m].at
      BY <1>1, <2>1, <3>1, RowsArePast
    <3> QED BY <1>1, <3>2
  <2> QED BY <1>2, <2>2, <2>3 DEF Scores!ServedScoreIsCurrent, Scores!Explains
<1>5. PastOnly' /\ CacheExplained'
  BY DEF TrustInv, PastOnly, CacheExplained, Accounts
<1> QED BY <1>3, <1>4, <1>5 DEF TrustInv, EventRow

\* An answer of the repository, whose tables the engine's cache is not in.
LEMMA RepositoryAnswers ==
    ASSUME TrustInv, shape = "repository", now \in Nat, UNCHANGED <<shape, scores>>,
           log' \in [Merchants -> Seq(EventRow')], PastOnly', CacheExplained',
           NEW m \in Merchants, NEW value \in 0..100, logged' \in 0..MaxEvents,
           served' = {[merchant |-> m, at |-> now, age |-> 0, score |-> <<value, 1>>]}
    PROVE  TrustInv'
<1> DEFINE answer == [merchant |-> m, at |-> now, age |-> 0, score |-> <<value, 1>>]
<1>1. answer \in Scores!Answer' /\ served' = {answer}
  <2>1. Scores!Answer' = [merchant: Merchants, at: Nat, age: Int, score: (0..100) \X {1}]
    BY DEF Scores!Answer
  <2>2. value \in 0..100 /\ now \in Nat /\ m \in Merchants
    OBVIOUS
  <2>3. <<value, 1>> \in (0..100) \X {1}
    BY ONLY <2>2
  <2>4. answer \in [merchant: Merchants, at: Nat, age: Int, score: (0..100) \X {1}]
    BY ONLY <2>2, <2>3 DEF answer
  <2> QED BY <2>1, <2>4
<1> HIDE DEF answer
<1>2. Scores!TrustTypeOK'
  <2>1. served' \subseteq Scores!Answer' /\ Scores!Cardinality(served') <= 1
    BY <1>1, OneAnswer
  <2>2. \A k \in Merchants : log'[k] \in Seq(EventRow')
    OBVIOUS
  <2> QED BY <2>1, <2>2 DEF TrustInv, Scores!TrustTypeOK, EventRow
<1>3. Scores!ServedScoreIsCurrent'
  BY DEF Scores!ServedScoreIsCurrent
<1> QED BY <1>2, <1>3 DEF TrustInv

\* The total of a merchant's weights is whole.
LEMMA TotalOfRows ==
    ASSUME NEW h, h \in Seq(Scores!RepositoryEvent)
    PROVE  Scores!TotalWeight(h) \in Int
<1>1. \A row \in Scores!RepositoryEvent : row.weight \in Int
  BY RegulationAssumption DEF Scores!TrustAssumption, Scores!RepositoryEvent
<1> QED BY <1>1, TotalType

\* An update of the repository's score,
LEMMA UpdateStep ==
    ASSUME TrustInv, now \in Nat, now' = now, NEW m \in Merchants, NEW weight \in Weights,
           Scores!UpdateScore(m, weight)
    PROVE  TrustInv'
<1> DEFINE event == [weight |-> weight, at |-> now]
           value == Scores!RepositoryScore(Scores!TotalWeight(log'[m]), 0)
<1>1. /\ shape = "repository" /\ log' = [log EXCEPT ![m] = Append(@, event)]
      /\ served' = {[merchant |-> m, at |-> now, age |-> 0, score |-> <<value, 1>>]}
      /\ UNCHANGED <<shape, scores>> /\ logged' \in 0..MaxEvents
  BY CountedEvent DEF Scores!UpdateScore, Scores!Record
<1>2. event \in EventRow /\ event.at = now
  BY <1>1 DEF EventRow, Scores!RepositoryEvent
<1> HIDE DEF event
<1>3. log' \in [Merchants -> Seq(EventRow')] /\ PastOnly' /\ CacheExplained'
  BY <1>1, <1>2, Appended
<1>4. log'[m] \in Seq(Scores!RepositoryEvent)
  BY <1>1, <1>3 DEF EventRow
<1>5. Scores!TotalWeight(log'[m]) \in Int
  BY <1>4, TotalOfRows
<1>6. value \in 0..100
  BY <1>5, RepositoryScoreType
<1> HIDE DEF value
<1> QED BY <1>1, <1>3, <1>6, RepositoryAnswers

\* and its reading.
LEMMA ReadStep ==
    ASSUME TrustInv, now \in Nat, now' = now, NEW m \in Merchants, Scores!ReadScore(m)
    PROVE  TrustInv'
<1> DEFINE value == Scores!ScoreRead(log[m])
<1>1. /\ shape = "repository" /\ UNCHANGED <<shape, log, scores, logged>>
      /\ served' = {[merchant |-> m, at |-> now, age |-> 0, score |-> <<value, 1>>]}
  BY DEF Scores!ReadScore
<1>2. log[m] \in Seq(Scores!RepositoryEvent)
  BY <1>1 DEF TrustInv, EventRow
<1>3. value \in 0..100
  <2>1. CASE log[m] = <<>>
    BY <2>1 DEF Scores!ScoreRead
  <2>2. CASE log[m] # <<>>
    <3> DEFINE minutes == now - log[m][Len(log[m])].at
    <3>1. minutes \in Int
      <4>1. Len(log[m]) \in DOMAIN log[m]
        BY <1>2, <2>2
      <4>2. log[m][Len(log[m])].at \in Nat
        BY <4>1, RowsArePast
      <4> QED BY <4>2
    <3>2. Scores!TotalWeight(log[m]) \in Int
      BY <1>2, TotalOfRows
    <3>3. value = Scores!RepositoryScore(Scores!TotalWeight(log[m]), minutes)
      BY <2>2 DEF Scores!ScoreRead
    <3> HIDE DEF minutes, value
    <3> QED BY <3>1, <3>2, <3>3, RepositoryScoreType
  <2> QED BY <2>1, <2>2
<1> HIDE DEF value
<1>4. log' \in [Merchants -> Seq(EventRow')] /\ PastOnly' /\ CacheExplained'
  BY <1>1 DEF TrustInv, PastOnly, CacheExplained, Accounts, EventRow
<1>5. logged' \in 0..MaxEvents
  BY <1>1 DEF TrustInv, Scores!TrustTypeOK
<1> QED BY <1>1, <1>3, <1>4, <1>5, RepositoryAnswers

\* A step of the trust scores keeps their invariant.
LEMMA TrustStep ==
    ASSUME TrustInv, now \in Nat, now' = now, Scores!TrustNext
    PROVE  TrustInv'
<1>1. PICK m \in Merchants :
         \/ \E type \in Scores!EngineEvents : Scores!RecordEvent(m, type, 0)
         \/ \E r \in Ratings : Scores!RecordEvent(m, "review", r)
         \/ Scores!ComputeTrustScore(m) \/ \E a \in Ages : Scores!GetTrustScore(m, a)
         \/ Scores!ReadScore(m) \/ \E w \in Weights : Scores!UpdateScore(m, w)
  BY DEF Scores!TrustNext
<1>2. ASSUME NEW type \in Scores!EngineEvents, Scores!RecordEvent(m, type, 0)
      PROVE  TrustInv'
  BY <1>2, RecordStep
<1>3. ASSUME NEW r \in Ratings, Scores!RecordEvent(m, "review", r)
      PROVE  TrustInv'
  BY <1>3, RecordStep
<1>4. CASE Scores!ComputeTrustScore(m)
  BY <1>4, ComputeStep DEF Scores!ComputeTrustScore
<1>5. ASSUME NEW a \in Ages, Scores!GetTrustScore(m, a)
      PROVE  TrustInv'
  <2> DEFINE age == IF a = 0 THEN 60 ELSE a
  <2>1. /\ age \in Int /\ shape = "engine" /\ Scores!GetScore(m, age)
        /\ UNCHANGED <<shape, log, logged>>
    BY <1>5, RegulationAssumption DEF Scores!TrustAssumption, Scores!GetTrustScore
  <2> HIDE DEF age
  <2>2. CASE m \notin DOMAIN scores \/ Scores!Stale(m, age)
    BY <2>1, <2>2, ComputeStep DEF Scores!GetScore
  <2>3. CASE m \in DOMAIN scores /\ ~Scores!Stale(m, age)
    BY <2>1, <2>3, CachedStep DEF Scores!GetScore
  <2> QED BY <2>2, <2>3
<1>6. CASE Scores!ReadScore(m)
  BY <1>6, ReadStep
<1>7. ASSUME NEW w \in Weights, Scores!UpdateScore(m, w)
      PROVE  TrustInv'
  BY <1>7, UpdateStep
<1> QED BY <1>1, <1>2, <1>3, <1>4, <1>5, <1>6, <1>7

-----------------------------------------------------------------------------
(* The whole                                                                 *)

\* RInv is an invariant of consents and scores on one clock.
LEMMA RegulationInvariance == RegulationSpec => []RInv
<1>1. ASSUME RegulationInit PROVE RInv
  <2>1. DOMAIN consents = {} /\ consents \in [DOMAIN consents -> Consents!Record] /\ verified = {}
    BY <1>1 DEF RegulationInit, Consents!ConsentInit, Consents!EmptyTable, Consents!None
  <2>2. DOMAIN scores = {} /\ scores \in [DOMAIN scores -> [score: Scores!Rational, at: Nat]]
        /\ served = {}
    BY <1>1 DEF RegulationInit, Scores!TrustInit, Scores!EmptyTable, Scores!NoAnswer
  <2>3. Scores!Cardinality({}) = 0 /\ Consents!Cardinality({}) = 0
    BY SameCardinality, FS_EmptySet
  <2>4. ConsentInv
    BY <2>1, <2>3 DEF ConsentInv, Consents!ConsentTypeOK, Consents!ConsentHonoured, Consents!IsTable
  <2>5. /\ log \in [Merchants -> IF shape = "engine" THEN Histories ELSE {<<>>}]
        /\ shape \in {"engine", "repository"} /\ logged = 0 /\ now = 0
    BY <1>1 DEF RegulationInit, Scores!TrustInit
  <2>6. /\ log \in [Merchants -> Seq(EventRow)]
        /\ \A m \in Merchants : \A i \in DOMAIN log[m] : log[m][i].at <= now
    <3>1. \A h \in Histories : /\ h \in Seq(Scores!EngineEvent)
                               /\ \A i \in DOMAIN h : h[i].at = 0
      BY RegulationAssumption DEF Scores!TrustAssumption
    <3>2. CASE shape = "engine"
      <4>1. log \in [Merchants -> Histories] /\ EventRow = Scores!EngineEvent
        BY <2>5, <3>2 DEF EventRow
      <4>2. log \in [Merchants -> Seq(EventRow)]
        BY <3>1, <4>1
      <4>3. \A m \in Merchants : log[m] \in Histories
        BY <4>1
      <4>4. \A m \in Merchants : \A i \in DOMAIN log[m] : log[m][i].at = 0
        BY <3>1, <4>3
      <4> QED BY <2>5, <4>2, <4>4
    <3>3. CASE shape # "engine"
      <4>1. \A m \in Merchants : log[m] = <<>>
        BY <2>5, <3>3
      <4>2. <<>> \in Seq(EventRow) /\ DOMAIN <<>> = {}
        OBVIOUS
      <4>3. log \in [Merchants -> Seq(EventRow)]
        BY <2>5, <3>3, <4>2
      <4> QED BY <4>1, <4>2, <4>3
    <3> QED BY <3>2, <3>3
  <2>7. Scores!TrustTypeOK
    <3>1. logged \in 0..MaxEvents
      BY <2>5, RegulationAssumption DEF Scores!TrustAssumption
    <3> QED BY <2>2, <2>3, <2>5, <2>6, <3>1 DEF Scores!TrustTypeOK, Scores!IsTable, EventRow
  <2>8. PastOnly /\ CacheExplained /\ Scores!ServedScoreIsCurrent
    BY <2>2, <2>6 DEF PastOnly, CacheExplained, Scores!ServedScoreIsCurrent
  <2> QED BY <1>1, <2>4, <2>6, <2>7, <2>8 DEF RInv, TrustInv, RegulationInit
<1>2. ASSUME RInv, [RegulationNext]_regulationVars PROVE RInv'
  <2>1. now \in Times \cup {0} /\ now \in Nat /\ ConsentInv /\ TrustInv
    BY <1>2, TimesAreNumbers DEF RInv
  <2>2. CASE UNCHANGED regulationVars
    BY <2>1, <2>2 DEF regulationVars, RInv, ConsentInv, Consents!ConsentTypeOK,
         Consents!ConsentHonoured, TrustInv, Scores!TrustTypeOK, Scores!ServedScoreIsCurrent,
         Scores!Answer, Scores!Explains, PastOnly, CacheExplained, Accounts, EventRow
  <2>3. ASSUME NEW t \in Times, Tick(t) PROVE RInv'
    <3>1. now' \in Times \cup {0} /\ now' \in Nat /\ now <= now'
      BY <2>1, <2>3, TimesAreNumbers DEF Tick
    <3>2. ConsentInv'
      BY <2>1, <2>3, <3>1, ConsentFrame DEF Tick
    <3>3. TrustInv'
      BY <2>1, <2>3, <3>1, TrustFrame DEF Tick, trusting
    <3> QED BY <3>1, <3>2, <3>3 DEF RInv
  <2>4. CASE HasConsentRecords /\ Consents!ConsentNext /\ served' = {} /\ UNCHANGED now
             /\ UNCHANGED trusting
    <3>1. ConsentInv'
      BY <2>1, <2>4, ConsentStep
    <3>2. TrustInv'
      BY <2>1, <2>4, TrustFrame DEF trusting
    <3> QED BY <2>1, <2>4, <3>1, <3>2 DEF RInv
  <2>5. CASE Scores!TrustNext /\ verified' = {} /\ UNCHANGED <<now, consents>>
    <3>1. ConsentInv'
      BY <2>1, <2>5, ConsentFrame
    <3>2. TrustInv'
      BY <2>1, <2>5, TrustStep
    <3> QED BY <2>1, <2>5, <3>1, <3>2 DEF RInv
  <2> QED BY <1>2, <2>2, <2>3, <2>4, <2>5 DEF RegulationNext
<1> QED BY <1>1, <1>2, PTL DEF RegulationSpec

-----------------------------------------------------------------------------
(* The theorems                                                              *)

\* The tables of consents and of trust scores, and what is answered from them, have
\* their types: of either shape, a score is a fraction or a whole number from 0 to 100.
THEOREM RegulationTypeCorrect == RegulationSpec => []RegulationTypeOK
<1>1. RInv => RegulationTypeOK
  BY DEF RInv, ConsentInv, TrustInv, RegulationTypeOK
<1> QED BY <1>1, RegulationInvariance, PTL

\* A verification rests on a consent in force that was given for its purpose, and the
\* table shows exactly the revocations that happened.
THEOREM ConsentsAreHonoured == RegulationSpec => []ConsentHonoured
<1>1. RInv => ConsentHonoured
  BY DEF RInv, ConsentInv, ConsentHonoured
<1> QED BY <1>1, RegulationInvariance, PTL

\* A score that the engine serves is that of the first events of the merchant, and
\* leaves out only events that are no older than the age its caller takes.
THEOREM ServedScoresAreCurrent == RegulationSpec => []ServedScoreIsCurrent
<1>1. RInv => ServedScoreIsCurrent
  BY DEF RInv, TrustInv, ServedScoreIsCurrent
<1> QED BY <1>1, RegulationInvariance, PTL

\* An event of now leaves the tenure as it is.
LEMMA WithFacts ==
    ASSUME TrustInv, shape = "engine", now \in Nat, NEW m \in Merchants,
           NEW type \in Scores!EngineEvents
    PROVE  /\ Scores!With(log[m], type) = Append(log[m], [type |-> type, rating |-> 0, at |-> now])
           /\ [type |-> type, rating |-> 0, at |-> now] \in Scores!EngineEvent
           /\ Scores!TenureDays(Scores!With(log[m], type), now) = Scores!TenureDays(log[m], now)
<1> DEFINE event == [type |-> type, rating |-> 0, at |-> now]
           h == log[m]
           k == Append(h, event)
<1>1. event \in Scores!EngineEvent /\ event.at = now
  BY DEF Scores!EngineEvent
<1>2. Scores!With(h, type) = k
  BY DEF Scores!With
<1>3. h \in EngineLog
  BY RowsArePast DEF EventRow, EngineLog
<1> HIDE DEF event, h
<1>4. k # <<>> /\ k[Len(h) + 1] = event /\ Len(h) \in Nat /\ \A i \in 1..Len(h) : k[i] = h[i]
  BY <1>1, <1>3, AppendProperties DEF EngineLog
<1> HIDE DEF k
<1>5. CASE h = <<>>
  <2>1. k[1] = event
    BY <1>4, <1>5
  <2>2. Scores!TenureDays(k, now) = (now - now) \div 1440
    BY <1>1, <1>4, <2>1 DEF Scores!TenureDays
  <2>3. now - now = 0 /\ 0 \div 1440 = 0
    OBVIOUS
  <2> QED BY <1>1, <1>2, <1>5, <2>2, <2>3 DEF Scores!TenureDays, event, h, k
<1>6. CASE h # <<>>
  <2>1. 1 \in 1..Len(h)
    BY <1>3, <1>6 DEF EngineLog
  <2>2. k[1] = h[1]
    BY <1>4, <2>1
  <2>3. Scores!TenureDays(k, now) = Scores!TenureDays(h, now)
    BY <1>4, <1>6, <2>2 DEF Scores!TenureDays
  <2> QED BY <1>1, <1>2, <2>3 DEF event, h, k
<1> QED BY <1>5, <1>6

\* The engine's score of any log, whatever its reviews carry, does not rise with disputes
\* and refunds nor fall with payments, deliveries and attestations; it is between 0 and
\* 100 while reviews have one to five stars.
THEOREM IncentivesAreRight == RegulationSpec => []IncentivesRight
<1>1. RInv => IncentivesRight
  <2> SUFFICES ASSUME TrustInv, shape = "engine", now \in Nat, NEW m \in Merchants
               PROVE  /\ Scores!FairlyRated(m) =>
                            /\ Scores!AtMost(<<0, 1>>, Scores!ScoreOf(log[m], now))
                            /\ Scores!AtMost(Scores!ScoreOf(log[m], now), <<100, 1>>)
                      /\ \A type \in {"dispute", "refund"} :
                            Scores!AtMost(Scores!ScoreOf(Scores!With(log[m], type), now),
                                          Scores!ScoreOf(log[m], now))
                      /\ \A type \in {"payment", "delivery", "kyc_attestation"} :
                            Scores!AtMost(Scores!ScoreOf(log[m], now),
                                          Scores!ScoreOf(Scores!With(log[m], type), now))
    BY TimesAreNumbers DEF RInv, IncentivesRight, Scores!IncentivesRight
  <2> DEFINE h == log[m]
             t == Scores!Tally(h)
             days == Scores!TenureDays(h, now)
  <2>1. h \in EngineLog /\ \A i \in DOMAIN h : h[i].at <= now
    BY RowsArePast DEF EventRow, EngineLog
  <2>2. /\ days \in Nat
        /\ Scores!FairlyRated(m) => /\ Scores!AtMost(<<0, 1>>, Scores!ScoreOf(h, now))
                                   /\ Scores!AtMost(Scores!ScoreOf(h, now), <<100, 1>>)
    BY <2>1, ScoreOfFacts DEF Scores!FairlyRated
  <2>3. Tallied(t)
    BY <2>1, TallyFacts
  <2>4. ASSUME NEW type \in Scores!EngineEvents
        PROVE  /\ Scores!ScoreOf(Scores!With(h, type), now)
                     = Scores!Score(Scores!Tally(Scores!With(h, type)), days)
               /\ type \in {"dispute", "refund"} =>
                     OneMore(t, Scores!Tally(Scores!With(h, type)), "disputes")
               /\ type = "payment" => OneMore(t, Scores!Tally(Scores!With(h, type)), "payments")
               /\ type = "delivery" => OneMore(t, Scores!Tally(Scores!With(h, type)), "delivered")
               /\ type = "kyc_attestation" => OneMore(t, Scores!Tally(Scores!With(h, type)), "kyc")
    <3> DEFINE event == [type |-> type, rating |-> 0, at |-> now]
    <3>1. /\ Scores!With(h, type) = Append(h, event) /\ event \in Scores!EngineEvent
          /\ Scores!TenureDays(Scores!With(h, type), now) = days
      BY <2>4, WithFacts
    <3>2. event.type = type /\ type # "review"
      BY DEF Scores!EngineEvents
    <3> HIDE DEF event
    <3> QED BY <2>1, <3>1, <3>2, TallyAppend DEF Scores!ScoreOf
  <2>5. Scores!ScoreOf(h, now) = Scores!Score(t, days)
    BY DEF Scores!ScoreOf
  <2> HIDE DEF h, t, days
  <2>6. ASSUME NEW type \in {"dispute", "refund"}
        PROVE  Scores!AtMost(Scores!ScoreOf(Scores!With(h, type), now), Scores!ScoreOf(h, now))
    <3>1. type \in Scores!EngineEvents
      BY DEF Scores!EngineEvents
    <3> QED BY <2>2, <2>3, <2>4, <2>5, <3>1, ScoreFalls
  <2>7. ASSUME NEW type \in {"payment", "delivery", "kyc_attestation"}
        PROVE  Scores!AtMost(Scores!ScoreOf(h, now), Scores!ScoreOf(Scores!With(h, type), now))
    <3>1. type \in Scores!EngineEvents
      BY DEF Scores!EngineEvents
    <3>2. PICK field \in {"kyc", "payments", "delivered"} :
             OneMore(t, Scores!Tally(Scores!With(h, type)), field)
      BY <2>4, <3>1
    <3> QED BY <2>2, <2>3, <2>4, <2>5, <3>1, <3>2, ScoreRises
  <2> QED BY <2>2, <2>6, <2>7 DEF h
<1> QED BY <1>1, RegulationInvariance, PTL

\* Whatever follows, a sweep for expired records or the next capture, a record that was
\* revoked stays in the table, revoked.
RevokedForGood ==
    \A id \in DOMAIN consents : consents[id].revokedAt # {} =>
        /\ id \in DOMAIN consents'
        /\ consents'[id].revokedAt # {} /\ consents'[id].status = "revoked"

\* No step of any interleaving takes a revocation back.
THEOREM RevocationsLast == RegulationSpec => [][RevokedForGood]_regulationVars
<1>1. RInv /\ RInv' /\ [RegulationNext]_regulationVars => [RevokedForGood]_regulationVars
  <2> SUFFICES ASSUME RInv, RInv', RegulationNext,
                      NEW id \in DOMAIN consents, consents[id].revokedAt # {}
               PROVE  id \in DOMAIN consents' /\ consents'[id].revokedAt # {}
    BY DEF RevokedForGood, RInv, ConsentInv, Consents!ConsentHonoured, Consents!None
  <2>1. CASE UNCHANGED consents
    BY <2>1
  <2>2. CASE Consents!ConsentNext
    <3>1. ASSUME NEW k \in ConsentIds, NEW s \in Subjects, NEW t \in Tenants,
                 NEW r \in Retentions, NEW purposes, Consents!Capture(k, s, t, purposes, r)
          PROVE  id \in DOMAIN consents' /\ consents'[id].revokedAt # {}
      BY <3>1 DEF Consents!Capture, Consents!Set, Consents!Put
    <3>2. ASSUME NEW k \in ConsentIds, Consents!Revoke(k)
          PROVE  id \in DOMAIN consents' /\ consents'[id].revokedAt # {}
      <4>1. consents[k] \in Consents!Record /\ k \in DOMAIN consents
        BY <3>2 DEF RInv, ConsentInv, Consents!ConsentTypeOK, Consents!IsTable, Consents!Revoke
      <4> QED BY <3>2, <4>1 DEF Consents!Revoke, Consents!Set, Consents!Put, Consents!Record
    <3>3. ASSUME NEW s \in Subjects, NEW t \in Tenants, NEW p \in Purposes,
                 Consents!Verify(s, t, p)
          PROVE  UNCHANGED consents
      BY <3>3 DEF Consents!Verify
    <3>4. CASE Consents!ExpireConsents
      <4>1. id \notin Consents!Overdue
        BY DEF Consents!Overdue, RInv, ConsentInv, Consents!ConsentHonoured, Consents!None
      <4> QED BY <3>4, <4>1 DEF Consents!ExpireConsents
    <3> QED BY <2>2, <3>1, <3>2, <3>3, <3>4 DEF Consents!ConsentNext
  <2> QED BY <2>1, <2>2 DEF RegulationNext, Tick
<1> QED BY <1>1, RegulationInvariance, PTL DEF RegulationSpec
=============================================================================
