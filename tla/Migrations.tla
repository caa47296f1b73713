----------------------------- MODULE Migrations -----------------------------
(***************************************************************************)
(* The migration runner of src/src/persistence/DatabaseManager.ts over the *)
(* files of src/migrations, at each start of the server.  It is            *)
(* synchronous; what interleaves with it are crashes, and between starts   *)
(* the other writers of the schema: the wallet repository, which creates a *)
(* table it does not find, and an operator who runs                        *)
(* 015_consent_and_trust.sql, which the runner does not list.              *)
(***************************************************************************)
EXTENDS Naturals, FiniteSetsExt

CONSTANTS MaxFaults     \* statements that fail for no reason of their own

ASSUME MigrationsAssumption == MaxFaults \in Nat

VARIABLES files,     \* listed migration files that are deployed
          applied,   \* versions whose statements are in the database
          recorded,  \* schema_migrations
          wallet,    \* who created wallet_credentials
          trust,     \* whose columns trust_events and trust_scores have
          instance,  \* DatabaseManager.instance is set
          run,       \* the runner: where it is, and currentVersion
          warned,    \* versions it warned about ("Migration file not found")
          refused,   \* versions whose statements threw with no fault
          faults     \* faults so far

vars == <<files, applied, recorded, wallet, trust, instance, run, warned, refused, faults>>

Listed == 1..12

\* The scripts that insert their version; the others are run at every start.
Records(v) == v \in {1, 2, 4}

WalletScript  == 2    \* 002_wallet_auth_tables.sql
ColumnsScript == 4    \* 004_add_credential_columns.sql
TrustScript   == 7    \* 007_create_trust_tables.sql

Idle == [next |-> 0, current |-> 0]

\* A script that records its version is in the database with it, or not at all.
RecordedIffApplied == recorded = {v \in applied : Records(v)}

TypeOK ==
    /\ files \subseteq Listed /\ applied \subseteq Listed /\ recorded \subseteq Listed
    /\ RecordedIffApplied
    /\ wallet \in {"none", "script", "repository"}
    /\ trust \in {"none", "script", "operator"}
    /\ instance \in BOOLEAN
    /\ run \in [next: 0..13, current: 0..12]
    /\ warned \subseteq Listed /\ refused \subseteq Listed
    /\ faults \in 0..MaxFaults

\* An empty database; one file may be missing from the deployment.
Init ==
    /\ files \in {Listed} \cup {Listed \ {v} : v \in Listed}
    /\ applied = {} /\ recorded = {} /\ wallet = "none" /\ trust = "none"
    /\ instance = FALSE /\ run = Idle /\ warned = {} /\ refused = {} /\ faults = 0

-----------------------------------------------------------------------------
(* What the scripts do *)

\* Statements that cannot be run on the database as it is: an index or a column
\* that exists, a table or a column that does not.
Throws(v) ==
    \/ v \in {1, 2} /\ v \in applied
    \/ v = ColumnsScript /\ (wallet # "script" \/ v \in applied)
    \/ v = TrustScript /\ trust = "operator"

\* The cause is in the database before the runner touched it.
Caused(v) ==
    \/ v = ColumnsScript /\ wallet # "script"
    \/ v = TrustScript /\ trust = "operator"

\* The statements of a script, run to the end.
Execute(v) ==
    /\ applied' = applied \cup {v}
    /\ recorded' = IF Records(v) THEN recorded \cup {v} ELSE recorded
    /\ wallet' = IF v = WalletScript /\ wallet = "none" THEN "script" ELSE wallet
    /\ trust' = IF v = TrustScript /\ trust = "none" THEN "script" ELSE trust

-----------------------------------------------------------------------------
(* DatabaseManager *)

\* A slip: how many versions are recorded, not the greatest.
CurrentVersion_Count == Cardinality(recorded)

\* SELECT MAX(version) FROM schema_migrations
CurrentVersion == IF recorded = {} THEN 0 ELSE Max(recorded)

\* initialize sets the instance first.  (When it is set, it is returned.)
Initialize ==
    /\ ~instance
    /\ instance' = TRUE
    /\ run' = [next |-> 1, current |-> CurrentVersion]
    /\ UNCHANGED <<files, applied, recorded, wallet, trust, warned, refused, faults>>

Advance == run' = [run EXCEPT !.next = @ + 1]
Reached(v) == run.next = v /\ v \in Listed

\* if (migration.version > currentVersion)
Skip(v) ==
    /\ Reached(v) /\ v <= run.current
    /\ Advance
    /\ UNCHANGED <<files, applied, recorded, wallet, trust, instance, warned, refused, faults>>

\* Migration file not found: a warning, and on to the next.
Missing(v) ==
    /\ Reached(v) /\ v > run.current /\ v \notin files
    /\ warned' = warned \cup {v}
    /\ Advance
    /\ UNCHANGED <<files, applied, recorded, wallet, trust, instance, refused, faults>>

Apply(v) ==
    /\ Reached(v) /\ v > run.current /\ v \in files /\ ~Throws(v)
    /\ Execute(v)
    /\ Advance
    /\ UNCHANGED <<files, instance, warned, refused, faults>>

\* What a transaction that throws leaves behind: nothing.
LeftBehind(v) == {}

\* How the runner goes on: it rethrows; server.ts logs that and goes on without
\* it, and the instance stays.  A slip: it logs, and tries the next.
AfterFailure_Next == [run EXCEPT !.next = @ + 1]
AfterFailure == Idle

Fail(v, fault) ==
    /\ Reached(v) /\ v > run.current /\ v \in files
    /\ IF fault THEN /\ ~Throws(v) /\ faults < MaxFaults
                     /\ faults' = faults + 1
                     /\ applied' = applied \cup LeftBehind(v)
                     /\ UNCHANGED refused
       ELSE /\ Throws(v)
            /\ refused' = refused \cup (IF Caused(v) THEN {} ELSE {v})
            /\ UNCHANGED <<applied, faults>>
    /\ run' = AfterFailure
    /\ UNCHANGED <<files, recorded, wallet, trust, instance, warned>>

\* 'All migrations applied successfully'
Finished == run.next = 13

-----------------------------------------------------------------------------
(* The server, and who else writes the schema *)

Running == run.next \in Listed

\* The process stops or dies; a transaction that is open is rolled back.
Stop ==
    /\ instance
    /\ instance' = FALSE /\ run' = Idle
    /\ UNCHANGED <<files, applied, recorded, wallet, trust, warned, refused, faults>>

\* ensureDb of the wallet repository: CREATE TABLE IF NOT EXISTS.
UseWallet ==
    /\ instance /\ ~Running /\ wallet = "none"
    /\ wallet' = "repository"
    /\ UNCHANGED <<files, applied, recorded, trust, instance, run, warned, refused, faults>>

RunConsentAndTrust ==
    /\ ~Running /\ trust = "none"
    /\ trust' = "operator"
    /\ UNCHANGED <<files, applied, recorded, wallet, instance, run, warned, refused, faults>>

\* The missing file is deployed after all.
Deploy ==
    /\ ~instance /\ files # Listed
    /\ files' = Listed
    /\ UNCHANGED <<applied, recorded, wallet, trust, instance, run, warned, refused, faults>>

RunnerStep == \E v \in Listed : Skip(v) \/ Missing(v) \/ Apply(v) \/ \E f \in BOOLEAN : Fail(v, f)

Next == Initialize \/ RunnerStep \/ Stop \/ UseWallet \/ RunConsentAndTrust \/ Deploy

Spec == Init /\ [][Next]_vars

-----------------------------------------------------------------------------
(* Properties *)

\* When the runner says that all migrations are applied, then every migration
\* it lists is, except those it once passed with a warning, also if an earlier
\* start failed or died anywhere.
CompleteWhenFinished == Finished => Listed \subseteq applied \cup warned

\* A start after a crash or a failed statement never stumbles over what an
\* earlier start left: the only scripts that are ever refused for good are 004,
\* when 002 did not create the wallet table it alters, and 007, when an operator
\* created the trust tables of 015 before it.
RefusedForCause == refused = {}
=============================================================================
