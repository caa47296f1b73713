------------------------------- MODULE Tenancy -------------------------------
(***************************************************************************)
(* Wallet registration and tenant provisioning: register, login and the    *)
(* login by DID of src/src/controllers/wallet/WalletAuthController.ts,     *)
(* create-tenant and delete of MultiTenancyController.ts, and              *)
(* provisionTenantResources.  A registration is a saga over the tenants of *)
(* the agent, the table tenants, the cache of issuer metadata and the      *)
(* table wallet_users; a call runs to its next await in one step.  All     *)
(* tenants share the public base URL, which is the key of the cache.       *)
(***************************************************************************)
EXTENDS Tables, FiniteSets

CONSTANTS Names, Emails,
          MaxRequests,  \* requests that change something
          MaxNonces     \* login challenges

ASSUME TenancyAssumption ==
    MaxRequests \in Nat \ {0} /\ MaxNonces \in Nat /\ "" \notin Names \cup Emails

VARIABLES agent,        \* the agent's tenants, with the generic records in their wallets
          rows,         \* the table tenants
          users,        \* wallet_users, by user name
          cache,        \* the tenant of the cached issuer metadata, or None
          challenges,   \* login_challenges: whether a nonce is still valid
          sessions,     \* wallets whose owner was given a token for a signature
          calls,        \* the handlers that await
          deleted,      \* the tenants an administrator deleted
          faults,       \* the kinds of failures so far, each at most once
          started, nonces

tables  == <<rows, users, challenges>>
vars    == <<agent, tables, cache, sessions, calls, deleted, faults, started, nonces>>

Ids     == 1..MaxRequests
None    == 0
Types   == {"USER", "ORG"}
Records == {"issuer", "verifier"}
Kinds   == {"tenant", "provision", "cleanup", "user", "crash"}

\* A tenant id is a UUID and a DID is a did:key, so they are never equal.
Did(t)  == MaxRequests + t
Dids    == {Did(t) : t \in Ids}

\* name: the label, empty for a tenant of create-tenant; its e-mail is in no record
\* of the agent.
Tenant   == [type: Types, name: Names \cup {""}, email: Emails \cup {""},
             records: SUBSET Records]
TenantCall == [op: {"register", "create"}, tenant: Ids, type: Types,
               name: Names \cup {""}, email: Emails \cup {""},
               stage: {"tenant", "did", "issuer", "verifier", "close", "cleanup", "user"}]
LoginCall  == [op: {"verify"}, nonce: 1..MaxNonces, did: Dids, signed: BOOLEAN]

TypeOK ==
    /\ IsTable(agent, Ids, Tenant)
    /\ IsTable(rows, Ids, [type: Types])
    /\ IsTable(users, Names, [email: Emails, wallet: Ids])
    /\ IsTable(challenges, 1..MaxNonces, {"valid", "expired"})
    /\ IsTable(calls, 1..started, TenantCall \cup LoginCall)
    /\ cache \in Ids \cup {None} /\ sessions \subseteq Ids
    /\ deleted \subseteq Ids /\ faults \subseteq Kinds
    /\ started \in 0..MaxRequests /\ nonces \in 0..MaxNonces

Init ==
    /\ agent = EmptyTable /\ rows = EmptyTable /\ users = EmptyTable /\ cache = None
    /\ challenges = EmptyTable /\ calls = EmptyTable /\ sessions = {} /\ deleted = {}
    /\ faults = {} /\ started = 0 /\ nonces = 0

-----------------------------------------------------------------------------
Request       == started < MaxRequests /\ started' = started + 1
Begin(call)   == calls' = Put(calls, started + 1, call)
Return(c)     == calls' = Without(calls, {c})
Fault(kind)   == kind \notin faults /\ faults' = faults \cup {kind}
At(c, stages) == c \in DOMAIN calls /\ calls[c].op # "verify" /\ calls[c].stage \in stages
Enter(c, stage) == calls' = Put(calls, c, [calls[c] EXCEPT !.stage = stage])
Registering(c)  == calls[c].op = "register"

TakenEmails  == {users[u].email : u \in DOMAIN users}

\* register looks for the name, and createTenant begins.
Register(name, email, type) ==
    /\ Request
    /\ name \notin DOMAIN users
    /\ Begin([op |-> "register", tenant |-> started + 1, type |-> type, name |-> name,
              email |-> email, stage |-> "tenant"])
    /\ UNCHANGED <<agent, tables, cache, sessions, deleted, faults, nonces>>

CreateTenant(type) ==
    /\ Request
    /\ Begin([op |-> "create", tenant |-> started + 1, type |-> type, name |-> "",
              email |-> "", stage |-> "tenant"])
    /\ UNCHANGED <<agent, tables, cache, sessions, deleted, faults, nonces>>

TenantCreated(c) ==
    /\ At(c, {"tenant"})
    /\ agent' = Put(agent, calls[c].tenant, [type |-> calls[c].type, name |-> calls[c].name,
                                             email |-> calls[c].email, records |-> {}])
    /\ Enter(c, "did")
    /\ UNCHANGED <<tables, cache, sessions, deleted, faults, started, nonces>>

TenantNotCreated(c) ==
    /\ At(c, {"tenant"})
    /\ Fault("tenant")
    /\ Return(c)
    /\ UNCHANGED <<agent, tables, cache, sessions, deleted, started, nonces>>

-----------------------------------------------------------------------------
(* provisionTenantResources, in the wallet of a tenant that exists.          *)

Open(c) == calls[c].tenant \in DOMAIN agent

\* A slip: the metadata are cached before the issuer record is saved.
DidCreated_Cache(c) ==
    /\ At(c, {"did"}) /\ Open(c)
    /\ Enter(c, IF calls[c].type = "USER" THEN "close" ELSE "issuer")
    /\ cache' = IF calls[c].type = "USER" THEN cache ELSE calls[c].tenant
    /\ UNCHANGED <<agent, tables, sessions, deleted, faults, started, nonces>>

\* A user is only a holder.  The models, issuers and verifiers of an organisation
\* are made here too, and what goes wrong with them is only logged.
DidCreated(c) ==
    /\ At(c, {"did"}) /\ Open(c)
    /\ Enter(c, IF calls[c].type = "USER" THEN "close" ELSE "issuer")
    /\ UNCHANGED <<agent, tables, cache, sessions, deleted, faults, started, nonces>>

Save(t, record) == agent' = Put(agent, t, [agent[t] EXCEPT !.records = @ \cup {record}])

IssuerSaved(c) ==
    /\ At(c, {"issuer"}) /\ Open(c)
    /\ Save(calls[c].tenant, "issuer")
    /\ cache' = calls[c].tenant
    /\ Enter(c, "verifier")
    /\ UNCHANGED <<tables, sessions, deleted, faults, started, nonces>>

VerifierSaved(c) ==
    /\ At(c, {"verifier"}) /\ Open(c)
    /\ Save(calls[c].tenant, "verifier")
    /\ Enter(c, "close")
    /\ UNCHANGED <<tables, cache, sessions, deleted, faults, started, nonces>>

\* A slip: only organisations are listed.
Provisioned_OrgOnly(c) ==
    /\ At(c, {"close"})
    /\ rows' = IF calls[c].type = "ORG" THEN Put(rows, calls[c].tenant, [type |-> "ORG"]) ELSE rows
    /\ IF Registering(c) THEN Enter(c, "user") ELSE Return(c)
    /\ UNCHANGED <<agent, users, challenges, cache, sessions, deleted, faults, started, nonces>>

\* The session is closed and upsertTenant writes the row.  create-tenant then
\* makes a token, which changes nothing.
Provisioned(c) ==
    /\ At(c, {"close"})
    /\ rows' = Put(rows, calls[c].tenant, [type |-> calls[c].type])
    /\ IF Registering(c) THEN Enter(c, "user") ELSE Return(c)
    /\ UNCHANGED <<agent, users, challenges, cache, sessions, deleted, faults, started, nonces>>

\* A step fails, by itself or because the tenant has been deleted.
StepFails(c) ==
    /\ At(c, {"did", "issuer", "verifier", "close"})
    /\ IF Open(c) THEN Fault("provision") ELSE UNCHANGED faults

\* A slip: register without the catch.
ProvisioningFails_NoCleanup(c) ==
    /\ StepFails(c)
    /\ Return(c)
    /\ UNCHANGED <<agent, tables, cache, sessions, deleted, started, nonces>>

ProvisioningFails(c) ==
    /\ StepFails(c)
    /\ IF Registering(c) THEN Enter(c, "cleanup") ELSE Return(c)
    /\ UNCHANGED <<agent, tables, cache, sessions, deleted, started, nonces>>

\* The catch of register: deleteTenantById, which may throw.
CleanedUp(c) ==
    /\ At(c, {"cleanup"}) /\ Open(c)
    /\ agent' = Without(agent, {calls[c].tenant})
    /\ Return(c)
    /\ UNCHANGED <<tables, cache, sessions, deleted, faults, started, nonces>>

CleanupFails(c) ==
    /\ At(c, {"cleanup"})
    /\ IF Open(c) THEN Fault("cleanup") ELSE UNCHANGED faults
    /\ Return(c)
    /\ UNCHANGED <<agent, tables, cache, sessions, deleted, started, nonces>>

-----------------------------------------------------------------------------
(* The end of register: the platform's DID, then createWalletUser, whose     *)
(* table has unique names, e-mails and wallets.                              *)

UserCreated(c) ==
    /\ At(c, {"user"})
    /\ calls[c].name \notin DOMAIN users /\ calls[c].email \notin TakenEmails
    /\ users' = Put(users, calls[c].name, [email |-> calls[c].email, wallet |-> calls[c].tenant])
    /\ Return(c)
    /\ UNCHANGED <<agent, rows, challenges, cache, sessions, deleted, faults, started, nonces>>

UserRefused(c) ==
    /\ At(c, {"user"})
    /\ IF calls[c].name \in DOMAIN users \/ calls[c].email \in TakenEmails
       THEN UNCHANGED faults ELSE Fault("user")
    /\ Return(c)
    /\ UNCHANGED <<agent, tables, cache, sessions, deleted, started, nonces>>

\* DELETE of a tenant, by an administrator.
DeleteTenant(t) ==
    /\ Request
    /\ t \in DOMAIN agent
    /\ agent' = Without(agent, {t})
    /\ deleted' = deleted \cup {t}
    /\ UNCHANGED <<tables, cache, sessions, calls, faults, nonces>>

-----------------------------------------------------------------------------
(* login-challenge and login-verify                                          *)

LoginChallenge ==
    /\ nonces < MaxNonces /\ nonces' = nonces + 1
    /\ challenges' = Put(Without(challenges, {n \in DOMAIN challenges : challenges[n] = "expired"}),
                         nonces + 1, "valid")
    /\ UNCHANGED <<agent, rows, users, cache, sessions, calls, deleted, faults, started>>

\* Five minutes pass.
Expire(n) ==
    /\ n \in DOMAIN challenges /\ challenges[n] = "valid"
    /\ challenges' = Put(challenges, n, "expired")
    /\ UNCHANGED <<agent, rows, users, cache, sessions, calls, deleted, faults, started, nonces>>

\* An expired nonce is deleted; otherwise the DID is resolved and the signature
\* verified while others run.
LoginVerify(n, did, signed) ==
    /\ Request
    /\ n \in DOMAIN challenges
    /\ IF challenges[n] = "expired"
       THEN challenges' = Without(challenges, {n}) /\ UNCHANGED calls
       ELSE /\ Begin([op |-> "verify", nonce |-> n, did |-> did, signed |-> signed])
            /\ UNCHANGED challenges
    /\ UNCHANGED <<agent, rows, users, cache, sessions, deleted, faults, nonces>>

\* getWalletUserByWalletId.
Found(walletId) == {u \in DOMAIN users : users[u].wallet = walletId}

\* The signature is wrong, no user is found, or the user gets a token.
LoginVerified(c) ==
    /\ c \in DOMAIN calls /\ calls[c].op = "verify"
    /\ LET found == IF calls[c].signed THEN Found(calls[c].did) ELSE {}
       IN /\ sessions' = sessions \cup {users[u].wallet : u \in found}
          /\ challenges' = IF found = {} THEN challenges ELSE Without(challenges, {calls[c].nonce})
    /\ Return(c)
    /\ UNCHANGED <<agent, rows, users, cache, deleted, faults, started, nonces>>

\* The process dies, and what is in memory with it.
Crash ==
    /\ Fault("crash")
    /\ calls' = EmptyTable /\ cache' = None
    /\ UNCHANGED <<agent, tables, sessions, deleted, started, nonces>>

Provision(c) ==
    \/ TenantCreated(c) \/ TenantNotCreated(c) \/ DidCreated(c) \/ IssuerSaved(c)
    \/ VerifierSaved(c) \/ Provisioned(c) \/ ProvisioningFails(c)
    \/ CleanedUp(c) \/ CleanupFails(c) \/ UserCreated(c) \/ UserRefused(c)

Next ==
    \/ \E name \in Names, email \in Emails, type \in Types : Register(name, email, type)
    \/ \E type \in Types : CreateTenant(type)
    \/ \E t \in DOMAIN agent : DeleteTenant(t)
    \/ \E c \in DOMAIN calls : Provision(c) \/ LoginVerified(c)
    \/ LoginChallenge
    \/ \E n \in DOMAIN challenges :
          \/ Expire(n)
          \/ \E t \in DOMAIN agent, signed \in BOOLEAN : LoginVerify(n, Did(t), signed)
    \/ Crash

Spec == Init /\ [][Next]_vars

-----------------------------------------------------------------------------
InProgress(t) == \E c \in DOMAIN calls : calls[c].op # "verify" /\ calls[c].tenant = t

\* Who is registered can log in (login opens the user's tenant, getSession and the
\* wallet endpoints find the user by it): the wallet is the tenant made for that
\* name, it is provisioned, it is nobody else's, and only an administrator takes it
\* away; also when registrations of a name or an e-mail overlap and steps fail.
UsersHaveWallets ==
    \A u \in DOMAIN users :
        LET t == users[u].wallet
        IN /\ t \in DOMAIN rows
           /\ t \in DOMAIN agent \/ t \in deleted
           /\ t \in DOMAIN agent => agent[t].name = u
           /\ \A v \in DOMAIN users : users[v].wallet = t => v = u

\* What is announced of an organisation, by the endpoints that read its row or by
\* the cache, has been saved in its wallet before, if that still exists.
AnnouncedIsSaved ==
    /\ \A t \in DOMAIN rows \cap DOMAIN agent : rows[t].type = "ORG" => agent[t].records = Records
    /\ cache \in DOMAIN agent => "issuer" \in agent[cache].records

\* "Cleanup if provisioning fails": a registration that was refused before its
\* tenant had a row leaves no tenant, unless the cleanup fails or the process dies.
RefusedLeavesNothing ==
    {"cleanup", "crash"} \cap faults = {} =>
        \A t \in DOMAIN agent : agent[t].name # "" /\ ~InProgress(t) => t \in DOMAIN rows

\* "Verify signed nonce and authenticate user by DID": whose tenant has the DID that
\* signed gets a token.
DidLogsIn ==
    [][\A c \in DOMAIN calls : LoginVerified(c) /\ calls[c].signed =>
          \A u \in DOMAIN users : Did(users[u].wallet) = calls[c].did
              => users[u].wallet \in sessions']_vars
==============================================================================
