--------------------------- MODULE TenancyProofs ---------------------------
(***************************************************************************)
(* What holds of Tenancy for every number of names, e-mail addresses,      *)
(* requests and challenges: its type invariant, that every user has a      *)
(* wallet of their own, that what is announced of an organisation has been *)
(* saved, and that a refused registration leaves nothing behind.           *)
(***************************************************************************)
EXTENDS Tenancy, TLAPS

-----------------------------------------------------------------------------
(* Tables *)

\* Put keeps a table a table.
LEMMA PutType ==
    ASSUME NEW Keys, NEW Rows, NEW table, IsTable(table, Keys, Rows),
           NEW key \in Keys, NEW row \in Rows
    PROVE  IsTable(Put(table, key, row), Keys, Rows)
BY DEF IsTable, Put

\* Without keeps a table a table.
LEMMA WithoutType ==
    ASSUME NEW Keys, NEW Rows, NEW table, IsTable(table, Keys, Rows), NEW keys
    PROVE  IsTable(Without(table, keys), Keys, Rows)
BY DEF IsTable, Without

\* A table may be empty.
LEMMA EmptyType ==
    ASSUME NEW Keys, NEW Rows
    PROVE  IsTable(EmptyTable, Keys, Rows) /\ DOMAIN EmptyTable = {}
BY DEF IsTable, EmptyTable

-----------------------------------------------------------------------------
(* The inductive invariant *)

TenantCalls == {c \in DOMAIN calls : calls[c].op # "verify"}

\* What a running registration or provisioning may rely on: the id is its own,
\* its tenant is as it made it unless it is deleted, and nobody owns it yet.
Owns(c) ==
    /\ calls[c].tenant = c
    /\ IF Registering(c) THEN calls[c].name \in Names /\ calls[c].email \in Emails
       ELSE calls[c].name = "" /\ calls[c].stage \notin {"cleanup", "user"}
    /\ \A u \in DOMAIN users : users[u].wallet # c
    /\ IF calls[c].stage = "tenant"
       THEN c \notin DOMAIN agent /\ c \notin DOMAIN rows /\ c # cache
       ELSE /\ c \in DOMAIN agent \/ c \in deleted
            /\ c \in DOMAIN agent => agent[c].name = calls[c].name
    /\ calls[c].stage = "user" => c \in DOMAIN rows

\* How far its records are.
Saved(c) ==
    c \in DOMAIN agent =>
        /\ calls[c].stage = "verifier" => "issuer" \in agent[c].records
        /\ calls[c].stage = "close" /\ calls[c].type = "ORG" => agent[c].records = Records

Running == \A c \in TenantCalls : Owns(c)
Saving  == \A c \in TenantCalls : Saved(c)

\* Ids are those of past requests.
PastIds ==
    /\ DOMAIN agent \subseteq 1..started /\ DOMAIN rows \subseteq 1..started
    /\ cache \in 0..started
    /\ \A u \in DOMAIN users : users[u].wallet \in 1..started

IInv == /\ TypeOK /\ PastIds /\ Running /\ Saving
        /\ UsersHaveWallets /\ AnnouncedIsSaved /\ RefusedLeavesNothing

-----------------------------------------------------------------------------
(* Types *)

\* The rows of a table of its type are rows.
LEMMA TenancyRows ==
    ASSUME TypeOK
    PROVE  /\ \A t \in DOMAIN agent : t \in Ids /\ agent[t] \in Tenant
           /\ \A t \in DOMAIN rows : t \in Ids /\ rows[t] \in [type: Types]
           /\ \A u \in DOMAIN users : u \in Names /\ users[u] \in [email: Emails, wallet: Ids]
           /\ \A c \in DOMAIN calls : c \in 1..started /\ calls[c] \in TenantCall \cup LoginCall
BY DEF TypeOK, IsTable

\* A call that is not a login is a call for a tenant.
LEMMA TenantCallType ==
    ASSUME TypeOK, NEW c \in DOMAIN calls
    PROVE  /\ calls[c].op # "verify" => calls[c] \in TenantCall
           /\ calls[c].op = "verify" => calls[c] \in LoginCall
BY TenancyRows DEF TenantCall, LoginCall

\* A call keeps its type when it enters a stage.
LEMMA EnterType ==
    ASSUME TypeOK, NEW c \in DOMAIN calls, calls[c].op # "verify",
           NEW stage \in {"tenant", "did", "issuer", "verifier", "close", "cleanup", "user"},
           Enter(c, stage)
    PROVE  IsTable(calls', 1..started, TenantCall \cup LoginCall)
<1>1. [calls[c] EXCEPT !.stage = stage] \in TenantCall
  BY TenantCallType DEF TenantCall
<1>2. IsTable(calls, 1..started, TenantCall \cup LoginCall) /\ c \in 1..started
  BY TenancyRows DEF TypeOK
<1> QED BY <1>1, <1>2, PutType DEF Enter

\* A call that returns leaves a table of calls.
LEMMA ReturnType ==
    ASSUME TypeOK, NEW c, Return(c)
    PROVE  IsTable(calls', 1..started, TenantCall \cup LoginCall)
BY WithoutType DEF TypeOK, Return

\* A request is counted.
LEMMA RequestType ==
    ASSUME TypeOK, Request
    PROVE  /\ started \in Nat /\ started' = started + 1 /\ started' \in 0..MaxRequests
           /\ started' \in Ids /\ started <= started'
<1>1. started \in 0..MaxRequests /\ MaxRequests \in Nat
  BY TenancyAssumption DEF TypeOK
<1> QED BY <1>1 DEF Request, Ids

\* A request that begins a call counts it.
LEMMA BeginType ==
    ASSUME TypeOK, NEW call \in TenantCall \cup LoginCall, Request, Begin(call)
    PROVE  /\ started' \in 0..MaxRequests
           /\ IsTable(calls', 1..started', TenantCall \cup LoginCall)
<1>1. started \in Nat /\ started' = started + 1 /\ started' \in 0..MaxRequests
  <2>1. started \in 0..MaxRequests /\ MaxRequests \in Nat
    BY TenancyAssumption DEF TypeOK
  <2> QED BY <2>1 DEF Request
<1>2. started + 1 \in 1..started'
  BY <1>1
<1>3. IsTable(calls, 1..started', TenantCall \cup LoginCall)
  BY <1>1 DEF TypeOK, IsTable
<1> QED BY <1>1, <1>2, <1>3, PutType DEF Begin

\* Every step keeps the types.
LEMMA TenancyTypeStep ==
    ASSUME TypeOK, Running, [Next]_vars
    PROVE  TypeOK'
<1> USE TenancyRows
<1>1. ASSUME NEW name \in Names, NEW email \in Emails, NEW type \in Types,
             Register(name, email, type)
      PROVE  TypeOK'
  <2>1. [op |-> "register", tenant |-> started + 1, type |-> type, name |-> name,
         email |-> email, stage |-> "tenant"] \in TenantCall
    BY <1>1, RequestType DEF Register, TenantCall
  <2> QED BY <1>1, <2>1, BeginType DEF Register, TypeOK, tables
<1>2. ASSUME NEW type \in Types, CreateTenant(type) PROVE TypeOK'
  <2>1. [op |-> "create", tenant |-> started + 1, type |-> type, name |-> "",
         email |-> "", stage |-> "tenant"] \in TenantCall
    BY <1>2, RequestType DEF CreateTenant, TenantCall
  <2> QED BY <1>2, <2>1, BeginType DEF CreateTenant, TypeOK, tables
<1>3. ASSUME NEW t \in DOMAIN agent, DeleteTenant(t) PROVE TypeOK'
  <2>1. started' \in 0..MaxRequests /\ started <= started' /\ started \in Nat
    BY <1>3, RequestType DEF DeleteTenant
  <2>2. IsTable(calls, 1..started', TenantCall \cup LoginCall)
    BY <2>1 DEF TypeOK, IsTable
  <2> QED BY <1>3, <2>1, <2>2, WithoutType DEF DeleteTenant, TypeOK, tables
<1>4. ASSUME NEW c \in DOMAIN calls, calls[c].op # "verify", Provision(c) PROVE TypeOK'
  <2>0. /\ calls[c] \in TenantCall /\ c \in Ids
        /\ calls[c].tenant = c /\ calls[c].tenant \in Ids
        /\ Registering(c) => calls[c].name \in Names /\ calls[c].email \in Emails
    <3>1. calls[c] \in TenantCall /\ c \in Ids
      <4>1. c \in 1..started /\ started \in 0..MaxRequests /\ MaxRequests \in Nat
        BY TenancyAssumption DEF TypeOK
      <4> QED BY <1>4, <4>1, TenantCallType DEF Ids
    <3> QED BY <1>4, <3>1 DEF Running, TenantCalls, Owns, TenantCall
  <2>1. CASE TenantCreated(c)
    <3>1. [type |-> calls[c].type, name |-> calls[c].name, email |-> calls[c].email,
           records |-> {}] \in Tenant
      BY <2>0 DEF TenantCall, Tenant
    <3> QED BY <1>4, <2>0, <2>1, <3>1, EnterType, PutType DEF TenantCreated, TypeOK, tables
  <2>2. CASE TenantNotCreated(c)
    BY <2>2, ReturnType DEF TenantNotCreated, TypeOK, tables, Fault, Kinds
  <2>3. CASE DidCreated(c)
    BY <1>4, <2>3, EnterType DEF DidCreated, TypeOK, tables
  <2>4. CASE IssuerSaved(c)
    <3>1. [agent[c] EXCEPT !.records = @ \cup {"issuer"}] \in Tenant
      BY <2>0, <2>4 DEF IssuerSaved, Open, Tenant, Records
    <3>2. IsTable(agent', Ids, Tenant)
      BY <2>0, <2>4, <3>1, PutType DEF IssuerSaved, Save, TypeOK
    <3> QED BY <1>4, <2>0, <2>4, <3>2, EnterType DEF IssuerSaved, TypeOK, tables
  <2>5. CASE VerifierSaved(c)
    <3>1. [agent[c] EXCEPT !.records = @ \cup {"verifier"}] \in Tenant
      BY <2>0, <2>5 DEF VerifierSaved, Open, Tenant, Records
    <3>2. IsTable(agent', Ids, Tenant)
      BY <2>0, <2>5, <3>1, PutType DEF VerifierSaved, Save, TypeOK
    <3> QED BY <1>4, <2>0, <2>5, <3>2, EnterType DEF VerifierSaved, TypeOK, tables
  <2>6. CASE Provisioned(c)
    <3>1. [type |-> calls[c].type] \in [type: Types]
      BY <2>0 DEF TenantCall
    <3>2. IsTable(rows', Ids, [type: Types])
      BY <2>0, <2>6, <3>1, PutType DEF Provisioned, TypeOK
    <3>3. IsTable(calls', 1..started, TenantCall \cup LoginCall)
      BY <1>4, <2>6, EnterType, ReturnType DEF Provisioned
    <3> QED BY <2>6, <3>2, <3>3 DEF Provisioned, TypeOK
  <2>7. CASE ProvisioningFails(c)
    <3>1. IsTable(calls', 1..started, TenantCall \cup LoginCall)
      BY <1>4, <2>7, EnterType, ReturnType DEF ProvisioningFails
    <3>2. faults' \subseteq Kinds
      BY <2>7 DEF ProvisioningFails, StepFails, Fault, Kinds, TypeOK
    <3> QED BY <2>7, <3>1, <3>2 DEF ProvisioningFails, TypeOK, tables
  <2>8. CASE CleanedUp(c)
    BY <2>8, ReturnType, WithoutType DEF CleanedUp, TypeOK, tables
  <2>9. CASE CleanupFails(c)
    <3>1. faults' \subseteq Kinds
      BY <2>9 DEF CleanupFails, Fault, Kinds, TypeOK
    <3> QED BY <2>9, <3>1, ReturnType DEF CleanupFails, TypeOK, tables
  <2>10. CASE UserCreated(c)
    <3>1. Registering(c)
      BY <1>4, <2>10 DEF UserCreated, At, Running, TenantCalls, Owns
    <3>2. [email |-> calls[c].email, wallet |-> calls[c].tenant] \in [email: Emails, wallet: Ids]
      BY <2>0, <3>1
    <3>3. IsTable(users', Names, [email: Emails, wallet: Ids])
      BY <2>0, <2>10, <3>1, <3>2, PutType DEF UserCreated, TypeOK
    <3> QED BY <2>10, <3>3, ReturnType DEF UserCreated, TypeOK
  <2>11. CASE UserRefused(c)
    <3>1. faults' \subseteq Kinds
      BY <2>11 DEF UserRefused, Fault, Kinds, TypeOK
    <3> QED BY <2>11, <3>1, ReturnType DEF UserRefused, TypeOK, tables
  <2> QED
    BY <1>4, <2>1, <2>2, <2>3, <2>4, <2>5, <2>6, <2>7, <2>8, <2>9, <2>10, <2>11 DEF Provision
<1>5. ASSUME NEW c \in DOMAIN calls, LoginVerified(c) PROVE TypeOK'
  <2>1. IsTable(challenges', 1..MaxNonces, {"valid", "expired"})
    BY <1>5, WithoutType DEF LoginVerified, TypeOK
  <2>2. sessions' \subseteq Ids
    BY <1>5 DEF LoginVerified, Found, TypeOK
  <2> QED BY <1>5, <2>1, <2>2, ReturnType DEF LoginVerified, TypeOK
<1>6. CASE LoginChallenge
  <2>1. nonces' \in 0..MaxNonces /\ nonces + 1 \in 1..MaxNonces
    <3>1. nonces \in 0..MaxNonces /\ MaxNonces \in Nat
      BY TenancyAssumption DEF TypeOK
    <3> QED BY <1>6, <3>1 DEF LoginChallenge
  <2>2. IsTable(Without(challenges, {n \in DOMAIN challenges : challenges[n] = "expired"}),
                1..MaxNonces, {"valid", "expired"})
    BY WithoutType DEF TypeOK
  <2>3. IsTable(challenges', 1..MaxNonces, {"valid", "expired"})
    BY <1>6, <2>1, <2>2, PutType DEF LoginChallenge
  <2> QED BY <1>6, <2>1, <2>3 DEF LoginChallenge, TypeOK
<1>7. ASSUME NEW n \in DOMAIN challenges, Expire(n) PROVE TypeOK'
  <2>1. n \in 1..MaxNonces
    BY DEF TypeOK, IsTable
  <2> QED BY <1>7, <2>1, PutType DEF Expire, TypeOK
<1>8. ASSUME NEW n \in DOMAIN challenges, NEW t \in DOMAIN agent, NEW signed \in BOOLEAN,
             LoginVerify(n, Did(t), signed)
      PROVE  TypeOK'
  <2>1. n \in 1..MaxNonces /\ t \in Ids /\ Did(t) \in Dids
    BY DEF TypeOK, IsTable, Dids
  <2>2. started \in Nat /\ started' \in 0..MaxRequests /\ started <= started'
    BY <1>8, RequestType DEF LoginVerify
  <2>3. CASE challenges[n] = "expired"
    <3>1. IsTable(calls', 1..started', TenantCall \cup LoginCall)
      BY <1>8, <2>2, <2>3 DEF LoginVerify, TypeOK, IsTable
    <3>2. IsTable(challenges', 1..MaxNonces, {"valid", "expired"})
      BY <1>8, <2>3, WithoutType DEF LoginVerify, TypeOK
    <3> QED BY <1>8, <2>2, <3>1, <3>2 DEF LoginVerify, TypeOK
  <2>4. CASE challenges[n] # "expired"
    <3>1. [op |-> "verify", nonce |-> n, did |-> Did(t), signed |-> signed] \in LoginCall
      BY <2>1 DEF LoginCall
    <3>2. IsTable(calls', 1..started', TenantCall \cup LoginCall)
      BY <1>8, <2>4, <3>1, BeginType DEF LoginVerify
    <3> QED BY <1>8, <2>2, <2>4, <3>2 DEF LoginVerify, TypeOK
  <2> QED BY <2>3, <2>4
<1>9. CASE Crash
  <2>1. IsTable(calls', 1..started, TenantCall \cup LoginCall)
    BY <1>9, EmptyType DEF Crash
  <2> QED BY <1>9, <2>1 DEF Crash, Fault, Kinds, TypeOK, tables, None
<1>10. CASE UNCHANGED vars
  BY <1>10 DEF vars, tables, TypeOK
<1>11. ASSUME NEW c \in DOMAIN calls, Provision(c) PROVE calls[c].op # "verify"
  BY <1>11 DEF Provision, At, TenantCreated, TenantNotCreated, DidCreated, IssuerSaved,
     VerifierSaved, Provisioned, ProvisioningFails, StepFails, CleanedUp, CleanupFails,
     UserCreated, UserRefused
<1> QED
  BY <1>1, <1>2, <1>3, <1>4, <1>5, <1>6, <1>7, <1>8, <1>9, <1>10, <1>11 DEF Next

-----------------------------------------------------------------------------
(* What the steps of a running call write                                    *)

\* A call of a tenant handler is at one of its steps only.
LEMMA OwnCall ==
    ASSUME TypeOK, Running, NEW c \in DOMAIN calls, Provision(c)
    PROVE  /\ c \in TenantCalls /\ calls[c].tenant = c /\ calls[c] \in TenantCall
           /\ Owns(c)
<1>1. calls[c].op # "verify"
  BY DEF Provision, At, TenantCreated, TenantNotCreated, DidCreated, IssuerSaved,
     VerifierSaved, Provisioned, ProvisioningFails, StepFails, CleanedUp, CleanupFails,
     UserCreated, UserRefused
<1> QED BY <1>1, TenantCallType DEF TenantCalls, Running, Owns

\* It writes under its own id only: other calls, other tenants and their rows, and
\* the users of other wallets stay as they are.
OthersStay(c) ==
    /\ DOMAIN calls' \subseteq DOMAIN calls
    /\ \A d \in DOMAIN calls' : d # c => calls'[d] = calls[d]
    /\ DOMAIN agent \subseteq DOMAIN agent' \cup {c} /\ DOMAIN agent' \subseteq DOMAIN agent \cup {c}
    /\ \A t \in DOMAIN agent : t # c => agent'[t] = agent[t]
    /\ DOMAIN rows \subseteq DOMAIN rows' /\ DOMAIN rows' \subseteq DOMAIN rows \cup {c}
    /\ \A t \in DOMAIN rows : t # c => rows'[t] = rows[t]
    /\ cache' \in {cache, c}
    /\ DOMAIN users \subseteq DOMAIN users'
    /\ \A u \in DOMAIN users' :
          users'[u].wallet = c \/ (u \in DOMAIN users /\ users'[u] = users[u])
    /\ \A u \in DOMAIN users : users'[u] = users[u]
    /\ deleted' = deleted /\ started' = started

LEMMA ProvisionWritesOwn ==
    ASSUME TypeOK, Running, NEW c \in DOMAIN calls, Provision(c)
    PROVE  OthersStay(c)
<1> USE OwnCall DEF OthersStay
<1>1. CASE TenantCreated(c)
  BY <1>1 DEF TenantCreated, Enter, Put, tables
<1>2. CASE TenantNotCreated(c)
  BY <1>2 DEF TenantNotCreated, Return, Without, tables
<1>3. CASE DidCreated(c)
  BY <1>3 DEF DidCreated, Enter, Put, tables
<1>4. CASE IssuerSaved(c)
  BY <1>4 DEF IssuerSaved, Enter, Put, Save, tables
<1>5. CASE VerifierSaved(c)
  BY <1>5 DEF VerifierSaved, Enter, Put, Save, tables
<1>6. CASE Provisioned(c)
  BY <1>6 DEF Provisioned, Enter, Return, Put, Without, tables
<1>7. CASE ProvisioningFails(c)
  BY <1>7 DEF ProvisioningFails, Enter, Return, Put, Without, tables
<1>8. CASE CleanedUp(c)
  BY <1>8 DEF CleanedUp, Return, Without, tables
<1>9. CASE CleanupFails(c)
  BY <1>9 DEF CleanupFails, Return, Without, tables
<1>10. CASE UserCreated(c)
  BY <1>10 DEF UserCreated, Return, Put, Without, tables
<1>11. CASE UserRefused(c)
  BY <1>11 DEF UserRefused, Return, Without, tables
<1> QED
  BY <1>1, <1>2, <1>3, <1>4, <1>5, <1>6, <1>7, <1>8, <1>9, <1>10, <1>11 DEF Provision

-----------------------------------------------------------------------------
(* Every step keeps the parts of the invariant                               *)

\* A call that does not take the step keeps what it relies on.
LEMMA OthersKeep ==
    ASSUME TypeOK, Running, Saving, NEW c \in DOMAIN calls, Provision(c),
           NEW d \in TenantCalls', d # c
    PROVE  Owns(d)' /\ Saved(d)'
<1>1. OthersStay(c)
  BY ProvisionWritesOwn
<1>2. d \in TenantCalls /\ calls'[d] = calls[d]
  BY <1>1 DEF TenantCalls, OthersStay
<1>3. Owns(d) /\ Saved(d)
  BY <1>2 DEF Running, Saving
<1>4. \A u \in DOMAIN users' : users'[u].wallet # d
  BY <1>1, <1>3 DEF OthersStay, Owns
<1>5. /\ d \in DOMAIN agent' <=> d \in DOMAIN agent
      /\ d \in DOMAIN agent => agent'[d] = agent[d]
      /\ d \in DOMAIN rows' <=> d \in DOMAIN rows
      /\ d # cache => d # cache'
      /\ deleted' = deleted
  BY <1>1 DEF OthersStay
<1>6. Owns(d)'
  BY <1>2, <1>3, <1>4, <1>5 DEF Owns, Registering
<1>7. Saved(d)'
  BY <1>2, <1>3, <1>5 DEF Saved
<1> QED BY <1>6, <1>7

\* A call that enters a stage is the same call otherwise.
LEMMA Entered ==
    ASSUME TypeOK, NEW c \in TenantCalls, NEW stage, Enter(c, stage)
    PROVE  /\ c \in DOMAIN calls' /\ calls'[c].stage = stage
           /\ calls'[c].op = calls[c].op /\ calls'[c].tenant = calls[c].tenant
           /\ calls'[c].type = calls[c].type
           /\ calls'[c].name = calls[c].name /\ calls'[c].email = calls[c].email
<1>1. c \in DOMAIN calls /\ calls[c] \in TenantCall
  BY TenantCallType DEF TenantCalls
<1>2. calls'[c] = [calls[c] EXCEPT !.stage = stage] /\ c \in DOMAIN calls'
  BY <1>1 DEF Enter, Put
<1> QED BY <1>1, <1>2 DEF TenantCall

\* The tenant after a record was saved.
LEMMA SavedRecord ==
    ASSUME TypeOK, NEW c \in DOMAIN agent, NEW record, Save(c, record)
    PROVE  /\ DOMAIN agent' = DOMAIN agent /\ agent'[c].name = agent[c].name
           /\ agent'[c].type = agent[c].type
           /\ agent'[c].records = agent[c].records \cup {record}
           /\ \A t \in DOMAIN agent : t # c => agent'[t] = agent[t]
<1>1. agent[c] \in Tenant
  BY TenancyRows
<1>2. /\ DOMAIN agent' = DOMAIN agent
      /\ agent'[c] = [agent[c] EXCEPT !.records = @ \cup {record}]
      /\ \A t \in DOMAIN agent : t # c => agent'[t] = agent[t]
  BY DEF Save, Put
<1> QED BY <1>1, <1>2 DEF Tenant

\* What is left to show of a call that enters a stage.
LEMMA EnterOwns ==
    ASSUME TypeOK, NEW c \in TenantCalls, NEW stage, Enter(c, stage), Owns(c),
           stage # "tenant", UNCHANGED <<users, deleted>>,
           stage \in {"cleanup", "user"} => Registering(c),
           stage = "user" => c \in DOMAIN rows',
           c \in DOMAIN agent' \/ c \in deleted,
           c \in DOMAIN agent' => agent'[c].name = calls[c].name
    PROVE  Owns(c)'
<1>1. /\ calls'[c].stage = stage /\ calls'[c].op = calls[c].op
      /\ calls'[c].tenant = calls[c].tenant
      /\ calls'[c].name = calls[c].name /\ calls'[c].email = calls[c].email
  BY Entered
<1>2. IF Registering(c)' THEN calls'[c].name \in Names /\ calls'[c].email \in Emails
      ELSE calls'[c].name = "" /\ calls'[c].stage \notin {"cleanup", "user"}
  BY <1>1 DEF Owns, Registering
<1>3. calls'[c].tenant = c /\ \A u \in DOMAIN users' : users'[u].wallet # c
  BY <1>1 DEF Owns
<1>4. calls'[c].stage # "tenant"
      /\ (calls'[c].stage = "user" => c \in DOMAIN rows')
  BY <1>1
<1>5. /\ c \in DOMAIN agent' \/ c \in deleted'
      /\ c \in DOMAIN agent' => agent'[c].name = calls'[c].name
  BY <1>1
<1> QED BY <1>2, <1>3, <1>4, <1>5 DEF Owns

\* Nor does the call that takes the step lose what it relies on, if it goes on.
LEMMA OwnKeeps ==
    ASSUME TypeOK, Running, Saving, NEW c \in DOMAIN calls, Provision(c),
           c \in DOMAIN calls'
    PROVE  Owns(c)' /\ Saved(c)'
<1>1. /\ Owns(c) /\ Saved(c) /\ c \in TenantCalls /\ calls[c].tenant = c
      /\ calls[c] \in TenantCall
  BY OwnCall DEF Saving
<1>2. CASE TenantCreated(c)
  <2>1. Enter(c, "did") /\ UNCHANGED <<users, deleted>>
    BY <1>2 DEF TenantCreated, tables
  <2>2. agent' = Put(agent, c, [type |-> calls[c].type, name |-> calls[c].name,
                                email |-> calls[c].email, records |-> {}])
    BY <1>1, <1>2 DEF TenantCreated
  <2>3. c \in DOMAIN agent' /\ agent'[c].name = calls[c].name
    BY <2>2 DEF Put
  <2>4. calls'[c].stage = "did"
    BY <1>1, <2>1, Entered
  <2> QED BY <1>1, <2>1, <2>3, <2>4, EnterOwns DEF Saved
<1>3. CASE DidCreated(c)
  <2>1. UNCHANGED <<users, deleted, agent, rows>> /\ c \in DOMAIN agent
        /\ calls[c].stage = "did"
    BY <1>1, <1>3 DEF DidCreated, tables, Open, At
  <2>2. agent[c].name = calls[c].name
    BY <1>1, <2>1 DEF Owns
  <2>3. CASE calls[c].type = "USER"
    <3>1. Enter(c, "close")
      BY <1>3, <2>3 DEF DidCreated
    <3>2. calls'[c].stage = "close" /\ calls'[c].type = "USER"
      BY <1>1, <2>3, <3>1, Entered
    <3> QED BY <1>1, <2>1, <2>2, <3>1, <3>2, EnterOwns DEF Saved
  <2>4. CASE calls[c].type # "USER"
    <3>1. Enter(c, "issuer")
      BY <1>3, <2>4 DEF DidCreated
    <3>2. calls'[c].stage = "issuer"
      BY <1>1, <3>1, Entered
    <3> QED BY <1>1, <2>1, <2>2, <3>1, <3>2, EnterOwns DEF Saved
  <2> QED BY <2>3, <2>4
<1>4. CASE IssuerSaved(c)
  <2>1. /\ UNCHANGED <<users, deleted>> /\ Enter(c, "verifier") /\ Save(c, "issuer")
        /\ c \in DOMAIN agent /\ calls[c].stage = "issuer"
    BY <1>1, <1>4 DEF IssuerSaved, tables, Open, At
  <2>2. agent[c].name = calls[c].name
    BY <1>1, <2>1 DEF Owns
  <2>3. /\ agent'[c].name = agent[c].name /\ c \in DOMAIN agent'
        /\ "issuer" \in agent'[c].records
    BY <2>1, SavedRecord
  <2>4. calls'[c].stage = "verifier"
    BY <1>1, <2>1, Entered
  <2> QED BY <1>1, <2>1, <2>2, <2>3, <2>4, EnterOwns DEF Saved
<1>5. CASE VerifierSaved(c)
  <2>1. /\ UNCHANGED <<users, deleted>> /\ Enter(c, "close") /\ Save(c, "verifier")
        /\ c \in DOMAIN agent /\ calls[c].stage = "verifier"
    BY <1>1, <1>5 DEF VerifierSaved, tables, Open, At
  <2>2. agent[c].name = calls[c].name /\ "issuer" \in agent[c].records
        /\ agent[c].records \subseteq Records
    BY <1>1, <2>1, TenancyRows DEF Owns, Saved, Tenant
  <2>3. /\ agent'[c].name = agent[c].name /\ c \in DOMAIN agent'
        /\ agent'[c].records = Records
    BY <2>1, <2>2, SavedRecord DEF Records
  <2>4. calls'[c].stage = "close"
    BY <1>1, <2>1, Entered
  <2> QED BY <1>1, <2>1, <2>2, <2>3, <2>4, EnterOwns DEF Saved
<1>6. CASE Provisioned(c)
  <2>1. /\ UNCHANGED <<users, deleted, agent>> /\ calls[c].stage = "close"
        /\ rows' = Put(rows, c, [type |-> calls[c].type])
    BY <1>1, <1>6 DEF Provisioned, At
  <2>2. Registering(c) /\ Enter(c, "user")
    BY <1>6 DEF Provisioned, Return, Without
  <2>3. c \in DOMAIN rows'
    BY <2>1 DEF Put
  <2>4. calls'[c].stage = "user"
    BY <1>1, <2>2, Entered
  <2>5. (c \in DOMAIN agent \/ c \in deleted)
        /\ (c \in DOMAIN agent => agent[c].name = calls[c].name)
    BY <1>1, <2>1 DEF Owns
  <2> QED BY <1>1, <2>1, <2>2, <2>3, <2>4, <2>5, EnterOwns DEF Saved
<1>7. CASE ProvisioningFails(c)
  <2>1. /\ UNCHANGED <<users, deleted, agent>> /\ calls[c].stage # "tenant"
    BY <1>7 DEF ProvisioningFails, StepFails, At, tables
  <2>2. Registering(c) /\ Enter(c, "cleanup")
    BY <1>7 DEF ProvisioningFails, Return, Without
  <2>3. calls'[c].stage = "cleanup"
    BY <1>1, <2>2, Entered
  <2>4. (c \in DOMAIN agent \/ c \in deleted)
        /\ (c \in DOMAIN agent => agent[c].name = calls[c].name)
    BY <1>1, <2>1 DEF Owns
  <2> QED BY <1>1, <2>1, <2>2, <2>3, <2>4, EnterOwns DEF Saved
<1>8. CASE \/ TenantNotCreated(c) \/ CleanedUp(c) \/ CleanupFails(c)
           \/ UserCreated(c) \/ UserRefused(c)
  BY <1>8 DEF TenantNotCreated, CleanedUp, CleanupFails, UserCreated, UserRefused,
              Return, Without
<1> QED
  BY <1>2, <1>3, <1>4, <1>5, <1>6, <1>7, <1>8 DEF Provision

-----------------------------------------------------------------------------
(* The invariant after the step of a call                                    *)

\* The calls of other tenants, and the one that goes on, keep what they rely on.
LEMMA ProvisionKeepsCalls ==
    ASSUME IInv, NEW c \in DOMAIN calls, Provision(c)
    PROVE  Running' /\ Saving'
<1>1. ASSUME NEW d \in TenantCalls' PROVE Owns(d)' /\ Saved(d)'
  <2>1. CASE d = c
    BY <1>1, <2>1, OwnKeeps DEF IInv, TenantCalls
  <2>2. CASE d # c
    BY <1>1, <2>2, OthersKeep DEF IInv
  <2> QED BY <2>1, <2>2
<1> QED BY <1>1 DEF Running, Saving

\* Ids stay ids of past requests.
LEMMA ProvisionKeepsIds ==
    ASSUME IInv, NEW c \in DOMAIN calls, Provision(c)
    PROVE  PastIds'
<1>1. OthersStay(c) /\ c \in 1..started
  BY ProvisionWritesOwn, TenancyRows DEF IInv
<1>2. started' = started /\ c \in 0..started
  BY <1>1 DEF OthersStay, IInv, TypeOK
<1> QED BY <1>1, <1>2 DEF OthersStay, PastIds, IInv

\* Only UserCreated gives a wallet away, and it is provisioned then; no step of a
\* call takes one away.
LEMMA ProvisionKeepsWallets ==
    ASSUME IInv, NEW c \in DOMAIN calls, Provision(c)
    PROVE  UsersHaveWallets'
<1>1. OthersStay(c) /\ Owns(c)
  BY ProvisionWritesOwn, OwnCall DEF IInv
<1>2. \A u \in DOMAIN users : users[u].wallet # c
  BY <1>1 DEF Owns
<1>3. ASSUME NEW u \in DOMAIN users
      PROVE  /\ users[u].wallet \in DOMAIN rows'
             /\ users[u].wallet \in DOMAIN agent' \/ users[u].wallet \in deleted'
             /\ users[u].wallet \in DOMAIN agent' => agent'[users[u].wallet].name = u
             /\ \A v \in DOMAIN users : users[v].wallet = users[u].wallet => v = u
  BY <1>1, <1>2, <1>3 DEF OthersStay, IInv, UsersHaveWallets
<1>4. CASE UserCreated(c)
  <2>1. /\ users' = Put(users, calls[c].name, [email |-> calls[c].email, wallet |-> c])
        /\ UNCHANGED <<agent, rows, deleted>> /\ calls[c].stage = "user"
        /\ calls[c].name \notin DOMAIN users
    BY <1>4, OwnCall DEF UserCreated, At, IInv
  <2>2. /\ DOMAIN users' = DOMAIN users \cup {calls[c].name}
        /\ users'[calls[c].name].wallet = c
        /\ \A u \in DOMAIN users : users'[u] = users[u]
    BY <2>1 DEF Put
  <2>3. /\ c \in DOMAIN rows /\ (c \in DOMAIN agent \/ c \in deleted)
        /\ c \in DOMAIN agent => agent[c].name = calls[c].name
    BY <1>1, <2>1 DEF Owns
  <2> QED BY <1>2, <1>3, <2>1, <2>2, <2>3 DEF UsersHaveWallets
<1>5. CASE ~UserCreated(c)
  <2>1. users' = users
    BY <1>5 DEF Provision, TenantCreated, TenantNotCreated, DidCreated, IssuerSaved,
       VerifierSaved, Provisioned, ProvisioningFails, CleanedUp, CleanupFails, UserRefused, tables
  <2> QED BY <1>3, <2>1 DEF UsersHaveWallets
<1> QED BY <1>4, <1>5

\* Records are only added to, a row is written when they are complete, and the
\* metadata are cached when the issuer is saved.
LEMMA ProvisionKeepsAnnounced ==
    ASSUME IInv, NEW c \in DOMAIN calls, Provision(c)
    PROVE  AnnouncedIsSaved'
<1>1. OthersStay(c) /\ Owns(c) /\ Saved(c) /\ calls[c].tenant = c
  BY ProvisionWritesOwn, OwnCall DEF IInv, Saving
<1>2. ASSUME NEW t \in DOMAIN rows' \cap DOMAIN agent', rows'[t].type = "ORG", t # c
      PROVE  agent'[t].records = Records
  BY <1>1, <1>2 DEF OthersStay, IInv, AnnouncedIsSaved
<1>3. ASSUME cache' \in DOMAIN agent', cache' # c PROVE "issuer" \in agent'[cache'].records
  BY <1>1, <1>3 DEF OthersStay, IInv, AnnouncedIsSaved
<1>4. /\ c \in DOMAIN rows' \cap DOMAIN agent' /\ rows'[c].type = "ORG"
         => agent'[c].records = Records
      /\ c \in DOMAIN agent' /\ cache' = c => "issuer" \in agent'[c].records
  <2>1. CASE TenantCreated(c)
    <3>1. c \notin DOMAIN rows' /\ cache' # c
      BY <1>1, <2>1 DEF TenantCreated, Owns, At, tables
    <3> QED BY <3>1
  <2>2. CASE IssuerSaved(c) \/ VerifierSaved(c)
    <3>1. PICK record \in Records : Save(c, record) /\ (IssuerSaved(c) => record = "issuer")
                                    /\ c \in DOMAIN agent /\ rows' = rows
                                    /\ (~IssuerSaved(c) => cache' = cache)
      BY <1>1, <2>2 DEF IssuerSaved, VerifierSaved, At, Records, Open, tables
    <3>2. /\ agent'[c].records = agent[c].records \cup {record}
          /\ agent[c].records \subseteq Records
      BY <3>1, SavedRecord, TenancyRows DEF IInv, Tenant
    <3>3. c \in DOMAIN rows /\ rows[c].type = "ORG" => agent[c].records = Records
      BY <3>1 DEF IInv, AnnouncedIsSaved
    <3>4. cache = c => "issuer" \in agent[c].records
      BY <3>1 DEF IInv, AnnouncedIsSaved
    <3> QED BY <3>1, <3>2, <3>3, <3>4
  <2>3. CASE Provisioned(c)
    <3>1. /\ agent' = agent /\ cache' = cache /\ calls[c].stage = "close"
          /\ rows' = Put(rows, c, [type |-> calls[c].type])
      BY <1>1, <2>3 DEF Provisioned, At
    <3>2. rows'[c].type = calls[c].type
      BY <3>1 DEF Put
    <3> QED BY <1>1, <3>1, <3>2 DEF Saved, IInv, AnnouncedIsSaved
  <2>4. CASE CleanedUp(c)
    BY <1>1, <2>4 DEF CleanedUp, Without
  <2>5. CASE \/ TenantNotCreated(c) \/ DidCreated(c) \/ ProvisioningFails(c)
             \/ CleanupFails(c) \/ UserCreated(c) \/ UserRefused(c)
    <3>1. agent' = agent /\ rows' = rows /\ cache' = cache
      BY <2>5 DEF TenantNotCreated, DidCreated, ProvisioningFails, CleanupFails,
                  UserCreated, UserRefused, tables
    <3> QED BY <3>1 DEF IInv, AnnouncedIsSaved
  <2> QED BY <2>1, <2>2, <2>3, <2>4, <2>5 DEF Provision
<1> QED BY <1>2, <1>3, <1>4 DEF AnnouncedIsSaved

\* A call leaves its tenant behind only with a row, without a name, or after the
\* cleanup failed.
LEMMA ProvisionKeepsRefused ==
    ASSUME IInv, NEW c \in DOMAIN calls, Provision(c)
    PROVE  RefusedLeavesNothing'
<1>1. OthersStay(c) /\ Owns(c) /\ calls[c].tenant = c
  BY ProvisionWritesOwn, OwnCall DEF IInv
<1>2. faults \subseteq faults'
  BY DEF Provision, TenantCreated, TenantNotCreated, DidCreated, IssuerSaved,
     VerifierSaved, Provisioned, ProvisioningFails, StepFails, CleanedUp, CleanupFails,
     UserCreated, UserRefused, Fault
<1> SUFFICES ASSUME {"cleanup", "crash"} \cap faults' = {}, NEW t \in DOMAIN agent',
                    agent'[t].name # "", ~InProgress(t)'
             PROVE  t \in DOMAIN rows'
  BY DEF RefusedLeavesNothing
<1>3. {"cleanup", "crash"} \cap faults = {}
  BY <1>2
<1>4. CASE t # c
  <2>1. t \in DOMAIN agent /\ agent'[t] = agent[t]
    BY <1>1, <1>4 DEF OthersStay
  <2>2. ~InProgress(t)
    <3> SUFFICES ASSUME NEW d \in TenantCalls, calls[d].tenant = t PROVE FALSE
      BY DEF InProgress, TenantCalls
    <3>1. d = t /\ d # c
      BY <1>4 DEF IInv, Running, Owns
    <3>2. d \in DOMAIN calls' /\ calls'[d] = calls[d]
      BY <3>1, OwnCall DEF Provision, TenantCreated, TenantNotCreated, DidCreated,
         IssuerSaved, VerifierSaved, Provisioned, ProvisioningFails, CleanedUp,
         CleanupFails, UserCreated, UserRefused, Enter, Return, Put, Without, TenantCalls
    <3> QED BY <3>2 DEF InProgress, TenantCalls
  <2> QED BY <1>1, <1>3, <2>1, <2>2 DEF IInv, RefusedLeavesNothing, OthersStay
<1>5. CASE t = c
  <2>1. c \notin TenantCalls'
    <3>1. c \in TenantCalls' => Owns(c)'
      BY ProvisionKeepsCalls DEF Running
    <3> QED BY <1>5, <3>1 DEF InProgress, TenantCalls, Owns
  <2>2. c \in DOMAIN agent => agent[c].name = calls[c].name \/ calls[c].stage = "tenant"
    BY <1>1 DEF Owns
  <2>3. ASSUME NEW stage, Enter(c, stage) PROVE FALSE
    <3>1. c \in DOMAIN calls' /\ calls'[c].op = calls[c].op
      BY <2>3, OwnCall, Entered DEF IInv
    <3> QED BY <2>1, <3>1, OwnCall DEF TenantCalls, IInv
  <2>4. CASE TenantCreated(c) \/ DidCreated(c) \/ IssuerSaved(c) \/ VerifierSaved(c)
    BY <2>3, <2>4 DEF TenantCreated, DidCreated, IssuerSaved, VerifierSaved
  <2>5. CASE TenantNotCreated(c)
    BY <1>1, <1>5, <2>5 DEF TenantNotCreated, At, Owns
  <2>6. CASE Provisioned(c)
    BY <1>1, <1>5, <2>6 DEF Provisioned, Put
  <2>7. CASE ProvisioningFails(c)
    <3>1. ~Registering(c) /\ agent' = agent /\ calls[c].stage # "tenant"
      BY <2>3, <2>7 DEF ProvisioningFails, StepFails, At
    <3> QED BY <1>1, <1>5, <2>2, <3>1 DEF Owns
  <2>8. CASE CleanedUp(c)
    BY <1>1, <1>5, <2>8 DEF CleanedUp, Without
  <2>9. CASE CleanupFails(c)
    BY <1>1, <1>5, <2>9 DEF CleanupFails, Open, Fault
  <2>10. CASE UserCreated(c) \/ UserRefused(c)
    BY <1>1, <1>5, <2>10 DEF UserCreated, UserRefused, At, Owns, tables
  <2> QED
    BY <2>4, <2>5, <2>6, <2>7, <2>8, <2>9, <2>10 DEF Provision
<1> QED BY <1>4, <1>5

-----------------------------------------------------------------------------
(* The invariant after any other step                                        *)

\* The next number is a new one.
LEMMA NextNumber ==
    ASSUME NEW n \in Nat
    PROVE  /\ n + 1 \notin 0..n /\ n + 1 \notin 1..n
           /\ 0..n \subseteq 0..(n + 1) /\ 1..n \subseteq 1..(n + 1)
OBVIOUS

\* A call that begins gets an id that nothing has.
LEMMA BeginKeeps ==
    ASSUME IInv, NEW call \in TenantCall, Request, Begin(call),
           UNCHANGED <<agent, rows, users, cache, deleted, faults>>,
           call.tenant = started + 1, call.stage = "tenant", call.op # "verify",
           IF call.op = "register" THEN call.name \in Names /\ call.email \in Emails
           ELSE call.name = ""
    PROVE  /\ PastIds' /\ Running' /\ Saving'
           /\ UsersHaveWallets' /\ AnnouncedIsSaved' /\ RefusedLeavesNothing'
<1> DEFINE id == started + 1
<1>1. started \in Nat /\ started' = id
  BY RequestType DEF IInv
<1>2. id \notin DOMAIN agent /\ id \notin DOMAIN rows /\ id # cache
      /\ \A u \in DOMAIN users : users[u].wallet # id
  <2>1. id \notin 0..started /\ id \notin 1..started
    BY <1>1, NextNumber, Zenon
  <2> QED BY <2>1 DEF IInv, PastIds
<1>3. DOMAIN calls' = DOMAIN calls \cup {id} /\ calls'[id] = call
      /\ \A d \in DOMAIN calls : d # id /\ calls'[d] = calls[d]
  <2>1. id \notin 1..started
    BY <1>1, NextNumber, Zenon
  <2>2. id \notin DOMAIN calls
    BY <2>1, TenancyRows DEF IInv
  <2> QED BY <2>2 DEF Begin, Put
<1>4. PastIds'
  <2>1. 0..started \subseteq 0..started' /\ 1..started \subseteq 1..started'
    BY <1>1, NextNumber, Zenon
  <2> QED BY <2>1 DEF IInv, PastIds
<1>5. ASSUME NEW d \in TenantCalls' PROVE Owns(d)' /\ Saved(d)'
  <2>1. CASE d = id
    BY <1>2, <1>3, <2>1 DEF Owns, Saved, Registering
  <2>2. CASE d # id
    <3>1. d \in TenantCalls /\ calls'[d] = calls[d]
      BY <1>3, <2>2 DEF TenantCalls
    <3>2. Owns(d) /\ Saved(d)
      BY <3>1 DEF IInv, Running, Saving
    <3> QED BY <3>1, <3>2 DEF Owns, Saved, Registering
  <2> QED BY <2>1, <2>2
<1>6. RefusedLeavesNothing'
  <2>1. \A t \in DOMAIN agent : InProgress(t) => InProgress(t)'
    BY <1>3 DEF InProgress
  <2> QED BY <2>1 DEF IInv, RefusedLeavesNothing
<1> QED
  BY <1>4, <1>5, <1>6 DEF IInv, Running, Saving, UsersHaveWallets, AnnouncedIsSaved

\* So do the calls for a login, which own nothing.
LEMMA LoginKeeps ==
    ASSUME IInv, UNCHANGED <<agent, rows, users, cache, deleted, faults>>,
           started' \in {started, started + 1}, TenantCalls' = TenantCalls,
           \A c \in TenantCalls : calls'[c] = calls[c]
    PROVE  /\ PastIds' /\ Running' /\ Saving'
           /\ UsersHaveWallets' /\ AnnouncedIsSaved' /\ RefusedLeavesNothing'
<1>1. started \in Nat
  BY DEF IInv, TypeOK
<1>2. PastIds'
  BY <1>1 DEF IInv, PastIds
<1>3. ASSUME NEW d \in TenantCalls' PROVE Owns(d)' /\ Saved(d)'
  <2>1. Owns(d) /\ Saved(d) /\ calls'[d] = calls[d]
    BY DEF IInv, Running, Saving
  <2> QED BY <2>1 DEF Owns, Saved, Registering
<1>4. \A t : InProgress(t) => InProgress(t)'
  BY DEF InProgress, TenantCalls
<1>5. RefusedLeavesNothing'
  BY <1>4 DEF IInv, RefusedLeavesNothing
<1> QED
  BY <1>2, <1>3, <1>5 DEF IInv, Running, Saving, UsersHaveWallets, AnnouncedIsSaved

\* A deleted tenant is known to be deleted.
LEMMA DeleteKeeps ==
    ASSUME IInv, NEW t \in DOMAIN agent, DeleteTenant(t)
    PROVE  /\ PastIds' /\ Running' /\ Saving'
           /\ UsersHaveWallets' /\ AnnouncedIsSaved' /\ RefusedLeavesNothing'
<1>1. /\ DOMAIN agent' = DOMAIN agent \ {t} /\ \A s \in DOMAIN agent' : agent'[s] = agent[s]
      /\ deleted' = deleted \cup {t}
      /\ UNCHANGED <<rows, users, cache, calls, faults>>
  BY DEF DeleteTenant, Without, tables
<1>2. started \in Nat /\ started' = started + 1
  BY RequestType DEF IInv, DeleteTenant
<1>3. PastIds'
  BY <1>1, <1>2 DEF IInv, PastIds
<1>4. ASSUME NEW d \in TenantCalls' PROVE Owns(d)' /\ Saved(d)'
  <2>1. d \in TenantCalls /\ Owns(d) /\ Saved(d) /\ calls' = calls
    BY <1>1 DEF TenantCalls, IInv, Running, Saving
  <2> QED BY <1>1, <2>1 DEF Owns, Saved, Registering
<1>5. RefusedLeavesNothing'
  BY <1>1 DEF IInv, RefusedLeavesNothing, InProgress
<1>6. UsersHaveWallets'
  BY <1>1 DEF IInv, UsersHaveWallets
<1> QED
  BY <1>1, <1>3, <1>4, <1>5, <1>6 DEF IInv, Running, Saving, AnnouncedIsSaved

\* IInv is an invariant.
LEMMA TenancyInvariance == Spec => []IInv
<1>1. Init => IInv
  <2> SUFFICES ASSUME Init PROVE IInv
    OBVIOUS
  <2>1. started = 0 /\ nonces = 0 /\ cache = 0 /\ faults = {} /\ deleted = {} /\ sessions = {}
    BY DEF Init, None
  <2>2. /\ DOMAIN agent = {} /\ DOMAIN rows = {} /\ DOMAIN users = {} /\ DOMAIN calls = {}
        /\ IsTable(agent, Ids, Tenant) /\ IsTable(rows, Ids, [type: Types])
        /\ IsTable(users, Names, [email: Emails, wallet: Ids])
        /\ IsTable(challenges, 1..MaxNonces, {"valid", "expired"})
        /\ IsTable(calls, 1..started, TenantCall \cup LoginCall)
    BY EmptyType DEF Init
  <2>3. started \in 0..MaxRequests /\ nonces \in 0..MaxNonces
    <3>1. MaxRequests \in Nat /\ MaxNonces \in Nat
      BY TenancyAssumption
    <3> QED BY <2>1, <3>1
  <2>4. TypeOK
    BY <2>1, <2>2, <2>3 DEF TypeOK, None
  <2>5. PastIds /\ Running /\ Saving
    BY <2>1, <2>2 DEF PastIds, Running, Saving, TenantCalls
  <2> QED
    BY <2>1, <2>2, <2>4, <2>5 DEF IInv, UsersHaveWallets, AnnouncedIsSaved, RefusedLeavesNothing
<1>2. IInv /\ [Next]_vars => IInv'
  <2> SUFFICES ASSUME IInv, [Next]_vars PROVE IInv'
    OBVIOUS
  <2>1. TypeOK'
    BY TenancyTypeStep DEF IInv
  <2> DEFINE Rest == /\ PastIds /\ Running /\ Saving
                     /\ UsersHaveWallets /\ AnnouncedIsSaved /\ RefusedLeavesNothing
  <2>2. ASSUME NEW name \in Names, NEW email \in Emails, NEW type \in Types,
               Register(name, email, type)
        PROVE  Rest'
    <3> DEFINE call == [op |-> "register", tenant |-> started + 1, type |-> type,
                        name |-> name, email |-> email, stage |-> "tenant"]
    <3>1. Request /\ Begin(call) /\ UNCHANGED <<agent, rows, users, cache, deleted, faults>>
      BY <2>2 DEF Register, tables
    <3>2. call \in TenantCall
      BY <3>1, RequestType DEF TenantCall, IInv
    <3> QED BY <3>1, <3>2, BeginKeeps
  <2>3. ASSUME NEW type \in Types, CreateTenant(type) PROVE Rest'
    <3> DEFINE call == [op |-> "create", tenant |-> started + 1, type |-> type,
                        name |-> "", email |-> "", stage |-> "tenant"]
    <3>1. Request /\ Begin(call) /\ UNCHANGED <<agent, rows, users, cache, deleted, faults>>
      BY <2>3 DEF CreateTenant, tables
    <3>2. call \in TenantCall
      BY <3>1, RequestType DEF TenantCall, IInv
    <3> QED BY <3>1, <3>2, BeginKeeps
  <2>4. ASSUME NEW t \in DOMAIN agent, DeleteTenant(t) PROVE Rest'
    BY <2>4, DeleteKeeps
  <2>5. ASSUME NEW c \in DOMAIN calls, Provision(c) PROVE Rest'
    BY <2>5, ProvisionKeepsCalls, ProvisionKeepsIds, ProvisionKeepsWallets,
       ProvisionKeepsAnnounced, ProvisionKeepsRefused
  <2>6. ASSUME NEW c \in DOMAIN calls, LoginVerified(c) PROVE Rest'
    <3>1. UNCHANGED <<agent, rows, users, cache, deleted, faults, started>>
          /\ calls[c].op = "verify" /\ calls' = Without(calls, {c})
      BY <2>6 DEF LoginVerified, Return
    <3>2. TenantCalls' = TenantCalls /\ \A d \in TenantCalls : calls'[d] = calls[d]
      BY <3>1 DEF TenantCalls, Without
    <3> QED BY <3>1, <3>2, LoginKeeps
  <2>7. ASSUME NEW n, NEW t \in DOMAIN agent, NEW signed \in BOOLEAN,
               LoginVerify(n, Did(t), signed)
        PROVE  Rest'
    <3>1. UNCHANGED <<agent, rows, users, cache, deleted, faults>> /\ Request
          /\ (calls' = calls \/ Begin([op |-> "verify", nonce |-> n, did |-> Did(t),
                                       signed |-> signed]))
      BY <2>7 DEF LoginVerify
    <3>2. started' = started + 1 /\ started + 1 \notin DOMAIN calls
      BY <3>1, RequestType, TenancyRows DEF IInv
    <3>3. TenantCalls' = TenantCalls /\ \A d \in TenantCalls : calls'[d] = calls[d]
      BY <3>1, <3>2 DEF TenantCalls, Begin, Put
    <3> QED BY <3>1, <3>2, <3>3, LoginKeeps
  <2>8. CASE LoginChallenge \/ (\E n \in DOMAIN challenges : Expire(n)) \/ UNCHANGED vars
    <3>1. UNCHANGED <<agent, rows, users, cache, deleted, faults, started, calls>>
      BY <2>8 DEF LoginChallenge, Expire, vars, tables
    <3>2. TenantCalls' = TenantCalls
      BY <3>1 DEF TenantCalls
    <3>3. Rest'
      BY <3>1, <3>2, LoginKeeps
    <3> QED BY <2>1, <3>3 DEF IInv
  <2>9. CASE Crash
    <3>1. /\ UNCHANGED <<agent, rows, users, deleted, started>> /\ "crash" \in faults'
          /\ DOMAIN calls' = {} /\ cache' = 0
      BY <2>9, EmptyType DEF Crash, Fault, tables, None
    <3>2. PastIds' /\ Running' /\ Saving'
      BY <3>1 DEF PastIds, Running, Saving, TenantCalls, IInv, TypeOK
    <3>3. cache' \notin DOMAIN agent'
      BY <3>1 DEF IInv, PastIds, TypeOK
    <3>4. UsersHaveWallets' /\ AnnouncedIsSaved' /\ RefusedLeavesNothing'
      BY <3>1, <3>3 DEF IInv, UsersHaveWallets, AnnouncedIsSaved, RefusedLeavesNothing
    <3> QED BY <2>1, <3>2, <3>4 DEF IInv
  <2> HIDE DEF Rest
  <2>10. Rest' /\ TypeOK' => IInv'
    BY DEF Rest, IInv
  <2> QED
    BY <2>1, <2>2, <2>3, <2>4, <2>5, <2>6, <2>7, <2>8, <2>9, <2>10 DEF Next
<1> QED BY <1>1, <1>2, PTL DEF Spec

-----------------------------------------------------------------------------
\* The tables, the agent's tenants and the calls in progress have their types.
THEOREM TenancyTypeCorrect == Spec => []TypeOK
<1>1. IInv => TypeOK BY DEF IInv
<1> QED BY <1>1, TenancyInvariance, PTL

\* However registrations overlap and fail, every user's wallet is the tenant that
\* was made for that user, provisioned and nobody else's.
THEOREM EveryUserHasAWallet == Spec => []UsersHaveWallets
<1>1. IInv => UsersHaveWallets BY DEF IInv
<1> QED BY <1>1, TenancyInvariance, PTL

\* What the rows and the cache announce of an organisation has been saved.
THEOREM AnnouncementsAreSaved == Spec => []AnnouncedIsSaved
<1>1. IInv => AnnouncedIsSaved BY DEF IInv
<1> QED BY <1>1, TenancyInvariance, PTL

\* A refused registration leaves no tenant unless its cleanup failed or the process
\* died.
THEOREM RefusalsLeaveNothing == Spec => []RefusedLeavesNothing
<1>1. IInv => RefusedLeavesNothing BY DEF IInv
<1> QED BY <1>1, TenancyInvariance, PTL
=============================================================================
