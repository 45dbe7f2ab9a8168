--------------------------- MODULE ServiceFactory ---------------------------
(***************************************************************************)
(* The cloud factories (modules/cloud-api/factory) and the login refresh   *)
(* (modules/cloud-api/generic/login), as the runner and the integration    *)
(* tests use them.                                                         *)
(*                                                                         *)
(* A process asks NewFactory for the factory of its provider, asks the     *)
(* factory for services, lets them create objects, and finally tears the   *)
(* factory down.  It is one caller, so calls do not overlap; what can      *)
(* happen in between is time (tokens run out) and failure.  A cached       *)
(* service outlives tear-down, and a cached factory the caller.            *)
(*                                                                         *)
(* Only object-storage services track what they create; the TearDown of    *)
(* the others removes nothing.  Only those of Azure have an elevator.      *)
(***************************************************************************)
EXTENDS Naturals, Sequences

CONSTANTS
    Providers,      \* the clouds to look at
    Kinds,          \* service types asked for
    Configs,        \* Privateer services.*.vars
    IdentityKeys,   \* names of test identities, e.g. test-user-read
    Users,          \* values of user-name
    UserOf,         \* the user-name of each test identity of a configuration
    Nobody,         \* no identity, or one that is not configured
    Life,           \* lifetime of a new token
    RefreshSkew,    \* lifetime below which a token counts as running out
    MaxFactories,   \* bound: factories made
    MaxServices     \* bound: services made

ASSUME FactoryAssumption ==
    /\ Providers \subseteq {"aws", "azure", "gcp"}
    /\ UserOf \in [Configs -> [IdentityKeys -> Users \cup {Nobody}]]
    /\ Nobody \notin Users \cup IdentityKeys
    /\ MaxFactories \in Nat /\ MaxServices \in Nat
    /\ RefreshSkew \in Nat /\ Life \in Nat /\ Life > RefreshSkew

VARIABLES
    provider,   \* the cloud under test
    factory,    \* factoryCache[provider], 0 when there is none
    factories,  \* the factories made: config and serviceCache
    services,   \* the services made
    created,    \* services whose list of created objects is not empty
    litter,     \* services whose objects are in the cloud
    open,       \* the configurations whose storage account was opened
    pc,         \* where the caller is
    pending,    \* services its TearDown has still to visit
    life,       \* what is left of the CLI session's token
    federated,  \* AZURE_FEDERATED_TOKEN: unset, valid or expired
    oidc,       \* the process is a GitHub job with OIDC
    keyFile,    \* GOOGLE_APPLICATION_CREDENTIALS is set
    handed,     \* the services the run holds, and what it asked for
    missed,     \* history: services with an object TearDown could not delete
    forgotten,  \* history: ResetFactoryCache or a new process dropped a factory
    renewed     \* history: time since a token was last ensured, and how

cloud == <<provider, litter, open>>
harness == <<factory, factories, services, created>>
caller == <<pc, pending, handed>>
session == <<life, federated, oidc, keyFile, renewed>>
history == <<missed, forgotten>>
vars == <<cloud, harness, caller, session, history>>

Names == Kinds \X (Users \cup {Nobody})

Never == RefreshSkew + 1

Factory == [config : Configs, serviceCache : [Names -> 0..MaxServices]]

Service == [kind : Kinds, factory : 1..MaxFactories, identity : IdentityKeys \cup {Nobody},
            original : {"none", "owner", "open"},
            assertion : BOOLEAN]  \* its credential found AZURE_FEDERATED_TOKEN

Request == [service : 1..MaxServices, kind : Kinds, identity : IdentityKeys \cup {Nobody}]

TypeOK ==
    /\ provider \in Providers
    /\ factories \in Seq(Factory) /\ Len(factories) <= MaxFactories
    /\ factory \in 0..Len(factories)
    /\ services \in Seq(Service) /\ Len(services) <= MaxServices
    /\ created \subseteq litter
    /\ litter \subseteq 1..Len(services)
    /\ open \subseteq Configs
    /\ pc \in {"free", "setup", "testing", "tearing", "dead"}
    /\ pc \in {"setup", "testing", "tearing"} => factory # 0
    /\ pending \subseteq 1..Len(services)
    /\ life \in 0..Life
    /\ federated \in {"unset", "valid", "expired"}
    /\ oidc \in BOOLEAN /\ keyFile \in BOOLEAN
    /\ handed \subseteq Request
    /\ missed \subseteq 1..Len(services)
    /\ forgotten \in BOOLEAN
    /\ renewed \in [age : 0..Never, by : {"nothing", "ensure", "cleanup"}]

Init ==
    /\ provider \in Providers
    /\ factory = 0 /\ factories = <<>> /\ services = <<>>
    /\ created = {} /\ litter = {} /\ open = {}
    /\ pc = "free" /\ pending = {}
    /\ life \in 0..Life
    /\ oidc \in {FALSE, provider = "azure"}
    /\ federated = (IF oidc THEN "valid" ELSE "unset")
    /\ keyFile \in {FALSE, provider = "gcp"}
    /\ handed = {} /\ missed = {} /\ forgotten = FALSE
    /\ renewed = [age |-> Never, by |-> "nothing"]

-----------------------------------------------------------------------------
(* Tokens.  A credential of Azure prefers a federated assertion that it    *)
(* finds in the environment when it is made to the CLI session; it keeps   *)
(* to it, and fails once the assertion has expired.  One that was dropped  *)
(* from the environment may have expired or not: Deletes may fail anyway.  *)

NewCredential == federated # "unset"

Authenticated(assertion) == IF assertion THEN federated # "expired" ELSE life > 0

(* The expiry the CLI reports is fresh enough; known: it reports one. *)
TokenFreshEnough(known) == known /\ life > RefreshSkew

(* A token runs out, a GitHub assertion before the CLI session does. *)
Tick ==
    /\ life' = IF life = 0 THEN 0 ELSE life - 1
    /\ federated' \in {federated, IF federated = "valid" THEN "expired" ELSE federated}
    /\ renewed' = IF renewed.age = Never THEN renewed ELSE [renewed EXCEPT !.age = @ + 1]
    /\ <<life, federated>>' # <<life, federated>>
    /\ UNCHANGED <<cloud, harness, caller, oidc, keyFile, history>>

Renewed(by) == renewed' = [age |-> 0, by |-> by]

(* The login returned an error: what was true of the token before is over. *)
NotRenewed == renewed' = [age |-> Never, by |-> "nothing"]

(* Every step of the exchange may fail.  az login comes before account set, *)
(* the assertion is dropped from the environment at the very end.           *)
RunAzLoginWithFederatedToken(by) ==
    \/ NotRenewed /\ UNCHANGED <<life, federated>>
    \/ life' = Life /\ NotRenewed /\ UNCHANGED federated
    \/ life' = Life /\ federated' = "unset" /\ Renewed(by)

(* az login, then az account set. *)
RunAzLoginInteractive(by) ==
    \/ NotRenewed /\ UNCHANGED <<life, federated>>
    \/ life' = Life /\ NotRenewed /\ UNCHANGED federated
    \/ life' = Life /\ Renewed(by) /\ UNCHANGED federated

RefreshAzureCLI(by) ==
    IF oidc THEN RunAzLoginWithFederatedToken(by) ELSE RunAzLoginInteractive(by)

(* get-access-token fails without a session. *)
AzureTokenOK == TokenFreshEnough(life > 0)

KeepToken(by) == Renewed(by) /\ UNCHANGED <<life, federated>>

(* Mutant: the refresh trusts a fresh CLI session in a GitHub job too. *)
RefreshOnlyStaleSessions ==
    \/ AzureTokenOK /\ KeepToken("cleanup")
    \/ ~AzureTokenOK /\ RefreshAzureCLI("cleanup")

(* Before tear-down the exchange is made even if the CLI session is fresh. *)
RefreshAzureCLIForCleanup ==
    IF oidc THEN RunAzLoginWithFederatedToken("cleanup")
    ELSE \/ AzureTokenOK /\ KeepToken("cleanup")
         \/ ~AzureTokenOK /\ RefreshAzureCLI("cleanup")

AzureEnsureLoginToken ==
    \/ AzureTokenOK /\ KeepToken("ensure")
    \/ ~AzureTokenOK /\ RefreshAzureCLI("ensure")

(* Both the check without a known expiry and the "refresh" only ask who the *)
(* caller is, and the question itself may fail.                             *)
AWSEnsureLoginToken ==
    \/ life > 0 /\ KeepToken("ensure")
    \/ NotRenewed /\ UNCHANGED <<life, federated>>

(* With a key file the account is activated again; without, a token is     *)
(* printed if there is one.  Whether gcloud's token is a JWT is open.       *)
RefreshGCPCLI ==
    \/ keyFile /\ life' = Life /\ Renewed("ensure") /\ UNCHANGED federated
    \/ ~keyFile /\ life > 0 /\ KeepToken("ensure")
    \/ (keyFile \/ life = 0) /\ NotRenewed /\ UNCHANGED <<life, federated>>

GCPEnsureLoginToken ==
    \/ TokenFreshEnough(TRUE) /\ KeepToken("ensure")
    \/ RefreshGCPCLI

(* Whoever ensures a login does so between two runs: the run itself only   *)
(* asks for the refresh at its end.                                        *)
EnsureLoginToken ==
    /\ pc = "free"
    /\ \/ provider = "aws" /\ AWSEnsureLoginToken
       \/ provider = "azure" /\ AzureEnsureLoginToken
       \/ provider = "gcp" /\ GCPEnsureLoginToken
    /\ UNCHANGED <<cloud, harness, caller, oidc, keyFile, history>>

-----------------------------------------------------------------------------
(* NewFactory and the factory cache *)

Cache == factories[factory].serviceCache

Config == factories[factory].config

(* The services a factory keeps. *)
Cached(f) == {factories[f].serviceCache[n] : n \in Names} \ {0}

(* The constructors of the three providers. *)
EmptyFactory(c) == [config |-> c, serviceCache |-> [n \in Names |-> 0]]

NewAWSFactory(c) == provider = "aws" /\ factories' = Append(factories, EmptyFactory(c))

NewAzureFactory(c) == provider = "azure" /\ factories' = Append(factories, EmptyFactory(c))

NewGCPFactory(c) == provider = "gcp" /\ factories' = Append(factories, EmptyFactory(c))

(* A cached factory is returned whatever its configuration is. *)
NewFactory(c) ==
    /\ pc = "free"
    /\ \/ /\ factory # 0
          /\ UNCHANGED <<factory, factories>>
       \/ /\ factory = 0
          /\ Len(factories) < MaxFactories
          /\ NewAWSFactory(c) \/ NewAzureFactory(c) \/ NewGCPFactory(c)
          /\ factory' = Len(factories')
    /\ pc' = "setup"
    /\ UNCHANGED <<cloud, services, created, pending, handed, session, history>>

(* The integration tests do so before and after a case. *)
ResetFactoryCache ==
    /\ pc = "free"
    /\ factory # 0
    /\ factory' = 0
    /\ forgotten' = TRUE
    /\ UNCHANGED <<cloud, factories, services, created, caller, session, missed>>

-----------------------------------------------------------------------------
(* GetServiceAPI and GetServiceAPIWithIdentity.  A constructor that fails  *)
(* and a kind the factory does not know change nothing and have no action. *)

HandOut(s, kind, identity) ==
    handed' = handed \cup {[service |-> s, kind |-> kind, identity |-> identity]}

FromCache(name, kind, identity) ==
    /\ Cache[name] # 0
    /\ HandOut(Cache[name], kind, identity)
    /\ UNCHANGED <<factories, services, open>>

(* What the elevator of a new service finds, if its elevation succeeds: the *)
(* level the owner chose, or the one another elevator set.                  *)
Original == IF Config \in open THEN "open" ELSE "owner"

Construct(kind, identity, original) ==
    /\ Len(services) < MaxServices
    /\ services' = Append(services, [kind |-> kind, factory |-> factory,
                                     identity |-> identity, original |-> original,
                                     assertion |-> NewCredential])
    /\ open' = IF original = "none" THEN open ELSE open \cup {Config}
    /\ HandOut(Len(services'), kind, identity)

Store(name) ==
    factories' = [factories EXCEPT ![factory].serviceCache[name] = Len(services')]

(* Mutant: a new service is made although one is cached under the name. *)
CreateAgain(name, kind, identity) ==
    /\ Construct(kind, identity, "none")
    /\ Store(name)

Create(name, kind, identity) ==
    /\ Cache[name] = 0
    /\ Construct(kind, identity, "none")
    /\ Store(name)

(* The service is cached whether the elevation fails or not. *)
CreateElevated(name, kind, identity) ==
    /\ Cache[name] = 0
    /\ \E original \in {"none", Original} : Construct(kind, identity, original)
    /\ Store(name)

(* The vpc case of AWS returns before the service is cached. *)
CreateUncached(name, kind, identity) ==
    /\ Cache[name] = 0
    /\ Construct(kind, identity, "none")
    /\ UNCHANGED factories

AWSServiceAPI(kind, name) ==
    \/ FromCache(name, kind, Nobody)
    \/ /\ kind \in {"object-storage", "logging", "virtual-machines",
                    "serverless-computing", "secrets"}
       /\ Create(name, kind, Nobody)
    \/ kind = "vpc" /\ CreateUncached(name, kind, Nobody)

(* Mutant: the object-storage case returns early, like the vpc case of AWS. *)
AzureStorageUncached(kind, name) ==
    \/ FromCache(name, kind, Nobody)
    \/ kind = "object-storage" /\ CreateUncached(name, kind, Nobody)

AzureServiceAPI(kind, name) ==
    \/ FromCache(name, kind, Nobody)
    \/ kind = "object-storage" /\ CreateElevated(name, kind, Nobody)
    \/ /\ kind \in {"logging", "virtual-machines", "serverless-computing", "vpc", "secrets"}
       /\ Create(name, kind, Nobody)

GCPServiceAPI(kind, name) ==
    \/ FromCache(name, kind, Nobody)
    \/ /\ kind \in {"object-storage", "logging", "virtual-machines",
                    "serverless-computing", "vpc", "secrets"}
       /\ Create(name, kind, Nobody)

GetServiceAPI(kind) ==
    /\ pc \in {"setup", "testing"}
    /\ LET name == <<kind, Nobody>> IN
           \/ provider = "aws" /\ AWSServiceAPI(kind, name)
           \/ provider = "azure" /\ AzureServiceAPI(kind, name)
           \/ provider = "gcp" /\ GCPServiceAPI(kind, name)
    /\ UNCHANGED <<provider, litter, factory, created, pc, pending, session, history>>

(* config.Identity: the user-name, Nobody when the entry is missing. *)
Identity(identity) == UserOf[Config][identity]

AWSServiceWithIdentity(kind, name, identity) ==
    \/ FromCache(name, kind, identity)
    \/ /\ kind \in {"object-storage", "virtual-machines", "serverless-computing", "secrets"}
       /\ Create(name, kind, identity)

(* Mutant: Azure elevates for an identity too, as the AWS factory asks to. *)
AzureElevatesForIdentity(kind, name, identity) ==
    \/ FromCache(name, kind, identity)
    \/ kind = "object-storage" /\ CreateElevated(name, kind, identity)

(* Azure does not elevate for an identity. *)
AzureServiceWithIdentity(kind, name, identity) ==
    \/ FromCache(name, kind, identity)
    \/ /\ kind \in {"object-storage", "virtual-machines", "serverless-computing",
                    "vpc", "secrets"}
       /\ Create(name, kind, identity)

GCPServiceWithIdentity(kind, name, identity) ==
    \/ FromCache(name, kind, identity)
    \/ /\ kind \in {"object-storage", "virtual-machines", "serverless-computing",
                    "vpc", "secrets"}
       /\ Create(name, kind, identity)

(* Mutant: the identity is left out of the name. *)
NameWithoutIdentity(kind, identity) == <<kind, Nobody>>

(* The name of a service is its kind and the user-name, not the identity. *)
IdentityName(kind, identity) == <<kind, Identity(identity)>>

GetServiceAPIWithIdentity(kind, identity) ==
    /\ pc = "testing"
    /\ Identity(identity) # Nobody
    /\ LET name == IdentityName(kind, identity) IN
           \/ provider = "aws" /\ AWSServiceWithIdentity(kind, name, identity)
           \/ provider = "azure" /\ AzureServiceWithIdentity(kind, name, identity)
           \/ provider = "gcp" /\ GCPServiceWithIdentity(kind, name, identity)
    /\ UNCHANGED <<provider, litter, factory, created, pc, pending, session, history>>

-----------------------------------------------------------------------------
(* The run around the factory *)

BeginTests ==
    /\ pc = "setup"
    /\ pc' = "testing"
    /\ UNCHANGED <<cloud, harness, pending, handed, session, history>>

(* log.Fatalf before the tests start: the deferred TearDown does not run. *)
Fatal ==
    /\ pc = "setup"
    /\ pc' = "dead"
    /\ UNCHANGED <<cloud, harness, pending, handed, session, history>>

(* A new process of the same job.  The CLI session is on disk, and the     *)
(* environment is the one the job started with.                            *)
Restart ==
    /\ pc = "dead"
    /\ pc' = "free"
    /\ factory' = 0
    /\ handed' = {}
    /\ forgotten' = TRUE
    /\ federated' \in IF oidc /\ federated = "unset" THEN {"valid", "expired"} ELSE {federated}
    /\ NotRenewed
    /\ UNCHANGED <<cloud, factories, services, created, pending, life, oidc, keyFile, missed>>

(* A test identity brings its own secret, GCP's default credentials renew  *)
(* themselves; the others depend on the session.                           *)
CanAct(s) ==
    \/ services[s].identity # Nobody
    \/ provider = "gcp"
    \/ provider = "aws" /\ life > 0
    \/ provider = "azure" /\ Authenticated(services[s].assertion)

InHand(s) == \E r \in handed : r.service = s

(* A test step creates an object through a service it was handed. *)
CreateObject(s) ==
    /\ pc = "testing"
    /\ InHand(s)
    /\ services[s].kind = "object-storage"
    /\ CanAct(s)
    /\ created' = created \cup {s}
    /\ litter' = litter \cup {s}
    /\ UNCHANGED <<provider, open, factory, factories, services, caller, session, history>>

Visit(pending1) ==
    /\ pc' = "tearing"
    /\ pending' = pending1
    /\ UNCHANGED <<cloud, harness, handed, oidc, keyFile, history>>

(* The deferred function: on Azure, an error of the refresh is only logged. *)
EndRun ==
    /\ pc = "testing"
    /\ IF provider = "azure" THEN RefreshAzureCLIForCleanup
       ELSE UNCHANGED <<life, federated, renewed>>
    /\ Visit(Cached(factory))

(* The integration tests tear down without a refresh. *)
EndCase ==
    /\ pc = "testing"
    /\ Visit(Cached(factory))
    /\ UNCHANGED <<life, federated, renewed>>

(* The list of created objects is emptied before the first deletion, whose *)
(* error is printed; an object missed by an earlier tear-down stays.       *)
Deletes(s) ==
    \/ CanAct(s) /\ litter' = litter \ ({s} \ missed) /\ UNCHANGED missed
    \/ s \in created /\ missed' = missed \cup {s} /\ UNCHANGED litter

(* Mutant: the list of created objects is not emptied. *)
TearDownKeepsList ==
    /\ pc = "tearing"
    /\ \E s \in pending : pending' = pending \ {s} /\ Deletes(s)
    /\ UNCHANGED <<provider, open, harness, pc, session, handed, forgotten>>

TearDown ==
    /\ pc = "tearing"
    /\ \E s \in pending :
        /\ pending' = pending \ {s}
        /\ created' = created \ {s}
        /\ IF s \in created THEN Deletes(s) ELSE UNCHANGED <<litter, missed>>
    /\ UNCHANGED <<provider, open, factory, factories, services, pc, session,
                   handed, forgotten>>

(* TearDown returns nil, and the services stay in the cache. *)
TearDownReturns ==
    /\ pc = "tearing"
    /\ pending = {}
    /\ pc' = "free"
    /\ handed' = {}
    /\ UNCHANGED <<cloud, harness, pending, session, missed, forgotten>>

Next ==
    \/ Tick
    \/ EnsureLoginToken
    \/ \E c \in Configs : NewFactory(c)
    \/ ResetFactoryCache
    \/ \E k \in Kinds : GetServiceAPI(k)
    \/ \E k \in Kinds, i \in IdentityKeys : GetServiceAPIWithIdentity(k, i)
    \/ BeginTests
    \/ Fatal
    \/ Restart
    \/ \E s \in 1..Len(services) : CreateObject(s)
    \/ EndRun
    \/ EndCase
    \/ TearDown
    \/ TearDownReturns

Spec == Init /\ [][Next]_vars

-----------------------------------------------------------------------------
(* Properties *)

(* A service with objects to remove is in the cache of the one factory a  *)
(* later TearDown will visit, and once TearDown has returned the process  *)
(* left no object behind but those a deletion failed for.  A fatal end,   *)
(* which skips TearDown, comes before any test created something.         *)
TearDownReaches ==
    /\ created # {} => pc \in {"testing", "tearing"}
    /\ \A s \in created : s \in (IF pc = "tearing" THEN pending ELSE Cached(factory))
    /\ litter \subseteq created \cup missed

(* The level an account had before the tests is remembered by an elevator *)
(* of a service that can still be asked for, as long as no factory was    *)
(* dropped; only then does a second elevator take the opened level for    *)
(* the owner's.  Nothing else keeps it.                                   *)
OriginalRemembered ==
    ~forgotten =>
        /\ \A c \in open : \E s \in Cached(factory) :
            factories[services[s].factory].config = c /\ services[s].original = "owner"
        /\ \A s \in 1..Len(services) : services[s].original # "open"

(* A service handed out for a test identity has that identity's           *)
(* credentials, or those of an identity with the same user-name, which    *)
(* asked first; it was made by the factory the run was given, from that   *)
(* factory's configuration.                                               *)
IdentityServed ==
    \A r \in handed :
        LET s == services[r.service] IN
        /\ s.kind = r.kind
        /\ s.factory = factory
        /\ \/ s.identity = r.identity
           \/ /\ Nobody \notin {s.identity, r.identity}
              /\ Identity(s.identity) = Identity(r.identity)

(* After a login returned without an error, the session holds for the     *)
(* refresh skew.  On AWS, and on GCP without a key file, the login only   *)
(* asks whether the session is valid.  After the refresh for clean-up a   *)
(* credential made from then on uses that session, and so do those made   *)
(* when no assertion was in the environment; one that was made with an    *)
(* assertion keeps it.                                                    *)
OnlyAsks == provider = "aws" \/ (provider = "gcp" /\ ~keyFile)

LoginHolds ==
    /\ renewed.age = 0 => life > 0
    /\ renewed.age < Never /\ ~OnlyAsks => life > 0
    /\ renewed.age < Never /\ renewed.by = "cleanup" =>
         \A assertion \in {NewCredential, FALSE} : Authenticated(assertion)

(* The caller's view of the factory implements the promise it relies on. *)
Promise == INSTANCE ServicePromise WITH
    Names <- Names, Services <- 1..MaxServices, None <- 0,
    directory <- IF factory = 0 THEN [n \in Names |-> 0] ELSE factories[factory].serviceCache,
    litter <- litter

KeepsServicePromise == Promise!Spec
=============================================================================
