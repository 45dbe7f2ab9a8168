------------------------ MODULE ServiceFactoryProofs ------------------------
(***************************************************************************)
(* Theorems about ServiceFactory, for any configurations, kinds of service,*)
(* test identities and lifetimes.  Every request for a service, of any     *)
(* provider, with or without an identity, is one kind of step (Asks); the  *)
(* invariants argue about that one.                                        *)
(***************************************************************************)
EXTENDS ServiceFactory, SequenceTheorems, TLAPS

(* The factories made so far. *)
Fids == 1..Len(factories)

(* The services made so far. *)
Sids == 1..Len(services)

(* Who a service may be asked for: a user-name, or nobody. *)
Askers == Users \cup {Nobody}

-----------------------------------------------------------------------------
(* Requests *)

(* A request for a service of a kind, for a test identity or for nobody;   *)
(* user is the second half of the name the service is cached under.        *)
Asks(kind, user, identity) ==
    /\ pc \in {"setup", "testing"}
    /\ user = (IF identity = Nobody THEN Nobody ELSE UserOf[Config][identity])
    /\ identity # Nobody => user # Nobody
    /\ \/ FromCache(<<kind, user>>, kind, identity)
       \/ /\ Cache[<<kind, user>>] = 0
          /\ \E original \in {"none", Original} :
                /\ original # "none" => kind = "object-storage" /\ identity = Nobody
                /\ Construct(kind, identity, original)
          /\ Store(<<kind, user>>)
       \/ kind = "vpc" /\ Construct(kind, identity, "none") /\ UNCHANGED factories
    /\ UNCHANGED <<provider, litter, factory, created, pc, pending, session, history>>

(* GetServiceAPI, whatever the provider. *)
LEMMA PlainRequests ==
    ASSUME TypeOK, NEW kind \in Kinds, GetServiceAPI(kind)
    PROVE  Asks(kind, Nobody, Nobody)
<1> DEFINE name == <<kind, Nobody>>
<1> USE DEF Create, CreateElevated, CreateUncached
<1>1. ASSUME AWSServiceAPI(kind, name) \/ AzureServiceAPI(kind, name) \/ GCPServiceAPI(kind, name)
      PROVE  \/ FromCache(name, kind, Nobody)
             \/ /\ Cache[name] = 0
                /\ \E original \in {"none", Original} :
                      /\ original # "none" => kind = "object-storage"
                      /\ Construct(kind, Nobody, original)
                /\ Store(name)
             \/ kind = "vpc" /\ Construct(kind, Nobody, "none") /\ UNCHANGED factories
  BY <1>1 DEF AWSServiceAPI, AzureServiceAPI, GCPServiceAPI
<1>2. QED
  BY <1>1 DEF GetServiceAPI, Asks

(* GetServiceAPIWithIdentity, whatever the provider. *)
LEMMA IdentityRequests ==
    ASSUME TypeOK, NEW kind \in Kinds, NEW identity \in IdentityKeys,
           GetServiceAPIWithIdentity(kind, identity)
    PROVE  Asks(kind, Identity(identity), identity)
<1> DEFINE name == IdentityName(kind, identity)
<1>1. ASSUME \/ AWSServiceWithIdentity(kind, name, identity)
             \/ AzureServiceWithIdentity(kind, name, identity)
             \/ GCPServiceWithIdentity(kind, name, identity)
      PROVE  \/ FromCache(name, kind, identity)
             \/ Cache[name] = 0 /\ Construct(kind, identity, "none") /\ Store(name)
  BY <1>1 DEF AWSServiceWithIdentity, AzureServiceWithIdentity, GCPServiceWithIdentity, Create
<1>2. identity # Nobody
  BY FactoryAssumption
<1>3. name = <<kind, Identity(identity)>>
  BY DEF IdentityName
<1> HIDE DEF name
<1>4. QED
  BY <1>1, <1>2, <1>3 DEF GetServiceAPIWithIdentity, Asks, Identity, name

(* A request comes from a run, which has a factory, and names a user of its *)
(* configuration.                                                           *)
LEMMA AskTypes ==
    ASSUME TypeOK, NEW kind, NEW user, NEW identity \in IdentityKeys \cup {Nobody},
           Asks(kind, user, identity)
    PROVE  factory \in Fids /\ user \in Askers /\ factories[factory] \in Factory
<1>1. factory \in Fids
  BY DEF Asks, TypeOK, Fids
<1>2. factories[factory] \in Factory
  BY <1>1 DEF TypeOK, Fids
<1>3. Config \in Configs
  BY <1>2 DEF Config, Factory
<1>4. QED
  BY <1>1, <1>2, <1>3, FactoryAssumption DEF Asks, Askers

(* One more service exists. *)
MadeService(kind, identity, original) ==
    LET new == Len(services) + 1 IN
    /\ services' \in Seq(Service) /\ Len(services') = new /\ new \in 1..MaxServices
    /\ Sids' = Sids \cup {new} /\ new \notin Sids
    /\ services'[new] = [kind |-> kind, factory |-> factory,
                         identity |-> identity, original |-> original,
                         assertion |-> NewCredential]
    /\ \A s \in Sids : services'[s] = services[s]
    /\ open' = (IF original = "none" THEN open ELSE open \cup {Config})
    /\ handed' = handed \cup {[service |-> new, kind |-> kind, identity |-> identity]}

(* A constructor that returns makes one well-typed service. *)
LEMMA Constructs ==
    ASSUME TypeOK, NEW kind \in Kinds, NEW identity \in IdentityKeys \cup {Nobody},
           NEW original \in {"none", "owner", "open"}, factory \in Fids,
           Construct(kind, identity, original)
    PROVE  MadeService(kind, identity, original)
<1> DEFINE e == [kind |-> kind, factory |-> factory, identity |-> identity, original |-> original,
                assertion |-> NewCredential]
<1>1. e \in Service
  BY FactoryAssumption DEF Service, TypeOK, Fids, NewCredential
<1>2. services \in Seq(Service) /\ services' = Append(services, e) /\ Len(services) < MaxServices
  BY DEF TypeOK, Construct
<1> HIDE DEF e
<1>3. /\ services' \in Seq(Service) /\ Len(services') = Len(services) + 1
      /\ services'[Len(services) + 1] = e
      /\ \A s \in 1..Len(services) : services'[s] = services[s]
  BY <1>1, <1>2, AppendProperties
<1>4. Len(services) \in Nat /\ Sids = 1..Len(services) /\ Sids' = 1..(Len(services) + 1)
  BY <1>2, <1>3 DEF Sids
<1>5. /\ open' = (IF original = "none" THEN open ELSE open \cup {Config})
      /\ handed' = handed \cup {[service |-> Len(services) + 1, kind |-> kind, identity |-> identity]}
  BY <1>3 DEF Construct, HandOut
<1>6. QED
  BY <1>2, <1>3, <1>4, <1>5, FactoryAssumption DEF MadeService, e

(* The new service is the only change in the caches. *)
Cached1(name, s) ==
    /\ factories' \in Seq(Factory) /\ Len(factories') = Len(factories) /\ Fids' = Fids
    /\ \A f \in Fids : factories'[f].config = factories[f].config
    /\ \A f \in Fids : f # factory => factories'[f] = factories[f]
    /\ factories'[factory].serviceCache = [factories[factory].serviceCache EXCEPT ![name] = s]

(* Writing a service into the cache changes one name of one factory. *)
LEMMA Stores ==
    ASSUME TypeOK, NEW name \in Names, factory \in Fids, NEW s \in 0..MaxServices,
           Store(name), Len(services') = s
    PROVE  Cached1(name, s)
<1> DEFINE F == factories[factory]
           e == [F EXCEPT !.serviceCache[name] = s]
<1>1. F \in Factory
  BY DEF TypeOK, Fids
<1>2. e \in Factory /\ e.config = F.config /\ e.serviceCache = [F.serviceCache EXCEPT ![name] = s]
  BY <1>1 DEF Factory
<1>3. factories' = [factories EXCEPT ![factory] = e]
  BY DEF Store
<1> HIDE DEF e, F
<1>4. factories \in Seq(Factory) /\ factory \in 1..Len(factories)
  BY DEF TypeOK, Fids
<1>5. /\ factories' \in Seq(Factory) /\ Len(factories') = Len(factories)
      /\ \A f \in 1..Len(factories) : factories'[f] = IF f = factory THEN e ELSE factories[f]
  BY <1>2, <1>3, <1>4, ExceptSeq
<1>6. QED
  BY <1>2, <1>4, <1>5 DEF Cached1, Fids, F

(* The three ways a request ends, in terms of single services.             *)
LEMMA AskKinds ==
    ASSUME TypeOK, NEW kind \in Kinds, NEW user, NEW identity \in IdentityKeys \cup {Nobody},
           Asks(kind, user, identity)
    PROVE  \/ FromCache(<<kind, user>>, kind, identity)
           \/ /\ Cache[<<kind, user>>] = 0
              /\ \E original \in {"none", Original} :
                    /\ original # "none" => kind = "object-storage" /\ identity = Nobody
                    /\ MadeService(kind, identity, original)
              /\ Cached1(<<kind, user>>, Len(services) + 1)
           \/ kind = "vpc" /\ MadeService(kind, identity, "none") /\ UNCHANGED factories
<1>1. factory \in Fids /\ user \in Askers
  BY AskTypes
<1>2. <<kind, user>> \in Names
  BY <1>1 DEF Names, Askers
<1>3. Original \in {"none", "owner", "open"}
  BY DEF Original
<1>4. ASSUME NEW original \in {"none", Original}, Construct(kind, identity, original)
      PROVE  MadeService(kind, identity, original)
  BY <1>1, <1>3, <1>4, Constructs
<1>5. ASSUME NEW original \in {"none", Original}, MadeService(kind, identity, original),
             Store(<<kind, user>>)
      PROVE  Cached1(<<kind, user>>, Len(services) + 1)
  <2>1. Len(services') = Len(services) + 1 /\ Len(services) + 1 \in 0..MaxServices
    BY <1>5, FactoryAssumption DEF MadeService
  <2>2. QED
    BY <1>1, <1>2, <1>5, <2>1, Stores
<1>6. QED
  BY <1>4, <1>5 DEF Asks

-----------------------------------------------------------------------------
(* The other kinds of step *)

(* Nothing happens but to the session. *)
SessionStep == UNCHANGED <<cloud, harness, caller, history, oidc, keyFile>>

(* Tear-down begins. *)
TearDownBegins ==
    /\ pc = "testing" /\ pc' = "tearing" /\ pending' = Cached(factory)
    /\ UNCHANGED <<cloud, harness, handed, history, oidc, keyFile>>

(* NewFactory, in terms of single factories. *)
Opens(c) ==
    /\ pc = "free" /\ pc' = "setup"
    /\ \/ factory # 0 /\ UNCHANGED <<factory, factories>>
       \/ /\ factory = 0 /\ factory' = Len(factories) + 1
          /\ factories' \in Seq(Factory) /\ Len(factories') = factory' /\ factory' <= MaxFactories
          /\ Fids' = Fids \cup {factory'} /\ factory' \notin Fids
          /\ factories'[factory'] = EmptyFactory(c)
          /\ \A f \in Fids : factories'[f] = factories[f]
    /\ UNCHANGED <<cloud, services, created, pending, handed, session, history>>

(* NewFactory is such a step, whatever the provider. *)
LEMMA NewFactoryOpens ==
    ASSUME TypeOK, NEW c \in Configs, NewFactory(c)
    PROVE  Opens(c)
<1>1. CASE factory # 0 /\ UNCHANGED <<factory, factories>>
  BY <1>1 DEF NewFactory, Opens
<1>2. CASE /\ factory = 0 /\ Len(factories) < MaxFactories
           /\ factories' = Append(factories, EmptyFactory(c)) /\ factory' = Len(factories')
  <2>1. EmptyFactory(c) \in Factory
    BY FactoryAssumption DEF EmptyFactory, Factory
  <2>2. factories \in Seq(Factory)
    BY DEF TypeOK
  <2>3. /\ factories' \in Seq(Factory) /\ Len(factories') = Len(factories) + 1
        /\ factories'[Len(factories) + 1] = EmptyFactory(c)
        /\ \A f \in 1..Len(factories) : factories'[f] = factories[f]
    BY <1>2, <2>1, <2>2, AppendProperties
  <2>4. Len(factories) \in Nat
    BY <2>2
  <2>5. QED
    BY <1>2, <2>3, <2>4, FactoryAssumption DEF NewFactory, Opens, Fids
<1>3. QED
  BY <1>1, <1>2 DEF NewFactory, NewAWSFactory, NewAzureFactory, NewGCPFactory

(* The kinds of step there are. *)
LEMMA NextKinds ==
    ASSUME TypeOK, [Next]_vars
    PROVE  \/ SessionStep
           \/ \E c \in Configs : Opens(c)
           \/ ResetFactoryCache
           \/ \E kind \in Kinds, identity \in IdentityKeys \cup {Nobody}, user \in Askers :
                Asks(kind, user, identity)
           \/ BeginTests \/ Fatal \/ Restart
           \/ \E s \in Sids : CreateObject(s)
           \/ TearDownBegins
           \/ TearDown \/ TearDownReturns
<1>1. CASE Tick \/ EnsureLoginToken \/ UNCHANGED vars
  BY <1>1 DEF Tick, EnsureLoginToken, vars, session, SessionStep
<1>2. ASSUME NEW c \in Configs, NewFactory(c)
      PROVE  Opens(c)
  BY <1>2, NewFactoryOpens
<1>3. ASSUME NEW kind \in Kinds, GetServiceAPI(kind)
      PROVE  Nobody \in Askers /\ Asks(kind, Nobody, Nobody)
  BY <1>3, PlainRequests DEF Askers
<1>4. ASSUME NEW kind \in Kinds, NEW identity \in IdentityKeys,
             GetServiceAPIWithIdentity(kind, identity)
      PROVE  Identity(identity) \in Askers /\ Asks(kind, Identity(identity), identity)
  <2>1. Asks(kind, Identity(identity), identity)
    BY <1>4, IdentityRequests
  <2>2. QED
    BY <2>1, AskTypes
<1>5. CASE EndRun \/ EndCase
  BY <1>5 DEF EndRun, EndCase, Visit, TearDownBegins
<1>6. QED
  BY <1>1, <1>2, <1>3, <1>4, <1>5 DEF Next, Sids

-----------------------------------------------------------------------------
(* The session *)

(* The part of TypeOK that is about the session. *)
SessionTyped ==
    /\ life \in 0..Life
    /\ federated \in {"unset", "valid", "expired"}
    /\ oidc \in BOOLEAN /\ keyFile \in BOOLEAN
    /\ renewed \in [age : 0..Never, by : {"nothing", "ensure", "cleanup"}]

(* A login that succeeded: the session is new or fresh enough. *)
Lasting(by) == Renewed(by) /\ life' \in 0..Life /\ (life' > RefreshSkew \/ (OnlyAsks /\ life' > 0))

(* How an attempt to log in ends. *)
LoginAttempt(by) ==
    \/ NotRenewed /\ life' \in {life, Life} /\ UNCHANGED federated
    \/ /\ Lasting(by)
       /\ federated' = (IF oidc /\ by = "cleanup" THEN "unset" ELSE federated)
    \/ Lasting(by) /\ federated' = "unset"

(* So does a refresh of the Azure CLI, federated or interactive. *)
LEMMA AzureAttempts ==
    ASSUME TypeOK, NEW by
    PROVE  RefreshAzureCLI(by) => LoginAttempt(by)
<1> USE FactoryAssumption DEF TypeOK
<1>1. CASE oidc
  BY <1>1 DEF RefreshAzureCLI, RunAzLoginWithFederatedToken, LoginAttempt, Lasting
<1>2. CASE ~oidc
  BY <1>2 DEF RefreshAzureCLI, RunAzLoginInteractive, LoginAttempt, Lasting
<1>3. QED
  BY <1>1, <1>2

(* The session changes by time, by a login or by the refresh for clean-up. *)
LEMMA SessionKinds ==
    ASSUME TypeOK, [Next]_vars
    PROVE  \/ UNCHANGED session
           \/ Tick
           \/ Restart
           \/ LoginAttempt("ensure") /\ UNCHANGED <<provider, oidc, keyFile>>
           \/ /\ provider = "azure" /\ LoginAttempt("cleanup")
              /\ UNCHANGED <<provider, oidc, keyFile>>
<1>0. life \in 0..Life /\ oidc \in BOOLEAN /\ RefreshSkew \in Nat /\ Life \in Nat /\ Life > RefreshSkew
  BY FactoryAssumption DEF TypeOK
<1>1. CASE EnsureLoginToken
  <2> SUFFICES LoginAttempt("ensure")
    BY <1>1 DEF EnsureLoginToken, cloud
  <2>1. CASE provider = "aws" /\ AWSEnsureLoginToken
    BY <1>0, <2>1 DEF AWSEnsureLoginToken, KeepToken, LoginAttempt, Lasting, OnlyAsks
  <2>2. CASE provider = "azure" /\ AzureEnsureLoginToken
    BY <1>0, <2>2, AzureAttempts DEF AzureEnsureLoginToken, AzureTokenOK, TokenFreshEnough, KeepToken,
       LoginAttempt, Lasting
  <2>3. CASE provider = "gcp" /\ GCPEnsureLoginToken
    BY <1>0, <2>3 DEF GCPEnsureLoginToken, RefreshGCPCLI, TokenFreshEnough, KeepToken,
       LoginAttempt, Lasting, OnlyAsks
  <2>4. QED
    BY <1>1, <2>1, <2>2, <2>3 DEF EnsureLoginToken
<1>2. CASE EndRun
  <2>1. CASE provider = "azure" /\ RefreshAzureCLIForCleanup
    <3> SUFFICES LoginAttempt("cleanup")
      BY <1>2, <2>1 DEF EndRun, Visit, cloud
    <3>1. CASE oidc
      BY <1>0, <2>1, <3>1 DEF RefreshAzureCLIForCleanup, RunAzLoginWithFederatedToken, LoginAttempt,
         Lasting
    <3>2. CASE ~oidc
      BY <1>0, <2>1, <3>2, AzureAttempts DEF RefreshAzureCLIForCleanup, AzureTokenOK, TokenFreshEnough,
         KeepToken, LoginAttempt, Lasting
    <3>3. QED
      BY <3>1, <3>2
  <2>2. CASE provider # "azure"
    BY <1>2, <2>2 DEF EndRun, Visit, session
  <2>3. QED
    BY <1>2, <2>1, <2>2 DEF EndRun
<1>3. CASE EndCase
  BY <1>3 DEF EndCase, Visit, session
<1>4. CASE ~(EnsureLoginToken \/ EndRun \/ EndCase \/ Tick \/ Restart)
  BY <1>4 DEF Next, vars, NewFactory, ResetFactoryCache, GetServiceAPI, GetServiceAPIWithIdentity,
     BeginTests, Fatal, CreateObject, TearDown, TearDownReturns
<1>5. QED
  BY <1>1, <1>2, <1>3, <1>4

(* What keeps a session alive after a login: every step of time costs it    *)
(* one of the units the login made sure of, and the assertion the refresh   *)
(* for clean-up took out of the environment comes back in a new process     *)
(* only, of which no login is known.                                        *)
SessionLasts ==
    /\ ~oidc => federated = "unset"
    /\ renewed.age = 0 => life > 0
    /\ renewed.age < Never /\ ~OnlyAsks => renewed.age + life > RefreshSkew
    /\ renewed.age < Never /\ renewed.by = "cleanup" => provider = "azure" /\ federated = "unset"

(* Neither the provider nor the kind of login ever changes. *)
LEMMA ProviderFixed ==
    ASSUME [Next]_vars
    PROVE  UNCHANGED <<provider, oidc, keyFile>>
BY DEF Next, vars, cloud, session, Tick, EnsureLoginToken, NewFactory, ResetFactoryCache,
   GetServiceAPI, GetServiceAPIWithIdentity, BeginTests, Fatal, Restart, CreateObject, EndRun,
   EndCase, Visit, TearDown, TearDownReturns

(* A sum the provers do not find with primed records in it. *)
LEMMA AgeZero ==
    ASSUME NEW age, NEW l \in Nat, age = 0
    PROVE  age + l = l
OBVIOUS

(* Time and logins keep it. *)
LEMMA SessionKept ==
    ASSUME TypeOK, SessionLasts, [Next]_vars
    PROVE  SessionTyped' /\ SessionLasts'
<1>0. /\ life \in 0..Life /\ federated \in {"unset", "valid", "expired"}
      /\ oidc \in BOOLEAN /\ keyFile \in BOOLEAN
      /\ renewed \in [age : 0..Never, by : {"nothing", "ensure", "cleanup"}]
      /\ RefreshSkew \in Nat /\ Life \in Nat /\ Life > RefreshSkew /\ Never = RefreshSkew + 1
  BY FactoryAssumption DEF TypeOK, Never
<1>p. UNCHANGED <<provider, oidc, keyFile>> /\ (OnlyAsks' <=> OnlyAsks)
  BY ProviderFixed DEF OnlyAsks
<1>a. provider = "azure" => ~OnlyAsks
  BY DEF OnlyAsks
<1>1. CASE UNCHANGED session
  BY <1>0, <1>1, <1>p DEF session, SessionTyped, SessionLasts
<1>2. CASE Tick
  <2>1. /\ life' = (IF life = 0 THEN 0 ELSE life - 1)
        /\ federated' \in {federated, IF federated = "valid" THEN "expired" ELSE federated}
        /\ renewed' = IF renewed.age = Never THEN renewed ELSE [renewed EXCEPT !.age = @ + 1]
    BY <1>2 DEF Tick
  <2>2. CASE renewed.age = Never
    BY <1>0, <1>p, <2>1, <2>2 DEF SessionTyped, SessionLasts
  <2>3. CASE renewed.age # Never
    <3>1. renewed' = [age |-> renewed.age + 1, by |-> renewed.by]
      BY <1>0, <2>1, <2>3
    <3>2. renewed.age \in 0..RefreshSkew
      BY <1>0, <2>3
    <3>3. SessionTyped'
      BY <1>0, <1>p, <2>1, <3>1, <3>2 DEF SessionTyped
    <3>4. renewed'.age < Never /\ ~OnlyAsks' => renewed'.age + life' > RefreshSkew
      BY <1>0, <1>p, <2>1, <3>1, <3>2 DEF SessionLasts
    <3>5. (~oidc => federated = "unset")' /\ renewed'.age # 0
      BY <1>0, <1>p, <2>1, <3>1, <3>2 DEF SessionLasts
    <3>6. renewed'.age < Never /\ renewed'.by = "cleanup" => provider' = "azure" /\ federated' = "unset"
      BY <1>0, <1>p, <2>1, <3>1, <3>2 DEF SessionLasts
    <3>7. QED
      BY <3>3, <3>4, <3>5, <3>6 DEF SessionLasts
  <2>4. QED
    BY <2>2, <2>3
<1>3. ASSUME NEW by \in {"ensure", "cleanup"}, LoginAttempt(by), by = "cleanup" => provider = "azure"
      PROVE  SessionTyped' /\ SessionLasts'
  <2>1. CASE NotRenewed /\ life' \in {life, Life} /\ UNCHANGED federated
    <3>1. renewed' = [age |-> Never, by |-> "nothing"]
      BY <2>1 DEF NotRenewed
    <3>2. renewed'.age = Never /\ ~(Never < Never) /\ Never # 0 /\ life' \in 0..Life
      BY <1>0, <2>1, <3>1
    <3>3. SessionTyped'
      BY <1>0, <1>p, <2>1, <3>1, <3>2 DEF SessionTyped
    <3>4. SessionLasts'
      BY <1>0, <1>p, <2>1, <3>1, <3>2 DEF SessionLasts
    <3>5. QED
      BY <3>3, <3>4
  <2>2. CASE /\ Lasting(by)
             /\ \/ federated' = (IF oidc /\ by = "cleanup" THEN "unset" ELSE federated)
                \/ federated' = "unset"
    <3>1. /\ renewed' = [age |-> 0, by |-> by] /\ life' \in 0..Life
          /\ life' > RefreshSkew \/ (OnlyAsks /\ life' > 0)
      BY <2>2 DEF Lasting, Renewed
    <3>2. ~oidc => federated' = "unset"
      BY <2>2 DEF SessionLasts
    <3>3. by = "cleanup" => federated' = "unset"
      BY <1>0, <2>2, <3>2
    <3>4. federated' \in {"unset", "valid", "expired"}
      BY <1>0, <2>2
    <3>5. SessionTyped'
      BY <1>0, <1>p, <3>1, <3>4 DEF SessionTyped
    <3>6. life' > 0 /\ (~OnlyAsks => life' > RefreshSkew)
      BY <1>0, <3>1
    <3>7. renewed'.age = 0 /\ renewed'.by = by
      BY <3>1
    <3>8. renewed'.age < Never /\ ~OnlyAsks' => renewed'.age + life' > RefreshSkew
      <4>1. life' \in 0..Life
        BY <3>1
      <4>2. life' \in Nat
        BY <1>0, <4>1
      <4>3. renewed'.age + life' = life'
        BY <3>7, <4>2, AgeZero
      <4>4. QED
        BY <1>p, <3>6, <4>3
    <3>9. renewed'.by = "cleanup" => provider' = "azure" /\ federated' = "unset"
      BY <1>3, <1>p, <3>3, <3>7
    <3>10. QED
      BY <1>p, <3>2, <3>5, <3>6, <3>8, <3>9 DEF SessionLasts
  <2>3. QED
    BY <1>3, <2>1, <2>2 DEF LoginAttempt
<1>4. CASE Restart
  <2>1. /\ renewed' = [age |-> Never, by |-> "nothing"] /\ life' = life
        /\ federated' \in {"unset", "valid", "expired"} /\ (~oidc => federated' = federated)
    BY <1>0, <1>4 DEF Restart, NotRenewed
  <2>2. renewed'.age = Never /\ ~(Never < Never) /\ Never # 0
    BY <1>0, <2>1
  <2>3. SessionTyped'
    BY <1>0, <1>p, <2>1, <2>2 DEF SessionTyped
  <2>4. SessionLasts'
    BY <1>0, <1>p, <2>1, <2>2 DEF SessionLasts
  <2>5. QED
    BY <2>3, <2>4
<1>5. QED
  BY <1>1, <1>2, <1>3, <1>4, SessionKinds

(* LoginHolds follows. *)
LEMMA LastingHolds ==
    ASSUME TypeOK, SessionLasts
    PROVE  LoginHolds
<1>0. /\ life \in 0..Life /\ renewed.age \in 0..Never
      /\ RefreshSkew \in Nat /\ Life \in Nat /\ Never = RefreshSkew + 1
  BY FactoryAssumption DEF TypeOK, Never
<1>1. renewed.age < Never /\ ~OnlyAsks => life > 0
  BY <1>0 DEF SessionLasts
<1>2. renewed.age < Never /\ renewed.by = "cleanup" =>
         \A assertion \in {NewCredential, FALSE} : Authenticated(assertion)
  BY <1>1 DEF SessionLasts, OnlyAsks, Authenticated, NewCredential
<1>3. QED
  BY <1>1, <1>2 DEF LoginHolds, SessionLasts

-----------------------------------------------------------------------------
(* What the caches and the caller's hands hold *)

(* A service is cached by the factory that made it, under its kind and the  *)
(* user-name of its identity.                                               *)
Faithful(f, kind, user) ==
    LET s == factories[f].serviceCache[<<kind, user>>] IN
    s # 0 =>
        /\ s \in Sids
        /\ services[s].kind = kind /\ services[s].factory = f
        /\ services[s].identity = Nobody => user = Nobody
        /\ services[s].identity # Nobody =>
             user # Nobody /\ user = UserOf[factories[f].config][services[s].identity]

(* All caches, of forgotten factories too, hold what their names say. *)
CachesFaithful == \A f \in Fids, kind \in Kinds, user \in Askers : Faithful(f, kind, user)

(* Only a request writes to a cache, and it writes the service it made. *)
LEMMA CachesFaithfulKept ==
    ASSUME TypeOK, CachesFaithful, [Next]_vars
    PROVE  CachesFaithful'
<1> SUFFICES ASSUME NEW f \in Fids', NEW k \in Kinds, NEW u \in Askers
             PROVE  Faithful(f, k, u)'
  BY DEF CachesFaithful
<1>o. f \in Fids => Faithful(f, k, u)
  BY DEF CachesFaithful
<1>n. <<k, u>> \in Names
  BY DEF Names, Askers
<1>1. CASE UNCHANGED <<factories, services>>
  BY <1>1, <1>o DEF Faithful, Fids, Sids
<1>2. ASSUME NEW c \in Configs, Opens(c)
      PROVE  Faithful(f, k, u)'
  <2>1. CASE f \in Fids
    <3>1. factories'[f] = factories[f] /\ services' = services /\ Sids' = Sids
      BY <1>2, <2>1 DEF Opens, Sids
    <3>2. QED
      BY <1>o, <2>1, <3>1 DEF Faithful
  <2>2. CASE f \notin Fids
    <3>1. factories'[f] = EmptyFactory(c)
      BY <1>2, <2>2 DEF Opens, Fids
    <3>2. QED
      BY <1>n, <3>1 DEF Faithful, EmptyFactory
  <2>3. QED
    BY <2>1, <2>2
<1>3. ASSUME NEW kind \in Kinds, NEW identity \in IdentityKeys \cup {Nobody}, NEW user \in Askers,
             Asks(kind, user, identity)
      PROVE  Faithful(f, k, u)'
  <2>0. factory \in Fids /\ factories[factory] \in Factory
    BY <1>3, AskTypes
  <2>1. CASE FromCache(<<kind, user>>, kind, identity)
    BY <1>1, <2>1 DEF FromCache
  <2>2. ASSUME NEW original, MadeService(kind, identity, original),
               Cached1(<<kind, user>>, Len(services) + 1) \/ UNCHANGED factories
        PROVE  Faithful(f, k, u)'
    <3> DEFINE new == Len(services) + 1
    <3>1. /\ Sids \subseteq Sids' /\ new \in Sids'
          /\ \A s \in Sids : services'[s] = services[s]
          /\ services'[new].kind = kind /\ services'[new].factory = factory
          /\ services'[new].identity = identity
      BY <2>2 DEF MadeService
    <3>2. f \in Fids /\ factories'[f].config = factories[f].config
      BY <2>2 DEF Cached1, Fids
    <3>3. CASE factories'[f].serviceCache[<<k, u>>] = factories[f].serviceCache[<<k, u>>]
      BY <1>o, <3>1, <3>2, <3>3 DEF Faithful
    <3>4. CASE factories'[f].serviceCache[<<k, u>>] # factories[f].serviceCache[<<k, u>>]
      <4>1. f = factory /\ k = kind /\ u = user /\ factories'[f].serviceCache[<<k, u>>] = new
        BY <1>n, <2>0, <2>2, <3>2, <3>4 DEF Cached1, Factory
      <4>2. /\ identity = Nobody => u = Nobody
            /\ identity # Nobody => u # Nobody /\ u = UserOf[factories[f].config][identity]
        BY <1>3, <4>1 DEF Asks, Config
      <4>3. QED
        BY <3>1, <3>2, <4>1, <4>2 DEF Faithful
    <3>5. QED
      BY <3>3, <3>4
  <2>3. QED
    BY <1>3, <2>1, <2>2, AskKinds
<1>4. QED
  BY <1>1, <1>2, <1>3, NextKinds DEF SessionStep, harness, ResetFactoryCache, BeginTests, Fatal,
     Restart, CreateObject, TearDownBegins, TearDown, TearDownReturns

(* What a faithful factory caches are services that were made. *)
LEMMA CachedAreMade ==
    ASSUME CachesFaithful, NEW f \in Fids
    PROVE  Cached(f) \subseteq Sids
<1> SUFFICES ASSUME NEW n \in Names, factories[f].serviceCache[n] # 0
             PROVE  factories[f].serviceCache[n] \in Sids
  BY DEF Cached
<1>1. PICK kind \in Kinds, user \in Askers : n = <<kind, user>>
  BY DEF Names, Askers
<1>2. Faithful(f, kind, user)
  BY DEF CachesFaithful
<1>3. QED
  BY <1>1, <1>2 DEF Faithful

(* A request adds at most its new service to the cache, and removes none.   *)
LEMMA CachedGrows ==
    ASSUME TypeOK, factory \in Fids, NEW kind \in Kinds, NEW user \in Askers, NEW s \in Nat \ {0},
           Cache[<<kind, user>>] = 0, Cached1(<<kind, user>>, s), factory' = factory
    PROVE  Cached(factory)' = Cached(factory) \cup {s}
<1> DEFINE c == factories[factory].serviceCache
           d == factories'[factory].serviceCache
           name == <<kind, user>>
<1>1. c \in [Names -> 0..MaxServices]
  <2>1. factories[factory] \in Factory
    BY DEF TypeOK, Fids
  <2>2. QED
    BY <2>1 DEF Factory
<1>2. name \in Names
  BY DEF Names, Askers
<1>3. d = [c EXCEPT ![name] = s] /\ c[name] = 0
  BY DEF Cached1, Cache
<1>4. d[name] = s /\ \A n \in Names : n # name => d[n] = c[n]
  BY <1>1, <1>2, <1>3
<1>5. Cached(factory) = {c[n] : n \in Names} \ {0} /\ Cached(factory)' = {d[n] : n \in Names} \ {0}
  BY DEF Cached
<1> HIDE DEF c, d, name
<1>6. QED
  BY <1>2, <1>3, <1>4, <1>5

(* A request leaves the factory, and the cached services stay cached.       *)
LEMMA AskKeeps ==
    ASSUME TypeOK, NEW kind \in Kinds, NEW identity \in IdentityKeys \cup {Nobody},
           NEW user \in Askers, Asks(kind, user, identity)
    PROVE  /\ factory' = factory /\ factory \in Fids /\ factory \in Fids' /\ Config' = Config
           /\ Sids \subseteq Sids' /\ \A s \in Sids : services'[s] = services[s]
           /\ Cached(factory) \subseteq Cached(factory)'
<1>1. factory \in Fids /\ factory' = factory
  BY AskTypes DEF Asks
<1>2. CASE FromCache(<<kind, user>>, kind, identity)
  BY <1>1, <1>2 DEF FromCache, Fids, Sids, Config, Cached
<1>3. ASSUME NEW original, MadeService(kind, identity, original)
      PROVE  Sids \subseteq Sids' /\ \A s \in Sids : services'[s] = services[s]
  BY <1>3 DEF MadeService
<1>4. CASE Cache[<<kind, user>>] = 0 /\ Cached1(<<kind, user>>, Len(services) + 1)
  <2>1. Len(services) + 1 \in Nat \ {0}
    BY DEF TypeOK
  <2>2. Cached(factory)' = Cached(factory) \cup {Len(services) + 1}
    BY <1>1, <1>4, <2>1, CachedGrows
  <2>3. factory \in Fids' /\ Config' = Config
    BY <1>1, <1>4 DEF Cached1, Config
  <2>4. QED
    <3>1. Sids \subseteq Sids' /\ \A s \in Sids : services'[s] = services[s]
      BY <1>2, <1>3, AskKinds
    <3>2. QED
      BY <1>1, <2>2, <2>3, <3>1
<1>5. CASE UNCHANGED factories
  BY <1>1, <1>2, <1>3, <1>5, AskKinds DEF Fids, Config, Cached
<1>6. QED
  BY <1>2, <1>4, <1>5, AskKinds

(* What is handed out fits the request, and can be torn down: it is in the  *)
(* cache of the run's factory, unless it is of the one kind AWS never caches.*)
FitsRequest(r) ==
    /\ r.service \in Sids
    /\ services[r.service].kind = r.kind
    /\ services[r.service].factory = factory
    /\ \/ services[r.service].identity = r.identity
       \/ /\ Nobody \notin {services[r.service].identity, r.identity}
          /\ Identity(services[r.service].identity) = Identity(r.identity)
    /\ services[r.service].kind # "vpc" => r.service \in Cached(factory)

(* A run holds only what fits its requests; between runs nothing is held. *)
HandsFaithful ==
    /\ pc = "free" => handed = {}
    /\ \A r \in handed : FitsRequest(r)

(* Neither a later request nor tear-down takes that away. *)
LEMMA HandsFaithfulKept ==
    ASSUME TypeOK, CachesFaithful, HandsFaithful, [Next]_vars
    PROVE  HandsFaithful'
<1>1. CASE UNCHANGED <<factory, factories, services, handed>> /\ (pc' = "free" => pc = "free")
  BY <1>1 DEF HandsFaithful, FitsRequest, Sids, Identity, Config, Cached
<1>2. ASSUME NEW c \in Configs, Opens(c)
      PROVE  HandsFaithful'
  BY <1>2 DEF Opens, HandsFaithful
<1>3. CASE ResetFactoryCache
  BY <1>3 DEF ResetFactoryCache, HandsFaithful, caller
<1>4. CASE Restart \/ TearDownReturns
  BY <1>4 DEF Restart, TearDownReturns, HandsFaithful
<1>5. ASSUME NEW kind \in Kinds, NEW identity \in IdentityKeys \cup {Nobody}, NEW user \in Askers,
             Asks(kind, user, identity)
      PROVE  HandsFaithful'
  <2>0. /\ factory' = factory /\ factory \in Fids /\ Config' = Config
        /\ Sids \subseteq Sids' /\ \A s \in Sids : services'[s] = services[s]
        /\ Cached(factory) \subseteq Cached(factory)'
    BY <1>5, AskKeeps
  <2>1. pc' # "free"
    BY <1>5 DEF Asks
  <2> SUFFICES ASSUME NEW r \in handed'
               PROVE  FitsRequest(r)'
    BY <2>1 DEF HandsFaithful
  <2>2. CASE r \in handed
    <3>1. FitsRequest(r)
      BY <2>2 DEF HandsFaithful
    <3>2. QED
      BY <2>0, <3>1 DEF FitsRequest, Identity
  <2>3. CASE FromCache(<<kind, user>>, kind, identity) /\ r \notin handed
    <3> DEFINE s == Cache[<<kind, user>>]
    <3>1. s # 0 /\ UNCHANGED <<factories, services>>
          /\ r = [service |-> s, kind |-> kind, identity |-> identity]
      BY <2>3 DEF FromCache, HandOut
    <3>2. Faithful(factory, kind, user) /\ <<kind, user>> \in Names
      BY <2>0 DEF CachesFaithful, Names, Askers
    <3>3. s \in Cached(factory) /\ s \in Sids
      BY <3>1, <3>2 DEF Cached, Cache, Faithful
    <3>4. services[s].kind = kind /\ services[s].factory = factory
      BY <3>1, <3>2 DEF Faithful, Cache
    <3>5. \/ services[s].identity = identity
          \/ /\ Nobody \notin {services[s].identity, identity}
             /\ UserOf[Config][services[s].identity] = UserOf[Config][identity]
      BY <1>5, <3>1, <3>2 DEF Faithful, Cache, Asks, Config
    <3> HIDE DEF s
    <3>6. FitsRequest(r)
      BY <3>1, <3>3, <3>4, <3>5 DEF FitsRequest, Identity
    <3>7. QED
      BY <2>0, <3>6 DEF FitsRequest, Identity
  <2>4. ASSUME NEW original, MadeService(kind, identity, original), r \notin handed,
               \/ Cache[<<kind, user>>] = 0 /\ Cached1(<<kind, user>>, Len(services) + 1)
               \/ kind = "vpc"
        PROVE  FitsRequest(r)'
    <3> DEFINE new == Len(services) + 1
    <3>1. /\ r = [service |-> new, kind |-> kind, identity |-> identity]
          /\ new \in Sids' /\ new \in Nat \ {0}
          /\ services'[new].kind = kind /\ services'[new].factory = factory
          /\ services'[new].identity = identity
      BY <2>4, FactoryAssumption DEF MadeService
    <3>2. kind # "vpc" => new \in Cached(factory)'
      BY <2>0, <2>4, <3>1, CachedGrows
    <3>3. r.service = new /\ r.kind = kind /\ r.identity = identity
      BY <3>1
    <3> HIDE DEF new
    <3>4. QED
      BY <2>0, <3>1, <3>2, <3>3 DEF FitsRequest
  <2>5. QED
    BY <1>5, <2>2, <2>3, <2>4, AskKinds
<1>6. QED
  BY <1>1, <1>2, <1>3, <1>4, <1>5, NextKinds DEF SessionStep, harness, caller, BeginTests, Fatal,
     CreateObject, TearDownBegins, TearDown

(* Tear-down visits only services of the run's factory. *)
PendingCached == pc = "tearing" => pending \subseteq Cached(factory)

(* The cache does not change while tear-down goes through it. *)
LEMMA PendingCachedKept ==
    ASSUME TypeOK, PendingCached, [Next]_vars
    PROVE  PendingCached'
<1>1. CASE pc' # "tearing"
  BY <1>1 DEF PendingCached
<1>2. CASE UNCHANGED <<pc, factory, factories>> /\ pending' \subseteq pending
  BY <1>2 DEF PendingCached, Cached
<1>3. CASE TearDownBegins
  BY <1>3 DEF TearDownBegins, PendingCached, Cached, harness
<1>4. ASSUME NEW kind \in Kinds, NEW identity \in IdentityKeys \cup {Nobody}, NEW user \in Askers,
             Asks(kind, user, identity)
      PROVE  pc' # "tearing"
  BY <1>4 DEF Asks
<1>5. QED
  BY <1>1, <1>2, <1>3, <1>4, NextKinds DEF SessionStep, harness, caller, BeginTests, Fatal,
     CreateObject, TearDown, Opens, ResetFactoryCache, Restart, TearDownReturns

-----------------------------------------------------------------------------
(* Type correctness *)

(* A new process. *)
LEMMA InitTypes ==
    ASSUME Init
    PROVE  TypeOK
<1>1. Len(factories) = 0 /\ Len(services) = 0 /\ factories \in Seq(Factory) /\ services \in Seq(Service)
  BY EmptySeq DEF Init
<1>2. life \in 0..Life /\ renewed \in [age : 0..Never, by : {"nothing", "ensure", "cleanup"}]
  BY FactoryAssumption DEF Init, Never
<1>3. federated \in {"unset", "valid", "expired"} /\ oidc \in BOOLEAN /\ keyFile \in BOOLEAN
  BY DEF Init
<1>4. /\ provider \in Providers /\ factory = 0 /\ pc = "free" /\ forgotten = FALSE
      /\ created = {} /\ litter = {} /\ open = {} /\ pending = {} /\ handed = {} /\ missed = {}
  BY DEF Init
<1>5. MaxFactories \in Nat /\ MaxServices \in Nat
  BY FactoryAssumption
<1>6. 0 <= MaxFactories /\ 0 <= MaxServices /\ 0 \in 0..0
  BY <1>5
<1>7. /\ Len(factories) <= MaxFactories /\ factory \in 0..Len(factories)
      /\ Len(services) <= MaxServices
  BY <1>1, <1>4, <1>6
<1>8. QED
  BY <1>1, <1>2, <1>3, <1>4, <1>7 DEF TypeOK

(* The bounds and the types survive every step; pending and missed need *)
(* that caches hold services that were made.                            *)
LEMMA TypeKept ==
    ASSUME TypeOK, SessionLasts, CachesFaithful, [Next]_vars
    PROVE  TypeOK'
<1> USE FactoryAssumption
<1>s. SessionTyped' /\ provider' = provider
  BY SessionKept, ProviderFixed
<1> DEFINE Rest ==
        /\ factories \in Seq(Factory) /\ Len(factories) <= MaxFactories
        /\ factory \in 0..Len(factories)
        /\ services \in Seq(Service) /\ Len(services) <= MaxServices
        /\ created \subseteq litter
        /\ litter \subseteq Sids
        /\ open \subseteq Configs
        /\ pc \in {"free", "setup", "testing", "tearing", "dead"}
        /\ pc \in {"setup", "testing", "tearing"} => factory # 0
        /\ pending \subseteq Sids
        /\ handed \subseteq Request
        /\ missed \subseteq Sids
        /\ forgotten \in BOOLEAN
<1>r. Rest
  BY DEF TypeOK, Sids
<1> SUFFICES Rest'
  BY <1>s DEF TypeOK, SessionTyped, Sids
<1>1. CASE SessionStep \/ BeginTests \/ Fatal
  BY <1>1, <1>r DEF SessionStep, BeginTests, Fatal, cloud, harness, caller, history, Sids
<1>2. CASE ResetFactoryCache \/ Restart \/ TearDownReturns
  <2>1. /\ UNCHANGED <<open, factories, services, created, litter, pending, missed>>
        /\ pc' = "free" /\ factory' \in {0, factory}
        /\ handed' \in {{}, handed} /\ forgotten' \in {TRUE, forgotten}
    BY <1>2 DEF ResetFactoryCache, Restart, TearDownReturns, cloud, harness, caller
  <2>2. factory' \in 0..Len(factories)
    BY <1>r, <2>1
  <2>3. handed' \subseteq Request /\ forgotten' \in BOOLEAN
    BY <1>r, <2>1
  <2>4. QED
    BY <1>r, <2>1, <2>2, <2>3 DEF Sids
<1>3. ASSUME NEW c \in Configs, Opens(c)
      PROVE  Rest'
  <2>1. /\ factories' \in Seq(Factory) /\ Len(factories') <= MaxFactories
        /\ factory' \in 0..Len(factories') /\ factory' # 0
    BY <1>3, <1>r DEF Opens
  <2>2. QED
    BY <1>3, <1>r, <2>1 DEF Opens, cloud, history, Sids
<1>4. ASSUME NEW kind \in Kinds, NEW identity \in IdentityKeys \cup {Nobody}, NEW user \in Askers,
             Asks(kind, user, identity)
      PROVE  Rest'
  <2>1. factory' = factory /\ factory \in Fids /\ Config \in Configs
    BY <1>4, <1>r, AskKeeps, AskTypes DEF Config, Factory
  <2>2. UNCHANGED <<litter, created, pc, pending, missed, forgotten>>
    BY <1>4 DEF Asks, history
  <2>3. CASE FromCache(<<kind, user>>, kind, identity)
    <3>1. Cache[<<kind, user>>] \in 1..MaxServices
      <4>1. factories[factory] \in Factory /\ <<kind, user>> \in Names
        BY <2>1 DEF TypeOK, Fids, Names, Askers
      <4>2. Cache[<<kind, user>>] \in 0..MaxServices
        BY <4>1 DEF Cache, Factory
      <4>3. QED
        BY <2>3, <4>2 DEF FromCache
    <3>2. handed' \subseteq Request
      BY <1>r, <2>3, <3>1 DEF FromCache, HandOut, Request
    <3>3. QED
      BY <1>r, <2>1, <2>2, <2>3, <3>2 DEF FromCache, Sids
  <2>4. ASSUME NEW original, MadeService(kind, identity, original),
               Cached1(<<kind, user>>, Len(services) + 1) \/ UNCHANGED factories
        PROVE  Rest'
    <3>1. /\ services' \in Seq(Service) /\ Len(services') <= MaxServices /\ Sids \subseteq Sids'
          /\ open' \subseteq Configs /\ handed' \subseteq Request
      BY <1>r, <2>1, <2>4 DEF MadeService, Request
    <3>2. factories' \in Seq(Factory) /\ Len(factories') = Len(factories)
      BY <1>r, <2>4 DEF Cached1
    <3>3. QED
      BY <1>r, <2>1, <2>2, <3>1, <3>2
  <2>5. QED
    BY <1>4, <2>3, <2>4, AskKinds
<1>5. ASSUME NEW s \in Sids, CreateObject(s)
      PROVE  Rest'
  BY <1>5, <1>r DEF CreateObject, caller, history, Sids
<1>6. CASE TearDownBegins
  <2>1. factory \in Fids
    BY <1>6, <1>r DEF TearDownBegins, Fids
  <2>2. Cached(factory) \subseteq Sids
    BY <2>1, CachedAreMade
  <2>3. QED
    BY <1>6, <1>r, <2>2 DEF TearDownBegins, cloud, harness, history, Sids
<1>7. CASE TearDown
  <2>1. PICK s \in pending :
            /\ pending' = pending \ {s} /\ created' = created \ {s}
            /\ IF s \in created THEN Deletes(s) ELSE UNCHANGED <<litter, missed>>
    BY <1>7 DEF TearDown
  <2>2. created' \subseteq litter' /\ litter' \subseteq litter /\ missed' \subseteq missed \cup {s}
    BY <1>r, <2>1 DEF Deletes
  <2>3. UNCHANGED <<provider, open, factory, factories, services, pc, handed, forgotten>>
    BY <1>7 DEF TearDown
  <2>4. Sids' = Sids
    BY <2>3 DEF Sids
  <2>5. QED
    BY <1>r, <2>1, <2>2, <2>3, <2>4
<1>8. QED
  BY <1>1, <1>2, <1>3, <1>4, <1>5, <1>6, <1>7, NextKinds

(* The invariant the theorems rest on. *)
Sound == TypeOK /\ SessionLasts /\ CachesFaithful /\ HandsFaithful /\ PendingCached

(* It is an invariant: each part is kept by the ones before it. *)
LEMMA AlwaysSound == Spec => []Sound
<1>1. ASSUME Init
      PROVE  Sound
  <2>1. TypeOK
    BY <1>1, InitTypes
  <2>2. SessionLasts
    BY <1>1, FactoryAssumption DEF Init, SessionLasts, Never
  <2>3. CachesFaithful
    BY <1>1 DEF Init, CachesFaithful, Fids
  <2>4. HandsFaithful /\ PendingCached
    BY <1>1 DEF Init, HandsFaithful, PendingCached
  <2>5. QED
    BY <2>1, <2>2, <2>3, <2>4 DEF Sound
<1>2. Sound /\ [Next]_vars => Sound'
  BY TypeKept, SessionKept, CachesFaithfulKept, HandsFaithfulKept, PendingCachedKept DEF Sound
<1>3. QED
  BY <1>1, <1>2, PTL DEF Spec

(* Type correctness of the factories. *)
THEOREM FactoryTypes == Spec => []TypeOK
<1>1. Sound => TypeOK
  BY DEF Sound
<1>2. QED
  BY <1>1, AlwaysSound, PTL

(* A login that returned without an error lasts for the refresh skew, and   *)
(* after the refresh for clean-up the SDK uses that login.                  *)
THEOREM LoginsHold == Spec => []LoginHolds
<1>1. Sound => LoginHolds
  BY LastingHolds DEF Sound
<1>2. QED
  BY <1>1, AlwaysSound, PTL

(* A service that is handed out has the credentials that were asked for.    *)
THEOREM IdentitiesServed == Spec => []IdentityServed
<1>1. Sound => IdentityServed
  BY DEF Sound, HandsFaithful, FitsRequest, IdentityServed
<1>2. QED
  BY <1>1, AlwaysSound, PTL

-----------------------------------------------------------------------------
(* Tear-down *)

(* What a test creates is created through a service in its hands, which is *)
(* cached; nothing leaves the cache while the run lasts.                   *)
LEMMA TearDownReachesKept ==
    ASSUME Sound, TearDownReaches, [Next]_vars
    PROVE  TearDownReaches'
<1> USE DEF Sound
<1>0. created \subseteq litter /\ pending \subseteq Sids
  BY DEF TypeOK, Sids
<1>1. CASE SessionStep
  BY <1>1 DEF SessionStep, cloud, harness, caller, history, TearDownReaches, Cached
<1>2. CASE pc \notin {"testing", "tearing"} /\ UNCHANGED <<created, litter, missed>>
  BY <1>2 DEF TearDownReaches
<1>3. ASSUME NEW kind \in Kinds, NEW identity \in IdentityKeys \cup {Nobody}, NEW user \in Askers,
             Asks(kind, user, identity)
      PROVE  TearDownReaches'
  <2>1. factory' = factory /\ Cached(factory) \subseteq Cached(factory)'
    BY <1>3, AskKeeps
  <2>2. UNCHANGED <<pc, created, litter, missed>> /\ pc # "tearing"
    BY <1>3 DEF Asks, history
  <2>3. QED
    BY <2>1, <2>2 DEF TearDownReaches
<1>4. ASSUME NEW s \in Sids, CreateObject(s)
      PROVE  TearDownReaches'
  <2>1. PICK r \in handed : r.service = s
    BY <1>4 DEF CreateObject, InHand
  <2>2. s \in Cached(factory)
    BY <1>4, <2>1 DEF CreateObject, HandsFaithful, FitsRequest
  <2>3. /\ pc = "testing" /\ created' = created \cup {s} /\ litter' = litter \cup {s}
        /\ UNCHANGED <<pc, pending, factory, factories, missed>>
    BY <1>4 DEF CreateObject, caller, history
  <2>4. Cached(factory)' = Cached(factory)
    BY <2>3 DEF Cached
  <2>5. QED
    BY <2>2, <2>3, <2>4 DEF TearDownReaches
<1>5. CASE TearDownBegins
  BY <1>5 DEF TearDownBegins, TearDownReaches, cloud, harness, history
<1>6. CASE TearDown
  <2>1. PICK s \in pending :
            /\ pending' = pending \ {s} /\ created' = created \ {s}
            /\ IF s \in created THEN Deletes(s) ELSE UNCHANGED <<litter, missed>>
    BY <1>6 DEF TearDown
  <2>2. pc = "tearing" /\ pc' = pc
    BY <1>6 DEF TearDown
  <2>3. litter' \subseteq created' \cup missed'
    BY <2>1 DEF Deletes, TearDownReaches
  <2>4. QED
    BY <2>1, <2>2, <2>3 DEF TearDownReaches
<1>7. CASE TearDownReturns
  BY <1>7 DEF TearDownReturns, TearDownReaches, harness, cloud
<1>8. CASE BeginTests
  BY <1>8 DEF BeginTests, TearDownReaches, harness, cloud, history
<1>9. QED
  BY <1>1, <1>2, <1>3, <1>4, <1>5, <1>6, <1>7, <1>8, NextKinds DEF Opens, ResetFactoryCache, Fatal,
     Restart, cloud, harness, history

(* Every service with objects to remove is one TearDown visits; what is     *)
(* left after it is what a deletion failed for.                             *)
THEOREM TearDownReachesAll == Spec => []TearDownReaches
<1>1. Init => TearDownReaches
  BY DEF Init, TearDownReaches
<1>2. Sound /\ TearDownReaches /\ [Next]_vars => TearDownReaches'
  BY TearDownReachesKept
<1>3. QED
  BY <1>1, <1>2, AlwaysSound, PTL DEF Spec

-----------------------------------------------------------------------------
(* The level of an account before the tests *)

(* Until one is forgotten there is one factory, and an account was opened   *)
(* by it; whoever opened one is the object-storage service nobody asked for *)
(* under an identity, so that service is still cached under that name.      *)
Remembered ==
    /\ ~forgotten => factory = Len(factories) /\ factory <= 1 /\ (open # {} => factory # 0)
    /\ \A s \in Sids : services[s].original # "none" =>
            services[s].kind = "object-storage" /\ services[s].identity = Nobody
    /\ OriginalRemembered

(* An elevator that finds its account opened is not made while the service  *)
(* that opened it can be asked for.                                         *)
LEMMA NobodyElevatesTwice ==
    ASSUME Sound, Remembered, ~forgotten, factory \in Fids, Config \in open
    PROVE  Cache[<<"object-storage", Nobody>>] # 0
<1>1. PICK s \in Cached(factory) : services[s].original = "owner"
  BY DEF Remembered, OriginalRemembered
<1>2. PICK n \in Names : s = factories[factory].serviceCache[n] /\ s # 0
  BY <1>1 DEF Cached
<1>3. PICK kind \in Kinds, user \in Askers : n = <<kind, user>>
  BY DEF Names, Askers
<1>4. Faithful(factory, kind, user)
  BY DEF Sound, CachesFaithful
<1>5. s \in Sids /\ services[s].kind = kind /\ (services[s].identity = Nobody => user = Nobody)
  BY <1>2, <1>3, <1>4 DEF Faithful
<1>6. kind = "object-storage" /\ user = Nobody
  BY <1>1, <1>5 DEF Remembered
<1>7. QED
  BY <1>2, <1>3, <1>6 DEF Cache

(* The services a factory caches are its own. *)
LEMMA CachedAreOwn ==
    ASSUME CachesFaithful, NEW f \in Fids, NEW s \in Cached(f)
    PROVE  s \in Sids /\ services[s].factory = f
<1>1. PICK n \in Names : s = factories[f].serviceCache[n] /\ s # 0
  BY DEF Cached
<1>2. PICK kind \in Kinds, user \in Askers : n = <<kind, user>>
  BY DEF Names, Askers
<1>3. Faithful(f, kind, user)
  BY DEF CachesFaithful
<1>4. QED
  BY <1>1, <1>2, <1>3 DEF Faithful

(* Every step keeps it; a step that drops a factory sets forgotten. *)
LEMMA RememberedKept ==
    ASSUME Sound, Remembered, [Next]_vars
    PROVE  Remembered'
<1> USE DEF Sound
<1>0. factories \in Seq(Factory) /\ Len(factories) \in Nat
  BY DEF TypeOK
<1>1. CASE UNCHANGED <<factory, factories, services, open, forgotten>>
  BY <1>1 DEF Remembered, OriginalRemembered, Sids, Cached
<1>2. CASE forgotten' /\ UNCHANGED services
  BY <1>2 DEF Remembered, OriginalRemembered, Sids
<1>3. ASSUME NEW c \in Configs, Opens(c)
      PROVE  Remembered'
  <2>1. UNCHANGED <<services, open, forgotten>>
    BY <1>3 DEF Opens, cloud, history
  <2>2. CASE factory = 0 /\ factory' = Len(factories) + 1 /\ Len(factories') = factory'
    <3>1. ~forgotten => Len(factories) = 0 /\ open = {}
      BY <2>2 DEF Remembered
    <3>2. ~forgotten' => factory' = 1 /\ Len(factories') = 1 /\ open' = {}
      BY <1>0, <2>1, <2>2, <3>1
    <3>3. \A s \in Sids : services[s].original # "none" =>
              services[s].kind = "object-storage" /\ services[s].identity = Nobody
      BY DEF Remembered
    <3>4. ~forgotten => \A s \in Sids : services[s].original # "open"
      BY DEF Remembered, OriginalRemembered, Sids
    <3>5. ~forgotten' => factory' = Len(factories') /\ factory' <= 1 /\ factory' # 0 /\ open' = {}
      BY <3>2
    <3>6. OriginalRemembered'
      BY <2>1, <3>4, <3>5 DEF OriginalRemembered, Sids
    <3>7. QED
      BY <2>1, <3>3, <3>5, <3>6 DEF Remembered, Sids
  <2>3. QED
    BY <1>1, <1>3, <2>1, <2>2 DEF Opens
<1>4. ASSUME NEW kind \in Kinds, NEW identity \in IdentityKeys \cup {Nobody}, NEW user \in Askers,
             Asks(kind, user, identity)
      PROVE  Remembered'
  <2>1. /\ factory' = factory /\ factory \in Fids /\ Config' = Config
        /\ Cached(factory) \subseteq Cached(factory)'
    BY <1>4, AskKeeps
  <2>2. forgotten' = forgotten /\ user = (IF identity = Nobody THEN Nobody ELSE UserOf[Config][identity])
    BY <1>4 DEF Asks, history
  <2>3. CASE FromCache(<<kind, user>>, kind, identity)
    BY <1>1, <2>1, <2>2, <2>3 DEF FromCache
  <2>4. ASSUME NEW original, MadeService(kind, identity, original),
               original # "none" =>
                 /\ kind = "object-storage" /\ identity = Nobody
                 /\ original = Original
                 /\ Cache[<<kind, user>>] = 0
                 /\ Cached1(<<kind, user>>, Len(services) + 1),
               Len(factories') = Len(factories)
        PROVE  Remembered'
    <3> DEFINE new == Len(services) + 1
    <3>1. /\ Sids' = Sids \cup {new} /\ new \notin Sids /\ new \in Nat \ {0}
          /\ \A s \in Sids : services'[s] = services[s]
          /\ services'[new].kind = kind /\ services'[new].factory = factory
          /\ services'[new].identity = identity /\ services'[new].original = original
          /\ open' = (IF original = "none" THEN open ELSE open \cup {Config})
      BY <2>4 DEF MadeService
    <3> HIDE DEF new
    <3>2. \A s \in Sids' : services'[s].original # "none" =>
            services'[s].kind = "object-storage" /\ services'[s].identity = Nobody
      BY <2>4, <3>1 DEF Remembered
    <3>3. ~forgotten => factory = Len(factories) /\ factory <= 1 /\ factory # 0
      BY <2>1 DEF Remembered, Fids
    <3>4. ~forgotten /\ original # "none" => original = "owner"
      <4>1. ~forgotten /\ original # "none" => Config \notin open
        BY <2>1, <2>2, <2>4, NobodyElevatesTwice
      <4>2. QED
        BY <2>4, <4>1 DEF Original
    <3>5. original # "none" => new \in Cached(factory)'
      BY <2>1, <2>4, <3>1, CachedGrows DEF new
    <3>6. ASSUME ~forgotten, NEW c \in open'
          PROVE  \E s \in Cached(factory)' :
                   factories'[services'[s].factory].config = c /\ services'[s].original = "owner"
      <4>1. CASE c \in open
        <5>1. PICK s \in Cached(factory) :
                factories[services[s].factory].config = c /\ services[s].original = "owner"
          BY <3>6, <4>1 DEF Remembered, OriginalRemembered
        <5>2. s \in Sids /\ services[s].factory = factory
          BY <2>1, CachedAreOwn
        <5>3. services'[s] = services[s] /\ factories'[factory].config = factories[factory].config
          BY <2>1, <3>1, <5>2 DEF Config
        <5>4. QED
          BY <2>1, <5>1, <5>2, <5>3
      <4>2. CASE c \notin open
        <5>1. original # "none" /\ c = Config
          BY <3>1, <4>2
        <5>2. factories'[factory].config = c
          BY <2>1, <5>1 DEF Config
        <5>3. QED
          BY <3>1, <3>4, <3>5, <3>6, <5>1, <5>2
      <4>3. QED
        BY <4>1, <4>2
    <3>7. ASSUME ~forgotten, NEW s \in Sids'
          PROVE  services'[s].original # "open"
      BY <3>1, <3>4, <3>7 DEF Remembered, OriginalRemembered, Sids
    <3>8. OriginalRemembered'
      BY <2>1, <2>2, <3>6, <3>7 DEF OriginalRemembered, Sids
    <3>9. QED
      BY <2>1, <2>2, <2>4, <3>2, <3>3, <3>8 DEF Remembered
  <2>5. QED
    BY <1>4, <2>3, <2>4, AskKinds DEF Cached1
<1>5. QED
  BY <1>1, <1>2, <1>3, <1>4, NextKinds DEF SessionStep, cloud, harness, history, ResetFactoryCache,
     BeginTests, Fatal, Restart, CreateObject, TearDownBegins, TearDown, TearDownReturns

(* As long as no factory was dropped, the level an account had before the   *)
(* tests is known to a service that can still be asked for.                 *)
THEOREM OriginalsRemembered == Spec => []OriginalRemembered
<1>1. Init => Remembered
  BY EmptySeq DEF Init, Remembered, OriginalRemembered, Sids
<1>2. Sound /\ Remembered /\ [Next]_vars => Remembered'
  BY RememberedKept
<1>3. Remembered => OriginalRemembered
  BY DEF Remembered
<1>4. QED
  BY <1>1, <1>2, <1>3, AlwaysSound, PTL DEF Spec

-----------------------------------------------------------------------------
(* What a caller relies on *)

(* The caller's view: the cache of the run's factory, if there is one. *)
Directory == IF factory = 0 THEN [n \in Names |-> 0] ELSE factories[factory].serviceCache

(* A request binds a new service to its name, or changes nothing a caller   *)
(* relies on.                                                               *)
LEMMA AskKeepsPromise ==
    ASSUME Sound, NEW kind \in Kinds, NEW identity \in IdentityKeys \cup {Nobody},
           NEW user \in Askers, Asks(kind, user, identity)
    PROVE  Promise!Next \/ UNCHANGED <<Directory, litter>>
<1> USE DEF Sound
<1>1. factory' = factory /\ factory \in Fids /\ factory # 0 /\ litter' = litter
  <2>1. factory' = factory /\ factory \in Fids
    BY AskKeeps
  <2>2. QED
    BY <2>1 DEF Asks, Fids
<1>2. CASE UNCHANGED factories
  BY <1>1, <1>2 DEF Directory
<1>3. ASSUME Cache[<<kind, user>>] = 0, Cached1(<<kind, user>>, Len(services) + 1),
             NEW original, MadeService(kind, identity, original)
      PROVE  Promise!Next
  <2> DEFINE name == <<kind, user>>
             new == Len(services) + 1
  <2>1. name \in Names /\ new \in 1..MaxServices /\ new \notin Sids
    BY <1>3 DEF Names, Askers, MadeService
  <2>2. Cached(factory) \subseteq Sids /\ litter \subseteq Sids
    BY <1>1, CachedAreMade DEF TypeOK, Sids
  <2>3. Directory[name] = 0 /\ Directory' = [Directory EXCEPT ![name] = new]
    BY <1>1, <1>3 DEF Directory, Cache, Cached1
  <2>4. new \notin ({Directory[n] : n \in Names} \ {0}) \cup litter
    BY <1>1, <2>1, <2>2 DEF Directory, Cached
  <2> HIDE DEF name, new
  <2>5. Promise!Bind(name, new)
    BY <1>1, <2>3, <2>4 DEF Promise!Bind, Promise!Named, Directory
  <2>6. QED
    BY <2>1, <2>5 DEF Promise!Next
<1>4. QED
  BY <1>2, <1>3, AskKinds DEF FromCache

(* Every step is a step of ServicePromise or leaves what it speaks of. *)
LEMMA StepKeepsPromise ==
    ASSUME Sound, [Next]_vars
    PROVE  Promise!Next \/ UNCHANGED <<Directory, litter>>
<1> USE DEF Sound
<1>s. MaxServices \in Nat /\ Len(services) <= MaxServices /\ Len(services) \in Nat
  BY FactoryAssumption DEF TypeOK
<1>1. CASE UNCHANGED <<factory, factories, litter>>
  BY <1>1 DEF Directory
<1>2. ASSUME NEW c \in Configs, Opens(c)
      PROVE  Promise!Next \/ UNCHANGED <<Directory, litter>>
  <2>1. CASE factory = 0 /\ factory' = Len(factories) + 1
    <3>1. factories'[factory'] = EmptyFactory(c) /\ factory' # 0 /\ litter' = litter
      BY <1>2, <2>1 DEF Opens, cloud, TypeOK
    <3>2. factories'[factory'].serviceCache = [n \in Names |-> 0]
      BY <3>1 DEF EmptyFactory
    <3>3. Directory' = [n \in Names |-> 0]
      BY <3>1, <3>2 DEF Directory
    <3>4. Directory = [n \in Names |-> 0]
      BY <2>1 DEF Directory
    <3>5. QED
      BY <3>1, <3>3, <3>4
  <2>2. QED
    BY <1>1, <1>2, <2>1 DEF Opens, cloud
<1>3. CASE ResetFactoryCache \/ Restart
  <2>1. factory' = 0 /\ litter' = litter
    BY <1>3 DEF ResetFactoryCache, Restart, cloud
  <2>2. Promise!Forget
    BY <2>1 DEF Promise!Forget
  <2>3. QED
    BY <2>2 DEF Promise!Next
<1>4. ASSUME NEW kind \in Kinds, NEW identity \in IdentityKeys \cup {Nobody}, NEW user \in Askers,
             Asks(kind, user, identity)
      PROVE  Promise!Next \/ UNCHANGED <<Directory, litter>>
  BY <1>4, AskKeepsPromise
<1>n. ASSUME factory # 0, NEW s \in Cached(factory), s \in Sids
      PROVE  s \in {Directory[n] : n \in Names} \ {0} /\ s \in 1..MaxServices
  BY <1>n, <1>s DEF Cached, Directory, Sids
<1>5. ASSUME NEW s \in Sids, CreateObject(s)
      PROVE  Promise!Next
  <2>1. PICK r \in handed : r.service = s
    BY <1>5 DEF CreateObject, InHand
  <2>2. s \in Cached(factory) /\ factory # 0
    BY <1>5, <2>1 DEF CreateObject, HandsFaithful, FitsRequest, TypeOK
  <2>3. UNCHANGED <<factory, factories>> /\ litter' = litter \cup {s}
    BY <1>5 DEF CreateObject
  <2>4. Promise!Litter(s)
    BY <1>n, <2>2, <2>3 DEF Promise!Litter, Promise!Named, Directory
  <2>5. QED
    BY <1>n, <2>2, <2>4 DEF Promise!Next
<1>6. CASE TearDown
  <2>1. PICK s \in pending : IF s \in created THEN Deletes(s) ELSE UNCHANGED <<litter, missed>>
    BY <1>6 DEF TearDown
  <2>2. UNCHANGED <<factory, factories>> /\ pc = "tearing"
    BY <1>6 DEF TearDown
  <2>3. s \in Cached(factory) /\ s \in Sids /\ factory # 0
    BY <2>2 DEF PendingCached, TypeOK, Sids
  <2>4. litter' = litter \/ litter' = litter \ {s}
    BY <2>1 DEF Deletes
  <2>5. CASE litter' = litter
    BY <1>1, <2>2, <2>5
  <2>6. CASE litter' = litter \ {s}
    <3>1. Promise!Clean(s)
      BY <1>n, <2>2, <2>3, <2>6 DEF Promise!Clean, Promise!Named, Directory
    <3>2. QED
      BY <1>n, <2>3, <3>1 DEF Promise!Next
  <2>7. QED
    BY <2>4, <2>5, <2>6
<1>7. QED
  BY <1>1, <1>2, <1>3, <1>4, <1>5, <1>6, NextKinds DEF SessionStep, cloud, harness,
     BeginTests, Fatal, TearDownBegins, TearDownReturns

(* The factory keeps the promise its callers rely on: a name stands for one *)
(* service until the factory is forgotten, and what is in the cloud was left*)
(* by, and is removed through, a service that has a name.                   *)
THEOREM FactoryKeepsPromise == Spec => KeepsServicePromise
<1>1. Init => Promise!Init
  BY DEF Init, Promise!Init
<1>2. Sound /\ [Next]_vars => [Promise!Next]_(Promise!promiseVars)
  BY StepKeepsPromise DEF Directory, Promise!promiseVars
<1>3. QED
  BY <1>1, <1>2, AlwaysSound, PTL DEF Spec, KeepsServicePromise, Promise!Spec
=============================================================================
