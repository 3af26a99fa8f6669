----------------------------- MODULE Connections -----------------------------
(***************************************************************************)
(* The connection of an environment to a provider: the credentials the     *)
(* customer stored (tenantCredentials), the integration that names one, the *)
(* preflights, the attestations, the answers of readiness and the admission *)
(* of an effect.  Every statement is a step; last_verified_at, which is    *)
(* shown and never read, is left out.                                      *)
(***************************************************************************)
EXTENDS Naturals, Sequences, FiniteSets

CONSTANTS
    Provider, Trust,       \* the provider; PREFLIGHT_TTL_MS
    Callers, Absent,
    Ids,                   \* the credentials of this environment
    Operator, Foreign,     \* a reference of the operator's; one of another environment's
    Stated,                \* the scopes the provider states, by reference
    Proved,                \* the capabilities reads can prove
    Failures,              \* the failure categories of a probe
    MaxRequests, MaxChanges, MaxTime

VARIABLES
    stored,                \* nyst_tenant_credentials
    integration,           \* nyst_integrations
    preflights,            \* nyst_integration_preflights
    attested, enabled,     \* nyst_capability_attestations, nyst_environment_effect_specs
    request, requests, changes,
    now

tables == <<stored, integration, preflights, attested, enabled>>
vars   == <<tables, request, requests, changes, now>>

-----------------------------------------------------------------------------
(* Whether a connection is ready: what the enabled effects need, what the  *)
(* last preflight of the credential found it may do, and what an operator  *)
(* attests.  These are functions of what was read.                         *)

(* What the effects require. *)
CAPABILITY_MANIFEST ==
    [repository_permission_change |->
        {"repository:read", "organization:read", "collaborator:write"},
     user_suspension_change |-> {"user:read", "user:lifecycle"},
     refund                 |-> {"charge:read", "refund:write"},
     payment_capture        |-> {"payment_intent:read", "payment_intent:capture"}]

EffectsOf ==
    [github |-> {"repository_permission_change"}, okta |-> {"user_suspension_change"},
     stripe |-> {"refund", "payment_capture"}]

(* What the scopes a provider names stand for. *)
PROVIDER_SCOPE_MAP ==
    [github |-> [repo                 |-> {"repository:read", "collaborator:write"},
                 public_repo          |-> {"repository:read"},
                 read_org             |-> {"organization:read"},
                 admin_org            |-> {"organization:read"},
                 administration_write |-> {"collaborator:write"},
                 metadata_read        |-> {"repository:read"},
                 members_read         |-> {"organization:read"}],
     okta   |-> [users_read             |-> {"user:read"},
                 users_manage           |-> {"user:read", "user:lifecycle"},
                 users_lifecycle_manage |-> {"user:lifecycle"}],
     stripe |-> [charge_read         |-> {"charge:read"},
                 payment_intent_read |-> {"payment_intent:read"}]]

RequiredCapabilities(effects) == UNION {CAPABILITY_MANIFEST[e] : e \in effects}

(* A scope that is not listed stands for nothing. *)
CapabilitiesFromProviderScopes(scopes) ==
    LET map == PROVIDER_SCOPE_MAP[Provider]
    IN  UNION {map[s] : s \in scopes \intersect DOMAIN map}

IsPreflightStale(at, asked) == asked > at + Trust

(* The state of a required capability.  "facts" is what one answer read:   *)
(* the outcome of the preflight and its time, the scopes the provider      *)
(* stated and the capabilities the probe exercised; none without a          *)
(* preflight.  A refusal outranks what was observed, and that a claim.      *)
CapabilityState(capability, facts, claims, asked) ==
    LET succeeded == facts.status = "verified_ready"
        verified  == succeeded /\ capability \in facts.verified
        stated    == succeeded /\ capability \in CapabilitiesFromProviderScopes(facts.scopes)
    IN  IF facts.status = "insufficient_permission" THEN "insufficient_permission"
        ELSE IF verified \/ stated
             THEN IF IsPreflightStale(facts.at, asked) THEN "stale"
                  ELSE IF verified THEN "verified" ELSE "authorized"
        ELSE IF capability \in claims THEN "authorized"
        ELSE "available"

SufficientCapabilities(facts, claims, asked) ==
    {c \in RequiredCapabilities(facts.enabled) :
        CapabilityState(c, facts, claims, asked) \in {"authorized", "verified"}}

(* The first condition that is not met, or "ready".                        *)
ComposeReadiness(facts, claims, credential, asked) ==
    LET required == RequiredCapabilities(facts.enabled) IN
    IF facts.enabled = {} THEN "not_enabled"
    ELSE IF ~facts.configured THEN "not_configured"
    ELSE IF ~credential THEN "credential_unavailable"
    ELSE IF facts.status = "none" THEN "never_preflighted"
    ELSE IF facts.status # "verified_ready" THEN facts.status
    ELSE IF IsPreflightStale(facts.at, asked) THEN "preflight_stale"
    ELSE IF required \subseteq SufficientCapabilities(facts, claims, asked) THEN "ready"
    ELSE "capabilities_insufficient"

(* Of one effect, whose row was read before; of another version of it the  *)
(* row says as much as a disabled one.                                     *)
EvaluateEffectSpecReadiness(effect, listed, readiness) ==
    IF effect \notin listed THEN "disabled"
    ELSE IF readiness = "none" THEN "readiness_unevaluated"
    ELSE IF readiness = "ready" THEN "ready"
    ELSE "blocked_missing_integration"

(* Whether a workload is shown as protected: its effect was enabled, and    *)
(* the checks that block are passed, each on a part of the readiness of its *)
(* own.                                                                    *)
EvaluateGoLiveReadiness(workload, facts, claims, credential, asked) ==
    /\ workload # {}
    /\ facts.configured /\ credential
    /\ facts.status = "verified_ready" /\ ~IsPreflightStale(facts.at, asked)
    /\ RequiredCapabilities(facts.enabled) \subseteq SufficientCapabilities(facts, claims, asked)

-----------------------------------------------------------------------------
References == Ids \union {Operator, Foreign}
Wanted == EffectsOf[Provider]
Capabilities == RequiredCapabilities(Wanted)

NoFacts == [ref |-> Absent, configured |-> FALSE, enabled |-> {}, status |-> "none",
            at |-> 0, scopes |-> {}, verified |-> {}]

Idle == [pc |-> "idle", ref |-> Absent, at |-> 0, result |-> NoFacts, claimed |-> {},
         answer |-> "none", gone |-> {}, listed |-> {}, workload |-> {}]

Init ==
    /\ stored = [id \in Ids |-> "none"]
    /\ integration = [ref |-> Absent, configured |-> FALSE, disconnected |-> FALSE]
    /\ preflights = <<>>
    /\ attested = {}
    /\ enabled = Wanted
    /\ request = [c \in Callers |-> Idle]
    /\ requests = 0
    /\ changes = 0
    /\ now = 0

At(c, pc) == request[c].pc = pc
Become(c, new) == request' = [request EXCEPT ![c] = new] /\ UNCHANGED <<requests, changes, now>>
Goto(c, pc) == Become(c, [request[c] EXCEPT !.pc = pc])
Return(c) == Become(c, Idle)

Revoked == {id \in Ids : stored[id] = "revoked"}

Begin(c, new) ==
    /\ At(c, "idle") /\ requests < MaxRequests
    /\ requests' = requests + 1
    /\ request' = [request EXCEPT ![c] = [new EXCEPT !.gone = Revoked]]
    /\ UNCHANGED <<changes, now>>

-----------------------------------------------------------------------------
(* What the database answers.                                              *)

Live(id) == stored[id] = "live"

(* scopedTo: a credential of another environment is not found.             *)
Resolves(ref) == ref = Operator \/ (ref \in Ids /\ Live(ref))

(* unscopedResolverForConfiguredReferences: it is.                          *)
ResolvesAnywhere(ref) == Resolves(ref) \/ ref = Foreign

(* belongsToScope.                                                         *)
BelongsToScope(ref) == ref \in Ids /\ Live(ref)

(* Defective form: the newest preflight of the provider.                   *)
LatestOfProvider(ref) ==
    {p \in {preflights[i] : i \in DOMAIN preflights} :
        \A i \in DOMAIN preflights : preflights[i].at <= p.at}

(* The newest preflight of exactly this reference; of the same instant any. *)
LatestPreflights(ref) ==
    {p \in {preflights[i] : i \in DOMAIN preflights} :
        /\ p.ref = ref
        /\ \A i \in DOMAIN preflights : preflights[i].ref = ref => preflights[i].at <= p.at}

-----------------------------------------------------------------------------
(* POST credential: store, then reconnectIntegration.                      *)
Supersede(c) ==
    /\ Begin(c, [Idle EXCEPT !.pc = "inserting"])
    /\ stored' = [id \in Ids |-> IF Live(id) THEN "revoked" ELSE stored[id]]
    /\ UNCHANGED <<integration, preflights, attested, enabled>>

(* One live credential, by the unique index: another store came first.     *)
Insert(c) ==
    /\ At(c, "inserting")
    /\ \/ /\ \A id \in Ids : ~Live(id)
          /\ \E id \in Ids :
                /\ stored[id] = "none"
                /\ stored' = [stored EXCEPT ![id] = "live"]
                /\ Become(c, [request[c] EXCEPT !.pc = "reconnecting", !.ref = id])
       \/ /\ \E id \in Ids : Live(id)
          /\ Return(c) /\ UNCHANGED stored
    /\ UNCHANGED <<integration, preflights, attested, enabled>>

Reconnect(c) ==
    /\ At(c, "reconnecting")
    /\ integration' = [integration EXCEPT !.disconnected = FALSE]
    /\ Goto(c, "configuring")
    /\ UNCHANGED <<stored, preflights, attested, enabled>>

(* PUT integration: configureIntegration alone.                            *)
PutReference(c) ==
    /\ \E ref \in {Operator, Foreign} \union {id \in Ids : stored[id] # "none"} :
          Begin(c, [Idle EXCEPT !.pc = "configuring", !.ref = ref])
    /\ UNCHANGED tables

(* Only a customer's reference is asked after; the credential store that   *)
(* answers is there wherever customers can hand in credentials.            *)
CheckOwner(c) ==
    /\ At(c, "configuring")
    /\ IF request[c].ref = Operator \/ BelongsToScope(request[c].ref)
       THEN Goto(c, "upserting")
       ELSE Return(c)
    /\ UNCHANGED tables

Configure(c) ==
    /\ At(c, "upserting")
    /\ integration' = [integration EXCEPT !.ref = request[c].ref, !.configured = TRUE]
    /\ Return(c)
    /\ UNCHANGED <<stored, preflights, attested, enabled>>

(* DELETE credential: describe, then revoke what was described.            *)
Describe(c) ==
    /\ \E id \in Ids : Live(id) /\ Begin(c, [Idle EXCEPT !.pc = "revoking", !.ref = id])
    /\ UNCHANGED tables

Revoke(c) ==
    /\ At(c, "revoking")
    /\ stored' = [stored EXCEPT ![request[c].ref] = "revoked"]
    /\ Return(c)
    /\ UNCHANGED <<integration, preflights, attested, enabled>>

-----------------------------------------------------------------------------
(* runIntegrationPreflight.                                                *)
ReadReference(c) ==
    /\ LET usable == integration.configured /\ ~integration.disconnected IN
       Begin(c, [Idle EXCEPT !.pc = "resolving", !.at = now,
                             !.ref = IF usable THEN integration.ref ELSE Absent])
    /\ UNCHANGED tables

(* The secret is resolved and the provider asked: it answers with the      *)
(* scopes it states and what was read, or with a refusal of some kind.     *)
Probe(c) ==
    LET k == request[c] IN
    /\ At(c, "resolving")
    /\ \/ /\ k.ref = Absent \/ ~Resolves(k.ref)
          /\ Become(c, [k EXCEPT !.pc = "recording",
                                 !.result.status = "credential_unavailable"])
       \/ /\ k.ref # Absent /\ Resolves(k.ref)
          /\ \/ \E proved \in SUBSET Proved :
                   Become(c, [k EXCEPT !.pc = "recording",
                                       !.result.status = "verified_ready",
                                       !.result.scopes = Stated[k.ref],
                                       !.result.verified = proved])
             \/ \E failure \in Failures :
                   Become(c, [k EXCEPT !.pc = "recording", !.result.status = failure])
    /\ UNCHANGED tables

(* The reference the preflight was run against is recorded with it.        *)
Record(c) ==
    LET k == request[c] IN
    /\ At(c, "recording")
    /\ preflights' = Append(preflights,
          [ref |-> k.ref, at |-> k.at, status |-> k.result.status,
           scopes |-> k.result.scopes, verified |-> k.result.verified])
    /\ Become(c, [Idle EXCEPT !.pc = "asking"])
    /\ UNCHANGED <<stored, integration, attested, enabled>>

-----------------------------------------------------------------------------
(* integrationReadiness, asked for by itself or after a preflight.         *)
Ask(c) ==
    /\ \/ Begin(c, [Idle EXCEPT !.pc = "reading", !.at = now])
       \/ At(c, "asking") /\ Become(c, [Idle EXCEPT !.pc = "reading", !.at = now,
                                                    !.gone = Revoked])
    /\ UNCHANGED tables

(* effectSpecStatuses: the rows of the effects, then the same question.    *)
ListEffectSpecs(c) ==
    /\ Begin(c, [Idle EXCEPT !.pc = "reading", !.at = now, !.listed = enabled])
    /\ UNCHANGED tables

(* goLiveReadiness: the row of the effect, then the same question.  Agent,  *)
(* mode, policy and freeze are taken to let the workload be protected.     *)
AskGoLive(c) ==
    /\ \E effect \in Wanted :
          Begin(c, [Idle EXCEPT !.pc = "reading", !.at = now,
                                !.workload = {effect} \intersect enabled])
    /\ UNCHANGED tables

(* One SELECT: the integration unless it is disconnected, the newest       *)
(* preflight of what it names, the enabled effects.                        *)
ReadFacts(c) ==
    LET here == ~integration.disconnected
        ref  == IF here THEN integration.ref ELSE Absent
        base == [NoFacts EXCEPT !.ref = ref, !.enabled = enabled,
                                !.configured = here /\ integration.configured]
    IN
    /\ At(c, "reading")
    /\ \/ /\ LatestPreflights(ref) = {}
          /\ Become(c, [request[c] EXCEPT !.pc = "claims", !.result = base])
       \/ \E p \in LatestPreflights(ref) :
             Become(c, [request[c] EXCEPT !.pc = "claims",
                !.result = [base EXCEPT !.status = p.status, !.at = p.at,
                                        !.scopes = p.scopes, !.verified = p.verified]])
    /\ UNCHANGED tables

ReadAttestations(c) ==
    /\ At(c, "claims")
    /\ Become(c, [request[c] EXCEPT !.pc = "availability", !.claimed = attested])
    /\ UNCHANGED tables

(* probeCredentialAvailability, then what follows from all of it.  Of an   *)
(* answer that shows nothing as ready nobody makes anything.               *)
Answer(c) ==
    LET k == request[c]
        available == k.result.configured /\ Resolves(k.result.ref)
        readiness == ComposeReadiness(k.result, k.claimed, available, k.at)
        said == [k EXCEPT !.pc = "answered", !.ref = k.result.ref, !.answer = readiness,
                   !.listed = {e \in k.listed :
                                 EvaluateEffectSpecReadiness(e, k.listed, readiness) = "ready"},
                   !.workload = IF EvaluateGoLiveReadiness(@, k.result, k.claimed, available,
                                                           k.at)
                                THEN @ ELSE {}]
    IN
    /\ At(c, "availability")
    /\ IF readiness = "ready" \/ said.listed # {} \/ said.workload # {}
       THEN Become(c, said)
       ELSE Return(c)
    /\ UNCHANGED tables

-----------------------------------------------------------------------------
(* requireEffectSpec, and the credential an admitted action goes with.     *)
RequireEffect(c) ==
    /\ enabled # {}
    /\ Begin(c, [Idle EXCEPT !.pc = "admitting"])
    /\ UNCHANGED tables

RequireIntegration(c) ==
    /\ At(c, "admitting")
    /\ IF integration.configured
       THEN Become(c, [request[c] EXCEPT !.pc = "admitted", !.ref = integration.ref])
       ELSE Return(c)
    /\ UNCHANGED tables

UseCredential(c) ==
    /\ At(c, "admitted")
    /\ IF ResolvesAnywhere(request[c].ref) THEN Goto(c, "used") ELSE Return(c)
    /\ UNCHANGED tables

Leave(c) ==
    /\ request[c].pc \in {"answered", "used"}
    /\ Return(c)
    /\ UNCHANGED tables

-----------------------------------------------------------------------------
(* Commands of one statement.                                              *)
Change ==
    /\ changes < MaxChanges
    /\ changes' = changes + 1
    /\ UNCHANGED <<stored, preflights, request, requests, now>>

Disconnect ==
    /\ ~integration.disconnected /\ integration.ref # Absent
    /\ integration' = [integration EXCEPT !.disconnected = TRUE, !.configured = FALSE]
    /\ UNCHANGED <<attested, enabled>>
    /\ Change

AttestCapability ==
    /\ \E capability \in Capabilities \ attested : attested' = attested \union {capability}
    /\ UNCHANGED <<integration, enabled>>
    /\ Change

RevokeAttestation ==
    /\ \E capability \in attested : attested' = attested \ {capability}
    /\ UNCHANGED <<integration, enabled>>
    /\ Change

ConfigureEffectSpec ==
    /\ \E effect \in Wanted :
          enabled' = IF effect \in enabled THEN enabled \ {effect}
                     ELSE enabled \union {effect}
    /\ UNCHANGED <<integration, attested>>
    /\ Change

Tick == now < MaxTime /\ now' = now + 1 /\ UNCHANGED <<tables, request, requests, changes>>

Next ==
    \/ Disconnect \/ AttestCapability \/ RevokeAttestation \/ ConfigureEffectSpec \/ Tick
    \/ \E c \in Callers :
          \/ Supersede(c) \/ Insert(c) \/ Reconnect(c)
          \/ PutReference(c) \/ CheckOwner(c) \/ Configure(c)
          \/ Describe(c) \/ Revoke(c)
          \/ ReadReference(c) \/ Probe(c) \/ Record(c)
          \/ Ask(c) \/ ListEffectSpecs(c) \/ AskGoLive(c)
          \/ ReadFacts(c) \/ ReadAttestations(c) \/ Answer(c)
          \/ RequireEffect(c) \/ RequireIntegration(c) \/ UseCredential(c) \/ Leave(c)

Spec == Init /\ [][Next]_vars

-----------------------------------------------------------------------------
(* The types of the rows and of the requests.                              *)
TypeOK ==
    /\ stored \in [Ids -> {"none", "live", "revoked"}]
    /\ integration \in [ref : References \union {Absent}, configured : BOOLEAN,
                        disconnected : BOOLEAN]
    /\ \A i \in DOMAIN preflights : preflights[i].ref \in References \union {Absent}
    /\ attested \subseteq Capabilities
    /\ enabled \subseteq Wanted
    /\ \A c \in Callers : request[c].ref \in References \union {Absent}

(* An answer "ready", also one that only shows some effect as ready or a   *)
(* workload as protected, speaks of a credential of the environment's own  *)
(* that was not revoked before the question, that a preflight of exactly   *)
(* this credential verified within the time one is trusted, and for which  *)
(* every capability the enabled effects need was proved, stated or         *)
(* attested, through rotations, revocations and disconnections in between; *)
(* and an admitted action never goes with a credential that was revoked    *)
(* before or belongs to another environment.                               *)
ReadyIsVerified ==
    \A c \in Callers :
        LET k == request[c] IN
        /\ At(c, "answered") /\ (k.answer = "ready" \/ k.listed # {} \/ k.workload # {}) =>
              /\ k.ref \notin k.gone \union {Foreign, Absent}
              /\ \E i \in DOMAIN preflights :
                    /\ preflights[i].ref = k.ref /\ preflights[i].status = "verified_ready"
                    /\ k.at - preflights[i].at <= Trust
                    /\ RequiredCapabilities(k.result.enabled) \subseteq
                          preflights[i].verified \union k.claimed \union
                          CapabilitiesFromProviderScopes(Stated[k.ref])
        /\ At(c, "used") => k.ref \notin k.gone \union {Foreign}
=============================================================================
