---------------------------- MODULE RequestAuth -----------------------------
(***************************************************************************)
(* From the arrival of a request to its handler: the HTTP middleware of    *)
(* auth/middleware.go (AuthN, Tenancy, AuthZ) and the gRPC interceptors of *)
(* grpc/interceptors.go, over the authenticators of auth/keycloak.go, with *)
(* its cache of the realm's signing keys, and auth/authn.go; the tenancy   *)
(* logics of auth/tenancy.go; and the authorizers of auth/opa.go, which    *)
(* reloads its policies while requests go on, and auth/authz.go.           *)
(*                                                                         *)
(* A token is the record of what the code looks at: which checks of its    *)
(* form it passes, the key it names, the key that signed it, its claims.   *)
(* A key is its kid.  Tenants are strings, and Parse says which of them    *)
(* are UUIDs, and of which canonical form.  Time is counted in units.      *)
(***************************************************************************)
EXTENDS Integers, FiniteSets

CONSTANTS
  Requests,
  Setups,       \* an authenticator, a tenancy logic, an authorizer, and the requests that come:
                \* asks[r], records of a transport, a token, an X-Org-ID and a verb; the keys
                \* that the realm rotates; and, bound: of the clock, until
  Keys, Initial,  \* the realm's keys, and those it publishes at first
  Usable,       \* those that are RSA signing keys and parse
  Parse,        \* Parse[s]: the UUID that the string s denotes, or Invalid
  Realm, ClientID, GuestTenant,
  Files,        \* how many .rego files the policy directory has; a file is its place in it
  Policy,       \* Policy[v]: the requests that the files allow, v[f] being the version of f;
                \* bound: the contents that operators give the directory
  Broken,       \* contents that do not parse or compile
  Reloaders,    \* concurrent calls of ReloadPolicies
  None, Invalid,
  TTL, Timeout, Skew,  \* JWKSCacheTTL, the HTTP client's timeout, the 60 s of iat
  MaxFailures   \* bound: fetches that fail

ASSUME RequestAuthAssumption ==
  /\ TTL \in Nat \ {0} /\ Timeout \in Nat /\ Skew \in Nat
  /\ Usable \subseteq Keys /\ Initial \subseteq Keys /\ None \notin Requests \cup Keys
  /\ \A s \in Setups :
       s.rotating \subseteq Keys /\ \A r \in Requests : None \notin s.asks[r]

(* NewOPAAuthorizer fails, and the process ends, unless the policies compile. *)
ASSUME PoliciesAssumption ==
  Files \in Nat /\ None \notin Nat /\ [f \in 1..Files |-> 1] \in DOMAIN Policy \ Broken

(* exp is a number if it is there, and an organization that a header names   *)
(* is a string; the canonical form of a UUID denotes itself.                 *)
ASSUME StringsAssumption ==
  /\ \A s \in Setups : \A r \in Requests : \A a \in s.asks[r] :
       a.claims.exp \in Int \cup {None} /\ (a.org # None => a.org \in DOMAIN Parse)
  /\ \A x \in DOMAIN Parse : Parse[x] # Invalid => Parse[Parse[x]] = Parse[x]

VARIABLES
  setup,      \* what the process was configured with
  now,        \* the clock
  published,  \* the keys the realm publishes
  retired,    \* history: retired[k], when k was withdrawn, or None
  cache,      \* k.jwks: keys and fetchedAt; None before the first fetch
  writer,     \* the request that holds k.mu for writing
  failures,   \* history: fetches that failed
  pc,         \* where each request is, in the end "served" or its refusal
  ask,        \* the request itself
  missed,     \* history: requests whose key was not published all the time
  fetched,    \* the keys in the answer it has read, and when it asked
  found,      \* history: when it found its key, or None
  tenants,    \* its subject's tenants
  org,        \* the organization in its context
  seen,       \* the policies it is evaluated against
  window,     \* history: the policies loaded while it goes on
  dir,        \* dir[f]: the version of file f in the directory
  compiler,   \* the versions loaded
  reading,    \* reading[l][f]: the version of f that l has read, or None; None without a reload
  overlapped  \* history: two reloads went on at once

keyVars == <<published, retired>>
cacheVars == <<cache, writer, failures>>
policyVars == <<dir, compiler, reading, overlapped>>
requestVars == <<pc, ask, missed, fetched, found, tenants, org, seen, window>>
vars == <<setup, now, keyVars, cacheVars, policyVars, requestVars>>

TenancyRefusals == {"400", "403", "500"}
Refusals == TenancyRefusals \cup {"401", "nokey"}   \* nokey is a 401, too
Ended(r) == pc[r] \in Refusals \cup {"served"}

(* Bound: the environment rests once all requests have ended. *)
Active == \E r \in Requests : ~Ended(r)

NoAnswer == [keys |-> {}, from |-> 0]

Goto(r, p) == pc' = [pc EXCEPT ![r] = p]

----------------------------------------------------------------------------
(* KeycloakAuthenticator *)

(* The Authorization header holds a Bearer token that is not empty. *)
extractBearerToken(a) == a.header = "bearer"

(* Three parts, a header that decodes, a kid, and RS256. *)
WellFormed(a) == a.form = "jwt"

(* Whether the cache may still be used.                                     *)
(* Mutant: the code forgets its age.                                        *)
Fresh_Always == cache # None

Fresh == cache # None /\ now - cache.at < TTL

Hit(k) == Fresh /\ k \in cache.keys

(* Where getSigningKey goes on if the cache has no answer.                  *)
(* Mutant: a fresh cache without the key is an answer.                      *)
Miss_Refuse(k) == IF Fresh THEN "nokey" ELSE "wait"

Miss(k) == "wait"

(* Whether the keys must be fetched, once the write lock is held.           *)
MustFetch(k) == ~Hit(k)

(* Who holds the write lock after a fetch that failed.                      *)
(* Mutant: it is not released.                                              *)
AfterError_Held == writer

AfterError == None

(* The keys of an answer: others than RSA signing keys are skipped. *)
fetchJWKS(ks) == ks \cap Usable

(* aud is a string, here a singleton, a list, or of another type, here {}. *)
validateAudience(c) == c.aud # None /\ ClientID \in c.aud

validateStandardClaims(c) ==
  /\ c.exp # None /\ c.exp >= now
  /\ c.iat = None \/ c.iat <= now + Skew
  /\ c.iss = Realm
  /\ ClientID # None => validateAudience(c)

(* preferred_username or, by default, sub. *)
extractUser(c) == c.user \in {"preferred", "sub"}

(* The strings of the tenant claim that are not empty; none is an error. *)
extractTenants(c) == c.tenants \ {""}

verifyRS256(a) == a.signer = a.kid

(* AuthN, with Authenticate up to the key, or the guest authenticator.      *)
Arrive(r, a) ==
  /\ pc[r] = "new"
  /\ ask' = [ask EXCEPT ![r] = a] /\ missed' = IF a.kid \in published THEN missed ELSE missed \cup {r}
  /\ window' = [window EXCEPT ![r] = {compiler}]
  /\ IF a.via # "http" \/ setup.authn = "guest"
       THEN Goto(r, "tenancy") /\ tenants' = [tenants EXCEPT ![r] = {GuestTenant}]
       ELSE /\ Goto(r, IF extractBearerToken(a) /\ WellFormed(a) THEN "lookup" ELSE "401")
            /\ UNCHANGED tenants
  /\ UNCHANGED <<setup, now, keyVars, cacheVars, policyVars, fetched, found, org, seen>>

(* getSigningKey under the read lock. *)
ReadCache(r) ==
  /\ pc[r] = "lookup" /\ writer = None
  /\ Goto(r, IF Hit(ask[r].kid) THEN "verify" ELSE Miss(ask[r].kid))
  /\ found' = [found EXCEPT ![r] = IF Hit(ask[r].kid) THEN now ELSE None]
  /\ UNCHANGED <<setup, now, keyVars, cacheVars, policyVars, ask, missed, fetched, tenants, org,
                 seen, window>>

(* getSigningKey takes the write lock and looks again. *)
Acquire(r) ==
  /\ pc[r] = "wait" /\ writer = None
  /\ IF MustFetch(ask[r].kid)
       THEN /\ Goto(r, "fetch") /\ writer' = r
            /\ fetched' = [fetched EXCEPT ![r] = [keys |-> {}, from |-> now]]
            /\ UNCHANGED found
       ELSE /\ Goto(r, "verify")
            /\ found' = [found EXCEPT ![r] = now]
            /\ UNCHANGED <<writer, fetched>>
  /\ UNCHANGED <<setup, now, keyVars, cache, failures, policyVars, ask, missed, tenants, org, seen,
                 window>>

(* The realm answers. *)
Answer(r) ==
  /\ pc[r] = "fetch"
  /\ Goto(r, "store")
  /\ fetched' = [fetched EXCEPT ![r].keys = fetchJWKS(published)]
  /\ UNCHANGED <<setup, now, keyVars, cacheVars, policyVars, ask, missed, found, tenants, org, seen,
                 window>>

(* No connection, another status, an unreadable answer, or no answer in time. *)
FetchFails(r) ==
  /\ pc[r] = "fetch" /\ failures < MaxFailures
  /\ failures' = failures + 1
  /\ Goto(r, "401") /\ writer' = AfterError
  /\ fetched' = [fetched EXCEPT ![r] = NoAnswer]
  /\ UNCHANGED <<setup, now, keyVars, cache, policyVars, ask, missed, found, tenants, org,
                 seen, window>>

(* fetchJWKS notes the time, getSigningKey replaces the cache and unlocks. *)
Store(r) ==
  /\ pc[r] = "store"
  /\ cache' = [keys |-> fetched[r].keys, at |-> now]
  /\ writer' = None
  /\ Goto(r, IF ask[r].kid \in fetched[r].keys THEN "verify" ELSE "nokey")
  /\ found' = [found EXCEPT ![r] = IF ask[r].kid \in fetched[r].keys THEN now ELSE None]
  /\ fetched' = [fetched EXCEPT ![r] = NoAnswer]
  /\ UNCHANGED <<setup, now, keyVars, failures, policyVars, ask, missed, tenants, org, seen, window>>

(* The rest of Authenticate: the signature and the claims. *)
Authenticate(r) ==
  LET c == ask[r].claims IN
  /\ pc[r] = "verify"
  /\ IF /\ verifyRS256(ask[r]) /\ validateStandardClaims(c) /\ extractUser(c)
        /\ extractTenants(c) # {}
       THEN Goto(r, "tenancy") /\ tenants' = [tenants EXCEPT ![r] = extractTenants(c)]
       ELSE Goto(r, "401") /\ UNCHANGED tenants
  /\ UNCHANGED <<setup, now, keyVars, cacheVars, policyVars, ask, missed, fetched, found, org, seen,
                 window>>

----------------------------------------------------------------------------
(* Tenancy *)

DefaultTenancyLogic(r) == tenants[r]

GuestTenancyLogic(r) == {GuestTenant}

(* GuestTenancyLogic has no tenant to return if none is configured. *)
DetermineFails == setup.tenancy = "unset"

DetermineTenants(r) ==
  IF setup.tenancy = "guest" THEN GuestTenancyLogic(r) ELSE DefaultTenancyLogic(r)

(* Whether the subject may see the organization of the header.              *)
(* Mutant: it is not asked.                                                 *)
Contains_Any(r, o) == TRUE

Contains(r, o) == o \in DetermineTenants(r)

(* The middleware's outcomes: an organization or a refusal.  No             *)
(* authenticator and no tenancy logic makes a universal set of tenants.     *)
TenancyOf(r) ==
  LET h == ask[r].org
      ts == DetermineTenants(r) IN
  IF h # None
    THEN IF Parse[h] = Invalid THEN "400"
         ELSE IF DetermineFails THEN "500"
         ELSE IF Contains(r, Parse[h]) THEN Parse[h] ELSE "403"
    ELSE IF DetermineFails THEN "500"
         ELSE IF Cardinality(ts) # 1 THEN "400"
         ELSE LET t == CHOOSE t \in ts : TRUE IN IF Parse[t] = Invalid THEN "500" ELSE Parse[t]

Resolve(r, o) ==
  /\ IF o \in TenancyRefusals THEN Goto(r, o) /\ UNCHANGED org
     ELSE Goto(r, "authz") /\ org' = [org EXCEPT ![r] = o]
  /\ UNCHANGED <<setup, now, keyVars, cacheVars, policyVars, ask, missed, fetched, found, tenants,
                 seen, window>>

Tenancy(r) ==
  pc[r] = "tenancy" /\ ask[r].via = "http" /\ Resolve(r, TenancyOf(r))

(* The interceptors take the first default tenant of a map, thus any. *)
Intercept(r, via) ==
  /\ pc[r] = "tenancy" /\ ask[r].via = via
  /\ \E t \in DetermineTenants(r) :
       Resolve(r, IF DetermineFails \/ Parse[t] = Invalid THEN "500" ELSE Parse[t])

AuthInterceptor(r) == Intercept(r, "unary")

StreamAuthInterceptor(r) == Intercept(r, "stream")

----------------------------------------------------------------------------
(* AuthZ *)

(* Authorize takes the loaded policies, under the read lock ... *)
AuthZ(r) ==
  /\ pc[r] = "authz"
  /\ IF setup.authz = "allowAll" THEN Goto(r, "served") /\ UNCHANGED seen
     ELSE Goto(r, "eval") /\ seen' = [seen EXCEPT ![r] = compiler]
  /\ UNCHANGED <<setup, now, keyVars, cacheVars, policyVars, ask, missed, fetched, found, tenants,
                 org, window>>

(* ... and evaluates them without it. *)
Evaluate(r) ==
  /\ pc[r] = "eval"
  /\ Goto(r, IF ask[r].verb \in Policy[seen[r]] THEN "served" ELSE "403")
  /\ UNCHANGED <<setup, now, keyVars, cacheVars, policyVars, ask, missed, fetched, found, tenants,
                 org, seen, window>>

(* loadPolicies lists the directory ... *)
ReadDir(l) ==
  /\ setup.authz = "opa" /\ reading[l] = None
  /\ reading' = [reading EXCEPT ![l] = [f \in 1..Files |-> None]]
  /\ overlapped' = (overlapped \/ \E m \in Reloaders : reading[m] # None)
  /\ UNCHANGED <<setup, now, keyVars, cacheVars, dir, compiler, requestVars>>

(* ... and reads its files one after the other; a file that cannot be read   *)
(* ends it.                                                                  *)
ReadFile(l, f) ==
  /\ reading[l] # None /\ reading[l][f] = None
  /\ \A g \in 1..(f - 1) : reading[l][g] # None
  /\ \/ reading' = [reading EXCEPT ![l] = [@ EXCEPT ![f] = dir[f]]]
     \/ reading' = [reading EXCEPT ![l] = None]
  /\ UNCHANGED <<setup, now, keyVars, cacheVars, dir, compiler, overlapped, requestVars>>

(* Whether the policies that were read take the place of the loaded ones.   *)
(* Mutant: also if parsing or compiling them failed.                        *)
Compiles_Any(v) == TRUE

Compiles(v) == v \notin Broken

InstallPolicies(l) ==
  /\ reading[l] # None /\ \A f \in 1..Files : reading[l][f] # None
  /\ compiler' = IF Compiles(reading[l]) THEN reading[l] ELSE compiler
  /\ reading' = [reading EXCEPT ![l] = None]
  /\ window' = [r \in Requests |-> IF pc[r] = "new" THEN window[r] ELSE window[r] \cup {compiler'}]
  /\ UNCHANGED <<setup, now, keyVars, cacheVars, dir, overlapped, pc, ask, missed, fetched, found,
                 tenants, org, seen>>

----------------------------------------------------------------------------
(* The environment: operators, the realm, which rotates its signing keys, *)
(* and time.                                                              *)

EditPolicies(f) ==
  /\ Active /\ setup.authz = "opa"
  /\ dir' = [dir EXCEPT ![f] = @ + 1] /\ dir' \in DOMAIN Policy
  /\ UNCHANGED <<setup, now, keyVars, cacheVars, compiler, reading, overlapped, requestVars>>

Publish(k) ==
  /\ Active /\ k \notin published /\ retired[k] = None
  /\ published' = published \cup {k}
  /\ UNCHANGED <<setup, now, retired, cacheVars, policyVars, requestVars>>

Retire(k) ==
  /\ Active /\ k \in published
  /\ published' = published \ {k} /\ retired' = [retired EXCEPT ![k] = now]
  /\ missed' = missed \cup {r \in Requests : ask[r] # None /\ ask[r].kid = k}
  /\ UNCHANGED <<setup, now, cacheVars, policyVars, pc, ask, fetched, found, tenants, org, seen,
                 window>>

(* A fetch does not outlast the client's timeout. *)
Tick ==
  /\ Active /\ now < setup.until
  /\ \A r \in Requests : pc[r] \in {"fetch", "store"} => now < fetched[r].from + Timeout
  /\ now' = now + 1
  /\ UNCHANGED <<setup, keyVars, cacheVars, policyVars, requestVars>>

Init ==
  /\ setup \in Setups /\ now = 0
  /\ published = Initial /\ retired = [k \in Keys |-> None]
  /\ cache = None /\ writer = None /\ failures = 0
  /\ dir = [f \in 1..Files |-> 1] /\ compiler = dir /\ overlapped = FALSE
  /\ reading = [l \in Reloaders |-> None]
  /\ pc = [r \in Requests |-> "new"] /\ ask = [r \in Requests |-> None]
  /\ missed = {}
  /\ fetched = [r \in Requests |-> NoAnswer]
  /\ found = [r \in Requests |-> None] /\ tenants = [r \in Requests |-> {}]
  /\ org = [r \in Requests |-> None] /\ seen = [r \in Requests |-> None]
  /\ window = [r \in Requests |-> {}]

RequestStep(r) ==
  \/ ReadCache(r) \/ Acquire(r) \/ Answer(r) \/ FetchFails(r) \/ Store(r) \/ Authenticate(r)
  \/ Tenancy(r) \/ AuthInterceptor(r) \/ StreamAuthInterceptor(r) \/ AuthZ(r) \/ Evaluate(r)

Next ==
  \/ \E r \in Requests : RequestStep(r) \/ \E a \in setup.asks[r] : Arrive(r, a)
  \/ \E l \in Reloaders :
       ReadDir(l) \/ InstallPolicies(l) \/ \E f \in 1..Files : ReadFile(l, f)
  \/ \E k \in setup.rotating : Publish(k) \/ Retire(k)
  \/ Tick \/ \E f \in 1..Files : EditPolicies(f)

Spec == Init /\ [][Next]_vars

(* The goroutine of a request goes on, and a fetch ends, by the timeout at   *)
(* the latest.                                                               *)
LiveSpec == Spec /\ \A r \in Requests : WF_vars(RequestStep(r))

----------------------------------------------------------------------------

(* A key that the realm has withdrawn is found for less than the lifetime of *)
(* the cache and the time of one fetch: the age of the cache counts from the *)
(* end of a fetch, and the answer may be as old as the fetch took.           *)
RetiredKeyLapses ==
  \A r \in Requests :
    (found[r] # None /\ retired[ask[r].kid] # None)
      => found[r] - retired[ask[r].kid] < TTL + Timeout

(* A request whose key the realm has published since before it arrived is    *)
(* not refused for want of it: a kid that the cache does not know is fetched *)
(* however fresh the cache.                                                  *)
PublishedKeyIsFound ==
  \A r \in Requests : pc[r] = "nokey" => (r \in missed \/ ask[r].kid \notin Usable)

(* A request that reaches its handler had a token that had not expired when  *)
(* its key was found, acts in an organization of its subject's, and was      *)
(* allowed by policies that were loaded at some time while it went on.       *)
ServedIsEntitled ==
  \A r \in Requests : pc[r] = "served" =>
    /\ found[r] # None => ask[r].claims.exp >= found[r]
    /\ org[r] \in {Parse[t] : t \in tenants[r] \cup {GuestTenant}} \ {Invalid}
    /\ setup.tenancy = "default" => org[r] \in {Parse[t] : t \in tenants[r]}
    /\ setup.authz = "opa" => \E v \in window[r] : ask[r].verb \in Policy[v]

(* Policies that do not compile are never loaded, and an older version of a   *)
(* file never takes the place of a newer one unless two reloads went on at    *)
(* once.  What is loaded need not be what the directory ever held: the files  *)
(* are read one by one.                                                       *)
PoliciesMoveForward ==
  [][/\ compiler' \notin Broken
     /\ overlapped \/ \A f \in 1..Files : compiler'[f] >= compiler[f]]_vars

(* Every request ends, whatever happens to the fetches it makes or waits for. *)
EveryRequestEnds == \A r \in Requests : pc[r] = "lookup" ~> Ended(r)

=============================================================================
