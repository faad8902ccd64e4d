------------------------- MODULE RequestAuthProofs -------------------------
(***************************************************************************)
(* Proofs about RequestAuth, for any number of requests, keys, versions of *)
(* the policies and reloads, and any lifetime of the cache and timeout.    *)
(* KeyInv is about the cache of signing keys, PolicyInv about reloading;   *)
(* the two share no variable.                                              *)
(***************************************************************************)
EXTENDS RequestAuth, FiniteSetTheorems, TLAPS

Places == Refusals \cup {"new", "lookup", "wait", "fetch", "store", "verify", "tenancy", "authz",
                         "eval", "served"}

KeyTypes ==
  /\ now \in Nat /\ published \subseteq Keys
  /\ retired \in [Keys -> Nat \cup {None}]
  /\ cache = None \/ cache \in [keys : SUBSET Keys, at : Nat]
  /\ fetched \in [Requests -> [keys : SUBSET Keys, from : Nat]]
  /\ found \in [Requests -> Nat \cup {None}]
  /\ pc \in [Requests -> Places] /\ DOMAIN ask = Requests
  /\ setup \in Setups

(* Nothing has happened later than now, a key that was withdrawn is not      *)
(* published again, and a fetch in progress has not outlasted its timeout.   *)
TimeInv ==
  /\ \A k \in Keys : retired[k] # None => k \notin published /\ retired[k] <= now
  /\ cache # None => cache.at <= now
  /\ \A r \in Requests :
       /\ found[r] # None => pc[r] # "new" /\ found[r] <= now /\ ask[r].kid \in Keys
       /\ pc[r] \in {"fetch", "store"} =>
            fetched[r].from <= now /\ now <= fetched[r].from + Timeout

(* A key was published when the fetch that found it began, or later; so that *)
(* the cache is at most a timeout younger than the withdrawal of its keys.   *)
AgeInv ==
  /\ \A r \in Requests : pc[r] \in {"fetch", "store"} =>
       \A k \in fetched[r].keys : retired[k] # None => fetched[r].from <= retired[k]
  /\ cache # None =>
       \A k \in cache.keys : retired[k] # None => cache.at <= retired[k] + Timeout

(* Until its fetch has been answered, the key of a request that has not      *)
(* missed it is published; afterwards it is in the answer.                   *)
MissInv ==
  \A r \in Requests :
    /\ pc[r] # "new" => ask[r] # None
    /\ pc[r] \in {"lookup", "wait", "fetch", "store"} /\ r \notin missed =>
         ask[r].kid \in published
    /\ pc[r] = "store" /\ r \notin missed /\ ask[r].kid \in Usable =>
         ask[r].kid \in fetched[r].keys

KeyInv ==
  KeyTypes /\ TimeInv /\ AgeInv /\ MissInv /\ RetiredKeyLapses /\ PublishedKeyIsFound

(* Initially nothing is cached, and no request has arrived. *)
LEMMA InitKeyInv == Init => KeyInv
  <1> SUFFICES ASSUME Init PROVE KeyInv
    OBVIOUS
  <1> USE RequestAuthAssumption DEF Init, NoAnswer
  <1>1. KeyTypes
    BY DEF KeyTypes, Places, Refusals
  <1>2. TimeInv /\ AgeInv
    BY DEF TimeInv, AgeInv
  <1>3. MissInv /\ RetiredKeyLapses /\ PublishedKeyIsFound
    BY DEF MissInv, RetiredKeyLapses, PublishedKeyIsFound
  <1> QED BY <1>1, <1>2, <1>3 DEF KeyInv

(* A request that goes on to a place past the search for its key disturbs    *)
(* nothing: Authenticate, Tenancy, the interceptors, AuthZ and Evaluate.     *)
LEMMA PastKeyInv ==
  ASSUME KeyInv, NEW r \in Requests, NEW p \in {"tenancy", "authz", "eval", "served", "400",
                                                "401", "403", "500"},
         pc[r] # "new", Goto(r, p),
         UNCHANGED <<setup, now, keyVars, cacheVars, ask, missed, fetched, found>>
  PROVE  KeyInv'
  <1> USE DEF KeyInv, Goto, keyVars, cacheVars
  <1>1. KeyTypes'
    BY DEF KeyTypes, Places, Refusals, TenancyRefusals
  <1>2. TimeInv' /\ AgeInv'
    BY DEF KeyTypes, TimeInv, AgeInv
  <1>3. MissInv' /\ RetiredKeyLapses' /\ PublishedKeyIsFound'
    BY DEF KeyTypes, MissInv, RetiredKeyLapses, PublishedKeyIsFound
  <1> QED BY <1>1, <1>2, <1>3

(* An arriving request has found no key yet. *)
LEMMA ArriveKeyInv ==
  ASSUME KeyInv, NEW r \in Requests, NEW a \in setup.asks[r], Arrive(r, a)
  PROVE  KeyInv'
  <1> USE DEF KeyInv, Goto, keyVars, cacheVars
  <1>1. a # None
    BY RequestAuthAssumption DEF KeyTypes
  <1>2. PICK p \in {"tenancy", "lookup", "401"} : pc' = [pc EXCEPT ![r] = p]
    BY DEF Arrive
  <1>3. KeyTypes'
    BY <1>2 DEF Arrive, KeyTypes, Places, Refusals
  <1>4. TimeInv' /\ AgeInv'
    BY <1>2 DEF Arrive, KeyTypes, TimeInv, AgeInv
  <1>5. MissInv'
    BY <1>1, <1>2 DEF Arrive, KeyTypes, MissInv
  <1>6. RetiredKeyLapses' /\ PublishedKeyIsFound'
    BY <1>2 DEF Arrive, KeyTypes, TimeInv, RetiredKeyLapses, PublishedKeyIsFound
  <1> QED BY <1>3, <1>4, <1>5, <1>6

(* A key found in a fresh cache was withdrawn, if at all, at most a timeout  *)
(* before the cache was filled, and that was less than TTL ago.              *)
LEMMA HitIsRecent ==
  ASSUME KeyInv, NEW k, Hit(k)
  PROVE  k \in Keys /\ (retired[k] # None => now - retired[k] < TTL + Timeout)
  BY RequestAuthAssumption DEF KeyInv, Hit, Fresh, KeyTypes, TimeInv, AgeInv

(* getSigningKey under the read lock. *)
LEMMA ReadCacheKeyInv ==
  ASSUME KeyInv, NEW r \in Requests, ReadCache(r)
  PROVE  KeyInv'
  <1> USE DEF KeyInv, Goto, keyVars, cacheVars
  <1>1. pc' = [pc EXCEPT ![r] = IF Hit(ask[r].kid) THEN "verify" ELSE "wait"]
    BY DEF ReadCache, Miss
  <1>2. KeyTypes'
    BY <1>1 DEF ReadCache, KeyTypes, Places
  <1>3. TimeInv' /\ AgeInv'
    BY <1>1, HitIsRecent DEF ReadCache, KeyTypes, TimeInv, AgeInv
  <1>4. MissInv' /\ PublishedKeyIsFound'
    BY <1>1 DEF ReadCache, KeyTypes, MissInv, PublishedKeyIsFound
  <1>5. RetiredKeyLapses'
    <2>1. CASE Hit(ask[r].kid)
      BY <2>1, HitIsRecent DEF ReadCache, KeyTypes, RetiredKeyLapses
    <2>2. CASE ~Hit(ask[r].kid)
      BY <2>2 DEF ReadCache, KeyTypes, RetiredKeyLapses
    <2> QED BY <2>1, <2>2
  <1> QED BY <1>2, <1>3, <1>4, <1>5

(* getSigningKey under the write lock: a hit, or the start of a fetch. *)
LEMMA AcquireKeyInv ==
  ASSUME KeyInv, NEW r \in Requests, Acquire(r)
  PROVE  KeyInv'
  <1> USE DEF KeyInv, Goto, keyVars
  <1>1. CASE MustFetch(ask[r].kid)
    <2>1. KeyTypes'
      BY <1>1, SMTT(30) DEF Acquire, KeyTypes, Places
    <2>2. Timeout \in Nat
      BY RequestAuthAssumption
    <2>3. TimeInv'
      BY <1>1, <2>2 DEF Acquire, KeyTypes, TimeInv
    <2>4. AgeInv'
      BY <1>1 DEF Acquire, KeyTypes, AgeInv
    <2>5. MissInv' /\ PublishedKeyIsFound' /\ RetiredKeyLapses'
      BY <1>1 DEF Acquire, KeyTypes, MissInv, PublishedKeyIsFound, RetiredKeyLapses
    <2> QED BY <2>1, <2>3, <2>4, <2>5
  <1>2. CASE ~MustFetch(ask[r].kid)
    <2>1. Hit(ask[r].kid)
      BY <1>2 DEF MustFetch
    <2>2. KeyTypes'
      BY <1>2 DEF Acquire, KeyTypes, Places
    <2>3. TimeInv' /\ AgeInv'
      BY <1>2, <2>1, HitIsRecent, SMTT(30) DEF Acquire, KeyTypes, TimeInv, AgeInv
    <2>4. MissInv' /\ PublishedKeyIsFound'
      BY <1>2 DEF Acquire, KeyTypes, MissInv, PublishedKeyIsFound
    <2>5. RetiredKeyLapses'
      BY <1>2, <2>1, HitIsRecent DEF Acquire, KeyTypes, RetiredKeyLapses
    <2> QED BY <2>2, <2>3, <2>4, <2>5
  <1> QED BY <1>1, <1>2

(* The realm answers with keys that it has not withdrawn, among them the     *)
(* request's own unless it has missed it or cannot be used.                  *)
LEMMA AnswerKeyInv ==
  ASSUME KeyInv, NEW r \in Requests, Answer(r)
  PROVE  KeyInv'
  <1> USE DEF KeyInv, Goto, keyVars, cacheVars, fetchJWKS
  <1>1. KeyTypes'
    BY RequestAuthAssumption DEF Answer, KeyTypes, Places
  <1>2. TimeInv' /\ AgeInv'
    BY DEF Answer, KeyTypes, TimeInv, AgeInv
  <1>3. MissInv' /\ PublishedKeyIsFound' /\ RetiredKeyLapses'
    BY DEF Answer, KeyTypes, MissInv, PublishedKeyIsFound, RetiredKeyLapses
  <1> QED BY <1>1, <1>2, <1>3

(* A fetch that fails leaves the cache as it was. *)
LEMMA FetchFailsKeyInv ==
  ASSUME KeyInv, NEW r \in Requests, FetchFails(r)
  PROVE  KeyInv'
  <1> USE DEF KeyInv, Goto, keyVars, NoAnswer
  <1>1. KeyTypes'
    BY DEF FetchFails, KeyTypes, Places, Refusals
  <1>2. TimeInv' /\ AgeInv'
    BY DEF FetchFails, KeyTypes, TimeInv, AgeInv
  <1>3. MissInv' /\ PublishedKeyIsFound' /\ RetiredKeyLapses'
    BY DEF FetchFails, KeyTypes, MissInv, PublishedKeyIsFound, RetiredKeyLapses
  <1> QED BY <1>1, <1>2, <1>3

(* The new cache is dated now, at most a timeout after the fetch began. *)
LEMMA StoreKeyInv ==
  ASSUME KeyInv, NEW r \in Requests, Store(r)
  PROVE  KeyInv'
  <1> USE RequestAuthAssumption DEF KeyInv, Goto, keyVars, NoAnswer
  <1>1. \A k \in fetched[r].keys :
          k \in Keys /\ (retired[k] # None => now <= retired[k] + Timeout)
    BY DEF Store, KeyTypes, TimeInv, AgeInv
  <1>2. KeyTypes'
    BY DEF Store, KeyTypes, Places, Refusals
  <1>3. TimeInv'
    BY <1>1 DEF Store, KeyTypes, TimeInv
  <1>4. AgeInv'
    BY <1>1 DEF Store, KeyTypes, AgeInv
  <1>5. MissInv' /\ PublishedKeyIsFound'
    BY DEF Store, KeyTypes, MissInv, PublishedKeyIsFound
  <1>6. RetiredKeyLapses'
    <2>1. CASE ask[r].kid \in fetched[r].keys
      BY <1>1, <2>1 DEF Store, KeyTypes, RetiredKeyLapses
    <2>2. CASE ask[r].kid \notin fetched[r].keys
      BY <2>2 DEF Store, KeyTypes, RetiredKeyLapses
    <2> QED BY <2>1, <2>2
  <1> QED BY <1>2, <1>3, <1>4, <1>5, <1>6

(* The steps of the realm and of the clock. *)
LEMMA RealmKeyInv ==
  ASSUME KeyInv, (\E k \in setup.rotating : Publish(k) \/ Retire(k)) \/ Tick
  PROVE  KeyInv'
  <1> USE RequestAuthAssumption DEF KeyInv, cacheVars, requestVars, keyVars
  <1>1. ASSUME NEW k \in setup.rotating, Publish(k) PROVE KeyInv'
    <2>1. k \in Keys
      BY DEF KeyTypes
    <2>2. KeyTypes' /\ TimeInv' /\ AgeInv'
      BY <1>1, <2>1 DEF Publish, KeyTypes, TimeInv, AgeInv
    <2>3. MissInv' /\ PublishedKeyIsFound' /\ RetiredKeyLapses'
      BY <1>1 DEF Publish, KeyTypes, MissInv, PublishedKeyIsFound, RetiredKeyLapses
    <2> QED BY <2>2, <2>3
  <1>2. ASSUME NEW k \in setup.rotating, Retire(k) PROVE KeyInv'
    <2>1. KeyTypes'
      BY <1>2 DEF Retire, KeyTypes
    <2>2. TimeInv' /\ AgeInv'
      BY <1>2 DEF Retire, KeyTypes, TimeInv, AgeInv
    <2>3. MissInv' /\ PublishedKeyIsFound'
      BY <1>2 DEF Retire, KeyTypes, MissInv, PublishedKeyIsFound
    <2>4. RetiredKeyLapses'
      BY <1>2 DEF Retire, KeyTypes, TimeInv, RetiredKeyLapses
    <2> QED BY <2>1, <2>2, <2>3, <2>4
  <1>3. CASE Tick
    <2>1. KeyTypes' /\ TimeInv' /\ AgeInv'
      BY <1>3 DEF Tick, KeyTypes, TimeInv, AgeInv
    <2>2. MissInv' /\ PublishedKeyIsFound' /\ RetiredKeyLapses'
      BY <1>3 DEF Tick, MissInv, PublishedKeyIsFound, RetiredKeyLapses
    <2> QED BY <2>1, <2>2
  <1> QED BY <1>1, <1>2, <1>3

(* What changes neither the keys, the clock nor a request. *)
LEMMA ElsewhereKeyInv ==
  ASSUME KeyInv, UNCHANGED <<setup, now, keyVars, cacheVars, pc, ask, missed, fetched, found>>
  PROVE  KeyInv'
  BY DEF KeyInv, keyVars, cacheVars, KeyTypes, TimeInv, AgeInv, MissInv, RetiredKeyLapses,
         PublishedKeyIsFound

(* Every step preserves the invariant about the keys. *)
LEMMA NextKeyInv == KeyInv /\ [Next]_vars => KeyInv'
  <1> SUFFICES ASSUME KeyInv, [Next]_vars PROVE KeyInv'
    OBVIOUS
  <1>1. ASSUME NEW r \in Requests, RequestStep(r) PROVE KeyInv'
    <2>1. CASE ReadCache(r) \/ Acquire(r) \/ Answer(r) \/ FetchFails(r) \/ Store(r)
      BY <2>1, ReadCacheKeyInv, AcquireKeyInv, AnswerKeyInv, FetchFailsKeyInv, StoreKeyInv
    <2>2. CASE Authenticate(r)
      BY <2>2, PastKeyInv DEF Authenticate
    <2>3. ASSUME NEW o, pc[r] = "tenancy", Resolve(r, o) PROVE KeyInv'
      BY <2>3, PastKeyInv DEF Resolve, TenancyRefusals
    <2>4. CASE Tenancy(r) \/ AuthInterceptor(r) \/ StreamAuthInterceptor(r)
      BY <2>3, <2>4 DEF Tenancy, AuthInterceptor, StreamAuthInterceptor, Intercept
    <2>5. CASE AuthZ(r) \/ Evaluate(r)
      BY <2>5, PastKeyInv DEF AuthZ, Evaluate
    <2> QED BY <1>1, <2>1, <2>2, <2>4, <2>5 DEF RequestStep
  <1>2. ASSUME NEW r \in Requests, NEW a \in setup.asks[r], Arrive(r, a) PROVE KeyInv'
    BY <1>2, ArriveKeyInv
  <1>3. CASE (\E k \in setup.rotating : Publish(k) \/ Retire(k)) \/ Tick
    BY <1>3, RealmKeyInv
  <1>4. ASSUME NEW l \in Reloaders,
               ReadDir(l) \/ InstallPolicies(l) \/ \E f \in 1..Files : ReadFile(l, f)
        PROVE  KeyInv'
    BY <1>4, ElsewhereKeyInv DEF ReadDir, ReadFile, InstallPolicies, requestVars
  <1>5. CASE (\E f \in 1..Files : EditPolicies(f)) \/ UNCHANGED vars
    BY <1>5, ElsewhereKeyInv DEF EditPolicies, requestVars, vars
  <1> QED BY <1>1, <1>2, <1>3, <1>4, <1>5 DEF Next

(* However requests, fetches and rotations interleave, auth/keycloak.go      *)
(* finds a withdrawn key for less than JWKSCacheTTL and one timeout.         *)
THEOREM RetiredLapses == Spec => []RetiredKeyLapses
  BY InitKeyInv, NextKeyInv, PTL DEF Spec, KeyInv

(* A key that has been published throughout a request is found by            *)
(* getSigningKey, or its fetch fails: it is never reported as unknown.       *)
THEOREM PublishedFound == Spec => []PublishedKeyIsFound
  BY InitKeyInv, NextKeyInv, PTL DEF Spec, KeyInv

----------------------------------------------------------------------------
(* Reloading the policies *)

(* What is loaded compiles and is, file by file, no newer than the directory. *)
(* If no two reloads went on at once, the one that goes on, if any, has read   *)
(* of every file a version no older than the one loaded.                       *)
PolicyTypes ==
  /\ dir \in [1..Files -> Nat] /\ compiler \in [1..Files -> Nat] /\ overlapped \in BOOLEAN
  /\ DOMAIN reading = Reloaders
  /\ \A l \in Reloaders : reading[l] # None => reading[l] \in [1..Files -> Nat \cup {None}]

PolicyInv ==
  /\ PolicyTypes /\ compiler \notin Broken
  /\ \A f \in 1..Files : compiler[f] <= dir[f]
  /\ \A l \in Reloaders : reading[l] # None =>
       \A f \in 1..Files : reading[l][f] # None => reading[l][f] <= dir[f]
  /\ ~overlapped => \A l \in Reloaders : reading[l] # None =>
       /\ \A f \in 1..Files : reading[l][f] # None => compiler[f] <= reading[l][f]
       /\ \A m \in Reloaders : reading[m] # None => m = l

(* What a step may do to the policies loaded. *)
Forward ==
  /\ compiler' \notin Broken
  /\ overlapped \/ \A f \in 1..Files : compiler'[f] >= compiler[f]

(* Initially the first version of every file is loaded, and nobody reloads. *)
LEMMA InitPolicyInv == Init => PolicyInv
  <1> SUFFICES ASSUME Init PROVE PolicyInv
    OBVIOUS
  <1>1. /\ dir = [f \in 1..Files |-> 1] /\ compiler = [f \in 1..Files |-> 1]
        /\ compiler \notin Broken /\ overlapped \in BOOLEAN
    BY PoliciesAssumption, Zenon DEF Init
  <1>2. reading = [l \in Reloaders |-> None]
    BY DEF Init
  <1> QED BY <1>1, <1>2 DEF PolicyInv, PolicyTypes

(* loadPolicies lists the directory ... *)
LEMMA ReadDirPolicyInv ==
  ASSUME PolicyInv, NEW l \in Reloaders, ReadDir(l)
  PROVE  PolicyInv' /\ Forward
  <1>1. overlapped' \in BOOLEAN /\ UNCHANGED <<dir, compiler>>
    BY DEF ReadDir
  <1>2. ~overlapped' => ~overlapped /\ \A m \in Reloaders : reading[m] = None
    BY Zenon DEF ReadDir
  <1>3. reading' = [reading EXCEPT ![l] = [f \in 1..Files |-> None]]
    BY DEF ReadDir
  <1>4. DOMAIN reading = Reloaders
    BY DEF PolicyInv, PolicyTypes
  <1>5. \A m \in Reloaders : reading'[m] = IF m = l THEN [f \in 1..Files |-> None] ELSE reading[m]
    BY <1>3, <1>4
  <1> QED BY <1>1, <1>2, <1>3, <1>4, <1>5 DEF PolicyInv, PolicyTypes, Forward

(* ... reads a file, or fails to ... *)
LEMMA ReadFilePolicyInv ==
  ASSUME PolicyInv, NEW l \in Reloaders, NEW f \in 1..Files, ReadFile(l, f)
  PROVE  PolicyInv' /\ Forward
  <1>1. UNCHANGED <<dir, compiler, overlapped>> /\ reading[l] # None /\ DOMAIN reading = Reloaders
    BY DEF ReadFile, PolicyInv, PolicyTypes
  <1>0. /\ reading[l] \in [1..Files -> Nat \cup {None}]
        /\ dir \in [1..Files -> Nat] /\ compiler \in [1..Files -> Nat]
    BY <1>1, Zenon DEF PolicyInv, PolicyTypes
  <1>2. CASE reading' = [reading EXCEPT ![l] = [@ EXCEPT ![f] = dir[f]]]
    <2>1. \A m \in Reloaders : reading'[m] = IF m = l THEN [reading[l] EXCEPT ![f] = dir[f]] ELSE reading[m]
      BY <1>1, <1>2
    <2>2. \A g \in 1..Files : reading'[l][g] = IF g = f THEN dir[f] ELSE reading[l][g]
      BY <1>0, <2>1
    <2>3. reading'[l] \in [1..Files -> Nat \cup {None}]
      BY <1>0, <2>1
    <2>4. PolicyTypes'
      BY <1>1, <1>2, <2>1, <2>3 DEF PolicyInv, PolicyTypes
    <2>5. \A m \in Reloaders : reading'[m] # None => reading[m] # None
      BY <1>1, <2>1
    <2>6. ASSUME NEW m \in Reloaders, reading'[m] # None, NEW g \in 1..Files, reading'[m][g] # None
          PROVE  reading'[m][g] <= dir[g] /\ (overlapped \/ compiler[g] <= reading'[m][g])
      <3>1. compiler[g] <= dir[g] /\ dir[g] <= dir[g]
        BY <1>0 DEF PolicyInv
      <3>2. \/ reading'[m][g] = dir[g]
            \/ reading'[m][g] = reading[m][g] /\ reading[m] # None /\ reading[m][g] # None
        BY <1>1, <2>1, <2>2, <2>6
      <3> QED BY <3>1, <3>2 DEF PolicyInv
    <2> QED BY <1>1, <2>4, <2>5, <2>6, <1>0 DEF PolicyInv, Forward
  <1>3. CASE reading' = [reading EXCEPT ![l] = None]
    <2>1. \A m \in Reloaders : reading'[m] = IF m = l THEN None ELSE reading[m]
      BY <1>1, <1>3
    <2> QED BY <1>1, <1>3, <2>1 DEF PolicyInv, PolicyTypes, Forward
  <1> QED BY <1>2, <1>3 DEF ReadFile

(* ... and swaps the policies it has compiled. *)
LEMMA InstallPolicyInv ==
  ASSUME PolicyInv, NEW l \in Reloaders, InstallPolicies(l)
  PROVE  PolicyInv' /\ Forward
  <1>1. UNCHANGED <<dir, overlapped>> /\ DOMAIN reading = Reloaders
    BY DEF InstallPolicies, PolicyInv, PolicyTypes
  <1>2. \A m \in Reloaders : reading'[m] = IF m = l THEN None ELSE reading[m]
    BY <1>1 DEF InstallPolicies
  <1>3. reading[l] \in [1..Files -> Nat] /\ \A f \in 1..Files : reading[l][f] # None
    BY DEF InstallPolicies, PolicyInv, PolicyTypes
  <1>4. CASE compiler' = compiler
    BY <1>1, <1>2, <1>4 DEF InstallPolicies, PolicyInv, PolicyTypes, Forward
  <1>5. CASE compiler' = reading[l] /\ reading[l] \notin Broken
    <2>1. PolicyTypes'
      BY <1>1, <1>2, <1>3, <1>5 DEF InstallPolicies, PolicyInv, PolicyTypes
    <2>2. \A f \in 1..Files : compiler'[f] <= dir[f] /\ (overlapped \/ compiler[f] <= compiler'[f])
      BY <1>3, <1>5 DEF InstallPolicies, PolicyInv
    <2>3. ~overlapped => \A m \in Reloaders : reading'[m] = None
      BY <1>2 DEF InstallPolicies, PolicyInv
    <2> QED BY <1>1, <1>2, <1>5, <2>1, <2>2, <2>3 DEF PolicyInv, PolicyTypes, Forward
  <1> QED BY <1>4, <1>5 DEF InstallPolicies, Compiles

LEMMA ReloadPolicyInv ==
  ASSUME PolicyInv, NEW l \in Reloaders,
         ReadDir(l) \/ InstallPolicies(l) \/ \E f \in 1..Files : ReadFile(l, f)
  PROVE  PolicyInv' /\ Forward
  BY ReadDirPolicyInv, ReadFilePolicyInv, InstallPolicyInv

(* An operator writes a newer version of a file. *)
LEMMA EditPolicyInv ==
  ASSUME PolicyInv, NEW f \in 1..Files, EditPolicies(f)
  PROVE  PolicyInv' /\ Forward
  <1>1. UNCHANGED <<compiler, reading, overlapped>> /\ dir \in [1..Files -> Nat]
    BY DEF EditPolicies, PolicyInv, PolicyTypes
  <1>2. dir' \in [1..Files -> Nat] /\ \A g \in 1..Files : dir'[g] >= dir[g]
    BY <1>1 DEF EditPolicies
  <1>3. ASSUME NEW l \in Reloaders, reading[l] # None, NEW g \in 1..Files, reading[l][g] # None
        PROVE  reading[l][g] <= dir'[g]
    <2>1. reading[l][g] \in Nat /\ reading[l][g] <= dir[g]
      BY <1>3 DEF PolicyInv, PolicyTypes
    <2> QED BY <1>1, <1>2, <2>1
  <1>4. \A g \in 1..Files : compiler[g] <= dir'[g] /\ compiler[g] >= compiler[g]
    BY <1>1, <1>2 DEF PolicyInv, PolicyTypes
  <1> QED BY <1>1, <1>2, <1>3, <1>4 DEF PolicyInv, PolicyTypes, Forward

(* No other step touches the policies, but the operator who edits them. *)
LEMMA NextPolicyInv == PolicyInv /\ [Next]_vars => PolicyInv' /\ [Forward]_vars
  <1> SUFFICES ASSUME PolicyInv, [Next]_vars PROVE PolicyInv' /\ Forward
    OBVIOUS
  <1>1. CASE UNCHANGED policyVars
    BY <1>1 DEF policyVars, PolicyInv, PolicyTypes, Forward
  <1>2. ASSUME NEW r \in Requests, RequestStep(r) \/ \E a \in setup.asks[r] : Arrive(r, a)
        PROVE  UNCHANGED policyVars
    BY <1>2 DEF RequestStep, ReadCache, Acquire, Answer, FetchFails, Store, Authenticate, Tenancy,
                AuthInterceptor, StreamAuthInterceptor, Intercept, Resolve, AuthZ, Evaluate, Arrive
  <1>3. ASSUME NEW l \in Reloaders,
               ReadDir(l) \/ InstallPolicies(l) \/ \E f \in 1..Files : ReadFile(l, f)
        PROVE  PolicyInv' /\ Forward
    BY <1>3, ReloadPolicyInv
  <1>4. ASSUME NEW k \in setup.rotating, Publish(k) \/ Retire(k) PROVE UNCHANGED policyVars
    BY <1>4 DEF Publish, Retire
  <1>5. ASSUME NEW f \in 1..Files, EditPolicies(f) PROVE PolicyInv' /\ Forward
    BY <1>5, EditPolicyInv
  <1>6. CASE Tick \/ UNCHANGED vars
    BY <1>1, <1>6 DEF Tick, vars
  <1> QED BY <1>1, <1>2, <1>3, <1>4, <1>5, <1>6 DEF Next

(* The policies of auth/opa.go always compile, and go back to an older       *)
(* version of a file only after two calls of ReloadPolicies overlapped,      *)
(* however many files there are and whichever are edited while one reads.    *)
THEOREM PoliciesForward == Spec => PoliciesMoveForward
  BY InitPolicyInv, NextPolicyInv, PTL DEF Spec, PoliciesMoveForward, Forward

----------------------------------------------------------------------------
(* From the token to the handler *)

(* The organizations that the subject of r may act in. *)
OrgsOf(r) ==
  IF setup.tenancy = "default" THEN {Parse[t] : t \in tenants[r]} \ {Invalid}
  ELSE {Parse[t] : t \in tenants[r] \cup {GuestTenant}} \ {Invalid}

(* What is known of a request at every point of its way. *)
EntitledOf(r) ==
  /\ pc[r] # "new" => ask[r] \in setup.asks[r] /\ compiler \in window[r]
  /\ pc[r] \in {"tenancy", "authz", "eval", "served"} /\ found[r] # None =>
       ask[r].claims.exp \in Int /\ ask[r].claims.exp >= found[r]
  /\ pc[r] \in {"authz", "eval", "served"} => org[r] \in OrgsOf(r)
  /\ pc[r] = "eval" => seen[r] \in window[r]
  /\ pc[r] = "served" /\ setup.authz = "opa" => \E v \in window[r] : ask[r].verb \in Policy[v]

ContextTypes ==
  /\ DOMAIN tenants = Requests /\ DOMAIN org = Requests /\ DOMAIN seen = Requests
  /\ DOMAIN window = Requests

EntitledInv == ContextTypes /\ \A r \in Requests : EntitledOf(r)

(* A request that does not move itself keeps what is known of it. *)
LEMMA EntitledStays ==
  ASSUME NEW r \in Requests, EntitledOf(r), setup' = setup,
         pc'[r] = pc[r], ask'[r] = ask[r], found'[r] = found[r], tenants'[r] = tenants[r],
         org'[r] = org[r], seen'[r] = seen[r],
         window[r] \subseteq window'[r], pc[r] # "new" => compiler' \in window'[r]
  PROVE  EntitledOf(r)'
  <1>1. OrgsOf(r)' = OrgsOf(r)
    BY DEF OrgsOf
  <1> QED BY <1>1 DEF EntitledOf

(* A request that has not reached Tenancy, or was refused, is entitled to    *)
(* nothing yet.                                                              *)
LEMMA EntitledBefore ==
  ASSUME NEW r \in Requests, EntitledOf(r), pc[r] # "new", setup' = setup, compiler' = compiler,
         ask'[r] = ask[r], window'[r] = window[r],
         pc'[r] \notin {"tenancy", "authz", "eval", "served"}
  PROVE  EntitledOf(r)'
  BY DEF EntitledOf

(* A request that moves on past Authenticate. *)
LEMMA EntitledAfter ==
  ASSUME NEW r \in Requests, EntitledOf(r), pc[r] \in {"tenancy", "authz", "eval"},
         UNCHANGED <<setup, compiler, ask, found, window, tenants>>
  PROVE  /\ OrgsOf(r)' = OrgsOf(r)
         /\ pc'[r] # "new" => ask'[r] \in setup'.asks[r] /\ compiler' \in window'[r]
         /\ found'[r] # None => ask'[r].claims.exp \in Int /\ ask'[r].claims.exp >= found'[r]
  BY DEF EntitledOf, OrgsOf

(* Authenticate accepts a token that has not expired, and its key was found  *)
(* before.                                                                   *)
LEMMA AuthenticateEntitled ==
  ASSUME KeyInv, EntitledInv, NEW r \in Requests, Authenticate(r)
  PROVE  EntitledOf(r)'
  <1>0. EntitledOf(r) /\ pc = [q \in Requests |-> pc[q]] /\ setup \in Setups
    BY DEF EntitledInv, KeyInv, KeyTypes
  <1>1. pc[r] = "verify" /\ UNCHANGED <<setup, now, compiler, ask, found, org, seen, window>>
    BY DEF Authenticate, policyVars
  <1>2. ask[r] \in setup.asks[r] /\ ask[r].claims.exp \in Int \cup {None} /\ now \in Nat
        /\ (found[r] # None => found[r] \in Nat /\ found[r] <= now)
    BY <1>0, <1>1, StringsAssumption DEF EntitledOf, KeyInv, KeyTypes, TimeInv
  <1>3. CASE pc'[r] = "401"
    BY <1>0, <1>1, <1>3, EntitledBefore
  <1>4. CASE pc'[r] = "tenancy"
    <2>1. ask[r].claims.exp # None /\ ask[r].claims.exp >= now
      BY <1>0, <1>4 DEF Authenticate, Goto, validateStandardClaims
    <2>2. found[r] # None => ask[r].claims.exp \in Int /\ ask[r].claims.exp >= found[r]
      BY <1>2, <2>1
    <2> QED BY <1>0, <1>1, <1>4, <2>2 DEF EntitledOf
  <1> QED BY <1>0, <1>3, <1>4 DEF Authenticate, Goto

(* The middleware and the interceptors resolve to an organization of the     *)
(* subject's: of a header, only if it is among the tenants.                  *)
LEMMA ResolvedIsOwn ==
  ASSUME NEW r \in Requests, setup \in Setups,
         pc[r] = "tenancy", EntitledOf(r)
  PROVE  /\ TenancyOf(r) \in TenancyRefusals \cup OrgsOf(r)
         /\ \A t \in DetermineTenants(r) : Parse[t] # Invalid => Parse[t] \in OrgsOf(r)
  <1> DEFINE h == ask[r].org
             ts == DetermineTenants(r)
  <1>1. \A t \in ts : Parse[t] # Invalid => Parse[t] \in OrgsOf(r)
    BY DEF DetermineTenants, DefaultTenancyLogic, GuestTenancyLogic, OrgsOf
  <1>2. CASE h # None
    <2>1. h \in DOMAIN Parse
      BY <1>2, StringsAssumption DEF EntitledOf
    <2>2. Parse[h] # Invalid /\ Parse[h] \in ts => Parse[h] \in OrgsOf(r)
      BY <1>1, <2>1, StringsAssumption
    <2> QED BY <1>1, <1>2, <2>2 DEF TenancyOf, Contains, TenancyRefusals
  <1>3. CASE h = None
    <2>0. CASE DetermineFails
      <3>1. TenancyOf(r) = "500"
        BY <1>3, <2>0, Zenon DEF TenancyOf
      <3> QED BY <1>1, <3>1 DEF TenancyRefusals
    <2>1. CASE Cardinality(ts) # 1
      BY <1>1, <1>3, <2>1 DEF TenancyOf, TenancyRefusals
    <2>2. CASE Cardinality(ts) = 1
      <3>1. ts # {}
        BY <2>2, FS_EmptySet
      <3>2. (CHOOSE t \in ts : TRUE) \in ts
        BY <3>1
      <3> QED BY <1>1, <1>3, <2>2, <3>2 DEF TenancyOf, TenancyRefusals
    <2> QED BY <2>0, <2>1, <2>2
  <1> QED BY <1>1, <1>2, <1>3

LEMMA ResolveEntitled ==
  ASSUME KeyInv, EntitledInv, NEW r \in Requests, NEW o \in TenancyRefusals \cup OrgsOf(r),
         pc[r] = "tenancy", Resolve(r, o)
  PROVE  EntitledOf(r)'
  <1>0. EntitledOf(r) /\ pc = [q \in Requests |-> pc[q]] /\ DOMAIN org = Requests
    BY DEF EntitledInv, ContextTypes, KeyInv, KeyTypes
  <1>1. UNCHANGED <<setup, compiler, ask, found, tenants, seen, window>>
    BY DEF Resolve, policyVars
  <1>2. CASE o \in TenancyRefusals
    BY <1>0, <1>1, <1>2, EntitledBefore DEF Resolve, Goto, TenancyRefusals
  <1>3. CASE o \notin TenancyRefusals
    <2>1. pc'[r] = "authz" /\ org'[r] = o
      BY <1>0, <1>3 DEF Resolve, Goto
    <2> QED BY <1>0, <1>1, <1>3, <2>1, EntitledAfter DEF EntitledOf
  <1> QED BY <1>2, <1>3

(* AuthZ takes the loaded policies, and Evaluate serves what they allow. *)
LEMMA AuthZEntitled ==
  ASSUME KeyInv, EntitledInv, NEW r \in Requests, AuthZ(r) \/ Evaluate(r)
  PROVE  EntitledOf(r)'
  <1>0. EntitledOf(r) /\ pc = [q \in Requests |-> pc[q]] /\ DOMAIN seen = Requests
    BY DEF EntitledInv, ContextTypes, KeyInv, KeyTypes
  <1>1. UNCHANGED <<setup, compiler, ask, found, tenants, org, window>> /\ pc[r] \in {"authz", "eval"}
    BY DEF AuthZ, Evaluate, policyVars
  <1>2. CASE AuthZ(r)
    <2>1. \/ setup.authz = "allowAll" /\ pc'[r] = "served"
          \/ pc'[r] = "eval" /\ seen'[r] = compiler
      BY <1>0, <1>2 DEF AuthZ, Goto
    <2> QED BY <1>0, <1>1, <2>1, EntitledAfter DEF EntitledOf
  <1>3. CASE Evaluate(r)
    <2>1. /\ pc[r] = "eval"
          /\ \/ pc'[r] = "served" /\ ask[r].verb \in Policy[seen[r]]
             \/ pc'[r] = "403"
      BY <1>0, <1>3 DEF Evaluate, Goto
    <2> QED BY <1>0, <1>1, <2>1, EntitledAfter DEF EntitledOf
  <1> QED BY <1>2, <1>3

(* The context of every request stays one. *)
LEMMA ContextNext == ContextTypes /\ [Next]_vars => ContextTypes'
  <1> SUFFICES ASSUME ContextTypes, [Next]_vars PROVE ContextTypes'
    OBVIOUS
  <1> USE DEF ContextTypes
  <1>1. ASSUME NEW r \in Requests, RequestStep(r) PROVE ContextTypes'
    BY <1>1 DEF RequestStep, ReadCache, Acquire, Answer, FetchFails, Store, Authenticate, Tenancy,
                AuthInterceptor, StreamAuthInterceptor, Intercept, Resolve, AuthZ, Evaluate
  <1>2. ASSUME NEW r \in Requests, NEW a \in setup.asks[r], Arrive(r, a) PROVE ContextTypes'
    BY <1>2 DEF Arrive
  <1>3. ASSUME NEW l \in Reloaders,
               ReadDir(l) \/ InstallPolicies(l) \/ \E f \in 1..Files : ReadFile(l, f)
        PROVE  ContextTypes'
    BY <1>3 DEF ReadDir, ReadFile, InstallPolicies, requestVars
  <1>4. CASE (\E f \in 1..Files : EditPolicies(f)) \/ Tick \/ (\E k \in setup.rotating : Publish(k) \/ Retire(k)) \/ UNCHANGED vars
    BY <1>4 DEF EditPolicies, Tick, Publish, Retire, requestVars, vars
  <1> QED BY <1>1, <1>2, <1>3, <1>4, Zenon DEF Next

(* A request's own step. *)
LEMMA OwnEntitled ==
  ASSUME KeyInv, EntitledInv, NEW r \in Requests,
         RequestStep(r) \/ \E a \in setup.asks[r] : Arrive(r, a)
  PROVE  EntitledOf(r)'
  <1>0. /\ EntitledOf(r) /\ pc = [q \in Requests |-> pc[q]] /\ DOMAIN ask = Requests
        /\ DOMAIN window = Requests /\ setup \in Setups
    BY DEF EntitledInv, ContextTypes, KeyInv, KeyTypes
  <1>1. CASE ReadCache(r) \/ Acquire(r) \/ Answer(r) \/ FetchFails(r) \/ Store(r)
    <2>1. /\ pc[r] # "new" /\ UNCHANGED <<setup, compiler, ask, window>>
      BY <1>1 DEF ReadCache, Acquire, Answer, FetchFails, Store, policyVars
    <2>2. pc'[r] \notin {"tenancy", "authz", "eval", "served"}
      BY <1>0, <1>1 DEF ReadCache, Acquire, Answer, FetchFails, Store, Goto, Miss
    <2> QED BY <1>0, <2>1, <2>2, EntitledBefore
  <1>2. CASE Authenticate(r)
    BY <1>2, AuthenticateEntitled
  <1>3. CASE Tenancy(r)
    <2>1. pc[r] = "tenancy" /\ Resolve(r, TenancyOf(r))
      BY <1>3 DEF Tenancy
    <2>2. TenancyOf(r) \in TenancyRefusals \cup OrgsOf(r)
      BY <1>0, <2>1, ResolvedIsOwn
    <2> QED BY <2>1, <2>2, ResolveEntitled
  <1>4. CASE AuthInterceptor(r) \/ StreamAuthInterceptor(r)
    <2>1. PICK t \in DetermineTenants(r) :
                 Resolve(r, IF DetermineFails \/ Parse[t] = Invalid THEN "500" ELSE Parse[t])
      BY <1>4 DEF AuthInterceptor, StreamAuthInterceptor, Intercept
    <2>2. pc[r] = "tenancy"
      BY <1>4 DEF AuthInterceptor, StreamAuthInterceptor, Intercept
    <2>3. (IF DetermineFails \/ Parse[t] = Invalid THEN "500" ELSE Parse[t]) \in TenancyRefusals \cup OrgsOf(r)
      BY <1>0, <2>2, ResolvedIsOwn DEF TenancyRefusals
    <2> QED BY <2>1, <2>2, <2>3, ResolveEntitled
  <1>5. CASE AuthZ(r) \/ Evaluate(r)
    BY <1>5, AuthZEntitled
  <1>6. ASSUME NEW a \in setup.asks[r], Arrive(r, a) PROVE EntitledOf(r)'
    <2>1. /\ ask'[r] = a /\ window'[r] = {compiler} /\ UNCHANGED <<setup, compiler, found>>
          /\ pc'[r] \in {"tenancy", "lookup", "401"} /\ pc[r] = "new"
      BY <1>0, <1>6 DEF Arrive, Goto, policyVars
    <2>2. found'[r] = None
      BY <2>1, Zenon DEF KeyInv, TimeInv
    <2> QED BY <2>1, <2>2 DEF EntitledOf
  <1> QED BY <1>1, <1>2, <1>3, <1>4, <1>5, <1>6, Zenon DEF RequestStep

LEMMA EntitledNext == KeyInv /\ EntitledInv /\ [Next]_vars => EntitledInv'
  <1> SUFFICES ASSUME KeyInv, EntitledInv, [Next]_vars, NEW r \in Requests PROVE EntitledOf(r)'
    BY ContextNext DEF EntitledInv
  <1>0. /\ EntitledOf(r) /\ pc = [q \in Requests |-> pc[q]] /\ DOMAIN ask = Requests
        /\ found = [q \in Requests |-> found[q]] /\ ContextTypes
    BY DEF EntitledInv, KeyInv, KeyTypes
  <1>1. ASSUME NEW q \in Requests, RequestStep(q) \/ \E a \in setup.asks[q] : Arrive(q, a)
        PROVE  EntitledOf(r)'
    <2>1. CASE q = r
      BY <1>1, <2>1, OwnEntitled
    <2>2. CASE q # r
      <3>1. UNCHANGED <<setup, compiler>>
        BY <1>1 DEF RequestStep, ReadCache, Acquire, Answer, FetchFails, Store, Authenticate, Tenancy,
                    AuthInterceptor, StreamAuthInterceptor, Intercept, Resolve, AuthZ, Evaluate, Arrive,
                    policyVars
      <3>2. CASE RequestStep(q)
        <4>1. pc'[r] = pc[r] /\ ask'[r] = ask[r] /\ found'[r] = found[r] /\ window'[r] = window[r]
          BY <1>0, <2>2, <3>2
          DEF RequestStep, ReadCache, Acquire, Answer, FetchFails, Store, Authenticate, Tenancy,
              AuthInterceptor, StreamAuthInterceptor, Intercept, Resolve, AuthZ, Evaluate, Goto
        <4>2. tenants'[r] = tenants[r] /\ org'[r] = org[r] /\ seen'[r] = seen[r]
          BY <1>0, <2>2, <3>2
          DEF RequestStep, ReadCache, Acquire, Answer, FetchFails, Store, Authenticate, Tenancy,
              AuthInterceptor, StreamAuthInterceptor, Intercept, Resolve, AuthZ, Evaluate, ContextTypes
        <4> QED BY <1>0, <3>1, <4>1, <4>2, EntitledStays DEF EntitledOf
      <3>3. ASSUME NEW a \in setup.asks[q], Arrive(q, a) PROVE EntitledOf(r)'
        BY <1>0, <2>2, <3>1, <3>3, EntitledStays DEF Arrive, Goto, ContextTypes, EntitledOf
      <3> QED BY <1>1, <3>2, <3>3
    <2> QED BY <2>1, <2>2
  <1>2. ASSUME NEW l \in Reloaders, InstallPolicies(l) PROVE EntitledOf(r)'
    <2>1. UNCHANGED <<setup, pc, ask, found, tenants, org, seen>>
      BY <1>2 DEF InstallPolicies
    <2>2. window'[r] = IF pc[r] = "new" THEN window[r] ELSE window[r] \cup {compiler'}
      BY <1>2 DEF InstallPolicies
    <2> QED BY <1>0, <2>1, <2>2, EntitledStays
  <1>3. ASSUME UNCHANGED <<setup, compiler, pc, ask, found, tenants, org, seen, window>>
        PROVE  EntitledOf(r)'
    BY <1>0, <1>3, EntitledStays DEF EntitledOf
  <1>4. ASSUME NEW l \in Reloaders, ReadDir(l) \/ \E f \in 1..Files : ReadFile(l, f)
        PROVE  EntitledOf(r)'
    BY <1>3, <1>4 DEF ReadDir, ReadFile, requestVars
  <1>5. CASE (\E f \in 1..Files : EditPolicies(f)) \/ Tick \/ (\E k \in setup.rotating : Publish(k) \/ Retire(k)) \/ UNCHANGED vars
    BY <1>3, <1>5, Zenon DEF EditPolicies, Tick, Publish, Retire, requestVars, policyVars, vars
  <1> QED BY <1>1, <1>2, <1>4, <1>5 DEF Next

(* Nobody reaches a handler with a token that had expired when its key was   *)
(* found, in an organization other than the subject's, or against policies   *)
(* that were not loaded at some time while the request went on: whatever     *)
(* keys rotate, fetches fail and policies are reloaded underneath.           *)
THEOREM ServedEntitled == Spec => []ServedIsEntitled
  <1>1. Init => EntitledInv
    <2> SUFFICES ASSUME Init PROVE EntitledInv
      OBVIOUS
    <2>1. ContextTypes /\ \A r \in Requests : pc[r] = "new"
      BY DEF Init, ContextTypes
    <2> QED BY <2>1, Zenon DEF EntitledInv, EntitledOf
  <1>2. EntitledInv => ServedIsEntitled
    BY Zenon DEF EntitledInv, EntitledOf, OrgsOf, ServedIsEntitled
  <1> QED BY <1>1, <1>2, EntitledNext, InitKeyInv, NextKeyInv, PTL DEF Spec

=============================================================================
