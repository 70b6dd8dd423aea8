------------------------ MODULE WebhookVerification ------------------------
(***************************************************************************)
(* The verification of Plaid's webhooks (services/webhook_verification.py) *)
(* by the process that answers them (routes/webhooks.py): the cache of     *)
(* Plaid's public keys, filled by concurrent requests, and the second      *)
(* attempt with a fetched key.                                             *)
(*                                                                         *)
(* Entries of the cache do not interact, so there is one kid.  Its key has *)
(* versions.  Plaid is external: it signs every delivery of a webhook,     *)
(* redelivers one that was not answered with success, and its endpoint     *)
(* lags behind: it answers 404 until a first version is published, then    *)
(* the last version published.  The clock counts ticks of the order of the *)
(* lives below; steps of the code may take any part of a tick.             *)
(***************************************************************************)
EXTENDS Naturals

CONSTANTS
    Hook,         \* the webhooks that can be on their way
    CacheTTL,     \* _CACHE_TTL
    MaxAge,       \* _MAX_AGE
    Timeout,      \* the longest a fetch takes
    MaxVersion,   \* bound on the versions of the key
    MaxFailures,  \* bound on the fetches that fail
    MaxNow        \* bound on the clock

ASSUME VerificationAssumption ==
    /\ {CacheTTL, MaxAge, MaxVersion} \subseteq Nat \ {0}
    /\ {Timeout, MaxFailures, MaxNow} \subseteq Nat
    /\ Timeout < CacheTTL

VARIABLES
    now,        \* the clock
    signing,    \* the version Plaid signs with
    endpoint,   \* the version its endpoint serves, 0 for none
    retired,    \* retired[v]: when the endpoint stopped serving version v
    cache,      \* _jwk_cache: a version and the time it was stored under
    hook,       \* hook[h]: the webhook at Plaid, and the request that delivers it
    failures    \* fetches that failed so far

keyVars == <<signing, endpoint, retired>>
vars == <<now, signing, endpoint, retired, cache, hook, failures>>

Version == 1..MaxVersion

Never == MaxNow + 1

Empty == [key |-> 0, stamp |-> 0]

NoHook ==
    [at |-> "none", key |-> 0, iat |-> 0, known |-> FALSE, attempt |-> 0,
     asked |-> 0, got |-> 0, ok |-> TRUE]

Init ==
    /\ now = 0
    /\ signing = 1
    /\ endpoint = 0
    /\ retired = [v \in Version |-> Never]
    /\ cache = Empty
    /\ hook = [h \in Hook |-> NoHook]
    /\ failures = 0

Tick ==
    /\ now < MaxNow
    /\ now' = now + 1
    /\ UNCHANGED <<signing, endpoint, retired, cache, hook, failures>>

---------------------------------------------------------------------------
(* Plaid *)

Rotate ==
    /\ signing < MaxVersion
    /\ endpoint = signing
    /\ signing' = signing + 1
    /\ UNCHANGED <<now, endpoint, retired, cache, hook, failures>>

Publish ==
    /\ endpoint < signing
    /\ endpoint' = signing
    /\ retired' = IF endpoint = 0 THEN retired ELSE [retired EXCEPT ![endpoint] = now]
    /\ UNCHANGED <<now, signing, cache, hook, failures>>

\* A webhook that has something to tell.
Announce(h) ==
    /\ hook[h].at = "none"
    /\ hook' = [hook EXCEPT ![h].at = "due"]
    /\ UNCHANGED <<now, signing, endpoint, retired, cache, failures>>

\* It is signed, and its request begins; `known` says whether the endpoint
\* already serves the key.
Deliver(h) ==
    /\ hook[h].at = "due"
    /\ hook' = [hook EXCEPT ![h] =
         [NoHook EXCEPT !.at = "begun", !.key = signing, !.iat = now,
                      !.known = (endpoint = signing)]]
    /\ UNCHANGED <<now, signing, endpoint, retired, cache, failures>>

---------------------------------------------------------------------------
(* verify_plaid_webhook, one step to an await *)

\* An entry that _get_public_key may use.
Cached == cache.key # 0 /\ now - cache.stamp < CacheTTL

\* ValueError: 400, so that Plaid delivers the webhook again.  `ok` remembers
\* that the verdict was on the key, not on a fetch that failed.
Reject(h, blame) ==
    hook' = [hook EXCEPT ![h] =
      [NoHook EXCEPT !.at = "rejected", !.key = hook[h].key, !.known = hook[h].known, !.ok = ~blame]]

Accept(h, key) == hook' = [hook EXCEPT ![h] = [NoHook EXCEPT !.at = "accepted", !.got = key]]

\* The fetch of the next attempt, with the time read before it.
Fetch(h, attempt) ==
    hook' = [hook EXCEPT ![h] = [@ EXCEPT !.at = "fetching", !.attempt = attempt,
                                          !.asked = now, !.got = 0]]

\* Mutant: a signature that fails under the cached key is the last word.
JudgeOnce(h, key, attempt) ==
    IF key # hook[h].key THEN Reject(h, TRUE)
    ELSE IF now - hook[h].iat > MaxAge THEN Reject(h, FALSE)
    ELSE Accept(h, key)

\* Mutant: a wrong signature is always worth one more fetch.
JudgeAgain(h, key, attempt) ==
    IF key # hook[h].key THEN Fetch(h, attempt + 1)
    ELSE IF now - hook[h].iat > MaxAge THEN Reject(h, FALSE)
    ELSE Accept(h, key)

\* jwt.decode with that key, which is followed by the age check without an await;
\* a wrong signature has a second attempt, with a fetched key.
Judge(h, key, attempt) ==
    IF key # hook[h].key
    THEN IF attempt = 0 THEN Fetch(h, 1) ELSE Reject(h, TRUE)
    ELSE IF now - hook[h].iat > MaxAge THEN Reject(h, FALSE)
    ELSE Accept(h, key)

Lookup(h) ==
    /\ hook[h].at = "begun"
    /\ IF Cached THEN Judge(h, cache.key, 0) ELSE Fetch(h, 0)
    /\ UNCHANGED <<now, cache, failures>>
    /\ UNCHANGED keyVars

\* The endpoint reads its key; the answer is under way.
Serve(h) ==
    /\ hook[h].at = "fetching"
    /\ hook' = [hook EXCEPT ![h].at = "served", ![h].got = endpoint]
    /\ UNCHANGED <<now, cache, failures>>
    /\ UNCHANGED keyVars

InTime(h) == now <= hook[h].asked + Timeout

\* Mutant: the entry is stamped with the time of the answer.
StoreNow(h) == cache' = [key |-> hook[h].got, stamp |-> now]

\* The entry is stamped with the time read before the fetch.
Store(h) == cache' = [key |-> hook[h].got, stamp |-> hook[h].asked]

\* The key arrives: it overwrites the entry, even a newer one, and is used.
Arrive(h) ==
    /\ hook[h].at = "served"
    /\ hook[h].got # 0
    /\ InTime(h)
    /\ Store(h)
    /\ Judge(h, hook[h].got, hook[h].attempt)
    /\ UNCHANGED <<now, failures>>
    /\ UNCHANGED keyVars

\* A 404: the first time, it waits for the key to propagate and fetches again.
NotFound(h) ==
    /\ hook[h].at = "served"
    /\ hook[h].got = 0
    /\ InTime(h)
    /\ IF hook[h].attempt = 0
       THEN hook' = [hook EXCEPT ![h].at = "sleeping", ![h].asked = 0]
       ELSE Reject(h, TRUE)
    /\ UNCHANGED <<now, cache, failures>>
    /\ UNCHANGED keyVars

WakeUp(h) ==
    /\ hook[h].at = "sleeping"
    /\ Fetch(h, 1)
    /\ UNCHANGED <<now, cache, failures>>
    /\ UNCHANGED keyVars

\* Any other HTTP error, or no answer in time.
FetchFails(h) ==
    /\ hook[h].at \in {"fetching", "served"}
    /\ \/ ~InTime(h) /\ UNCHANGED failures
       \/ failures < MaxFailures /\ failures' = failures + 1
    /\ Reject(h, FALSE)
    /\ UNCHANGED <<now, cache>>
    /\ UNCHANGED keyVars

\* Mutant: the route answers 200 whatever the verdict.
DroppedAfter(verdict) == TRUE

\* What Plaid does not deliver again.
DoneAfter(verdict) == verdict = "accepted"

\* The answer arrives at Plaid.
Respond(h) ==
    /\ hook[h].at \in {"accepted", "rejected"}
    /\ hook' = [hook EXCEPT ![h] =
         IF DoneAfter(hook[h].at) THEN NoHook ELSE [NoHook EXCEPT !.at = "due"]]
    /\ UNCHANGED <<now, cache, failures>>
    /\ UNCHANGED keyVars

---------------------------------------------------------------------------
(* The whole *)

Verify(h) == Lookup(h) \/ Serve(h) \/ Arrive(h) \/ NotFound(h) \/ WakeUp(h) \/ FetchFails(h)

Next ==
    \/ Tick \/ Rotate \/ Publish
    \/ \E h \in Hook : Announce(h) \/ Deliver(h) \/ Verify(h) \/ Respond(h)

Spec == Init /\ [][Next]_vars

\* Plaid publishes and redelivers, and its endpoint answers; requests go on.
FairSpec ==
    /\ Spec
    /\ WF_vars(Publish)
    /\ \A h \in Hook :
         WF_vars(Deliver(h) \/ Lookup(h) \/ Serve(h) \/ Arrive(h) \/ NotFound(h)
                 \/ WakeUp(h) \/ FetchFails(h) \/ Respond(h))

---------------------------------------------------------------------------
(* Properties *)

HookTypes ==
    [at : {"none", "due", "begun", "fetching", "served", "sleeping", "accepted", "rejected"},
     key : 0..MaxVersion, iat : 0..MaxNow, known : BOOLEAN, attempt : {0, 1},
     asked : 0..MaxNow, got : 0..MaxVersion, ok : BOOLEAN]

\* Every variable has its type, and the endpoint is not ahead of Plaid.
TypeOK ==
    /\ now \in 0..MaxNow
    /\ signing \in Version
    /\ endpoint \in 0..signing
    /\ retired \in [Version -> 0..Never]
    /\ cache \in [key : 0..MaxVersion, stamp : 0..MaxNow]
    /\ hook \in [Hook -> HookTypes]
    /\ failures \in 0..MaxFailures

\* A key that Plaid has retired serves from the cache for less than _CACHE_TTL,
\* although slow answers are stored late and overwrite newer entries.
RetiredKeyExpires == Cached => now < retired[cache.key] + CacheTTL

\* A webhook signed with the key that the endpoint serves all along is not
\* refused for its signature, nor for an unknown key, whatever the cache holds.
GenuineNotRefused ==
    \A h \in Hook :
        /\ hook[h].at = "rejected"
        /\ ~hook[h].ok
        => ~hook[h].known \/ retired[hook[h].key] # Never

\* Every webhook is verified in the end, after deliveries that came before the
\* key, during its rotation or into a failing fetch.
WebhookVerified == \A h \in Hook : hook[h].at = "due" ~> hook[h].at = "accepted"

===========================================================================
