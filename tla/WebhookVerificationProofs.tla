--------------------- MODULE WebhookVerificationProofs ---------------------
(***************************************************************************)
(* WebhookVerification for any webhooks, versions of the key, lives and    *)
(* bounds: a retired key leaves the cache in time, and a webhook signed    *)
(* with the published key is not refused for its signature.                *)
(***************************************************************************)
EXTENDS WebhookVerification, TLAPS

---------------------------------------------------------------------------
(* The inductive invariant *)

\* What the endpoint serves is not retired, nor is anything newer.
Serving == \A v \in Version : v >= endpoint => retired[v] = Never

\* Nothing is stamped with a time to come, nor with one after its retirement:
\* the clock is read before the endpoint is.
Stamps ==
    /\ cache.stamp <= now
    /\ cache.key # 0 => cache.stamp <= retired[cache.key]
    /\ \A h \in Hook : /\ hook[h].asked <= now
                       /\ hook[h].at = "served" /\ hook[h].got # 0
                          => hook[h].asked <= retired[hook[h].got]

\* The webhook was signed with a key that the endpoint has served ever since.
Genuine(h) == hook[h].known /\ hook[h].key # 0 /\ retired[hook[h].key] = Never

\* So its fetch brings that key, and its signature is not what it is refused for.
Served ==
    \A h \in Hook : Genuine(h) =>
        /\ endpoint = hook[h].key
        /\ hook[h].at = "served" => hook[h].got = hook[h].key
        /\ hook[h].at = "rejected" => hook[h].ok

\* A webhook that says its key is known has one.
Keyed == \A h \in Hook : hook[h].known => hook[h].key # 0

IInv == TypeOK /\ Serving /\ Stamps /\ Served /\ Keyed

---------------------------------------------------------------------------
(* Types *)

LEMMA NoHookType == NoHook \in HookTypes
<1>1. 0 \in 0..MaxVersion /\ 0 \in 0..MaxNow
  BY VerificationAssumption
<1> QED
  BY <1>1 DEF NoHook, HookTypes

\* A webhook keeps its type when a step gives it new values of theirs.
LEMMA HookRecords ==
    ASSUME NEW x \in HookTypes, NEW k \in 0..MaxVersion, NEW t \in 0..MaxNow,
           NEW b \in BOOLEAN, NEW c \in BOOLEAN, NEW n \in {0, 1}
    PROVE  /\ [x EXCEPT !.at = "due"] \in HookTypes
           /\ [x EXCEPT !.at = "begun", !.key = k, !.iat = t, !.known = b] \in HookTypes
           /\ [x EXCEPT !.at = "fetching", !.attempt = n, !.asked = t, !.got = k] \in HookTypes
           /\ [x EXCEPT !.at = "served", !.got = k] \in HookTypes
           /\ [x EXCEPT !.at = "sleeping", !.asked = t] \in HookTypes
           /\ [x EXCEPT !.at = "accepted", !.got = k] \in HookTypes
           /\ [x EXCEPT !.at = "rejected", !.key = k, !.known = b, !.ok = c] \in HookTypes
  BY DEF HookTypes

LEMMA HookFields ==
    ASSUME TypeOK, NEW h \in Hook
    PROVE  /\ hook[h] \in HookTypes
           /\ hook[h].key \in 0..MaxVersion /\ hook[h].got \in 0..MaxVersion
           /\ hook[h].iat \in 0..MaxNow /\ hook[h].asked \in 0..MaxNow
           /\ hook[h].attempt \in {0, 1}
           /\ hook[h].known \in BOOLEAN /\ hook[h].ok \in BOOLEAN
           /\ 0 \in 0..MaxVersion /\ 0 \in 0..MaxNow /\ now \in 0..MaxNow
  BY VerificationAssumption DEF TypeOK, HookTypes

LEMMA InitType == Init => TypeOK
  BY VerificationAssumption, NoHookType DEF Init, TypeOK, Empty, Version, Never

---------------------------------------------------------------------------
(* Changing one webhook *)

\* What the invariant asks of the webhook h, were it the record r.
Good(r) ==
    /\ r \in HookTypes
    /\ r.asked <= now
    /\ r.at = "served" /\ r.got # 0 => r.asked <= retired[r.got]
    /\ r.known => r.key # 0
    /\ r.known /\ r.key # 0 /\ retired[r.key] = Never =>
         /\ endpoint = r.key
         /\ r.at = "served" => r.got = r.key
         /\ r.at = "rejected" => r.ok

\* What it asks of a cache.
GoodCache(c) ==
    /\ c \in [key : 0..MaxVersion, stamp : 0..MaxNow]
    /\ c.stamp <= now
    /\ c.key # 0 => c.stamp <= retired[c.key]

LEMMA InvIsGood ==
    ASSUME IInv
    PROVE  GoodCache(cache) /\ \A h \in Hook : Good(hook[h])
  BY DEF IInv, TypeOK, Stamps, Served, Keyed, Genuine, Good, GoodCache

LEMMA GoodIsInv ==
    ASSUME IInv, UNCHANGED now, UNCHANGED keyVars, failures' \in 0..MaxFailures,
           GoodCache(cache'),
           NEW h \in Hook, NEW r, Good(r), hook' = [hook EXCEPT ![h] = r]
    PROVE  IInv'
<1>1. \A g \in Hook : Good(hook'[g])
  BY InvIsGood DEF IInv, TypeOK
<1>2. hook' \in [Hook -> HookTypes]
  BY DEF IInv, TypeOK, Good
<1>3. TypeOK'
  BY <1>2 DEF IInv, TypeOK, keyVars, GoodCache
<1>4. (Serving /\ Stamps /\ Served /\ Keyed)'
  BY <1>1 DEF IInv, Serving, Stamps, Served, Keyed, Genuine, Good, GoodCache, keyVars
<1> QED
  BY <1>3, <1>4 DEF IInv

\* A refusal is blamed on the key of no genuine webhook.
LEMMA RejectIsGood ==
    ASSUME IInv, NEW h \in Hook, NEW blame \in BOOLEAN, Reject(h, blame),
           blame => ~Genuine(h)
    PROVE  \E r : Good(r) /\ hook' = [hook EXCEPT ![h] = r]
<1> DEFINE r == [NoHook EXCEPT !.at = "rejected", !.key = hook[h].key,
                               !.known = hook[h].known, !.ok = ~blame]
<1>1. r \in HookTypes
  BY NoHookType, HookFields, HookRecords DEF IInv
<1>2. Good(r)
  <2>1. r.known = hook[h].known /\ r.key = hook[h].key /\ r.ok = ~blame /\ r.asked = 0
        /\ r.at = "rejected"
    BY DEF NoHook
  <2>2. hook[h].known => hook[h].key # 0
    BY DEF IInv, Keyed
  <2>3. Genuine(h) => ~blame /\ endpoint = hook[h].key
    BY DEF IInv, Served
  <2>4. 0 <= now
    BY HookFields DEF IInv
  <2> HIDE DEF r
  <2> QED
    BY <1>1, <2>1, <2>2, <2>3, <2>4 DEF Good, Genuine
<1> QED
  BY <1>2 DEF Reject

LEMMA AcceptIsGood ==
    ASSUME IInv, NEW h \in Hook, NEW key \in 0..MaxVersion, Accept(h, key)
    PROVE  \E r : Good(r) /\ hook' = [hook EXCEPT ![h] = r]
<1> DEFINE r == [NoHook EXCEPT !.at = "accepted", !.got = key]
<1>1. r \in HookTypes
  BY NoHookType, HookRecords, HookFields DEF IInv
<1>2. Good(r)
  <2>1. ~r.known /\ r.asked = 0 /\ r.at = "accepted"
    BY DEF NoHook
  <2>2. 0 <= now
    BY HookFields DEF IInv
  <2> HIDE DEF r
  <2> QED
    BY <1>1, <2>1, <2>2 DEF Good
<1> QED
  BY <1>2 DEF Accept

LEMMA FetchIsGood ==
    ASSUME IInv, NEW h \in Hook, NEW attempt \in {0, 1}, Fetch(h, attempt)
    PROVE  \E r : Good(r) /\ hook' = [hook EXCEPT ![h] = r]
<1> DEFINE r == [hook[h] EXCEPT !.at = "fetching", !.attempt = attempt, !.asked = now, !.got = 0]
<1>1. r \in HookTypes
  BY HookFields, HookRecords DEF IInv
<1>2. Good(r)
  <2>1. r.known = hook[h].known /\ r.key = hook[h].key /\ r.asked = now /\ r.at = "fetching"
    BY HookFields DEF IInv, HookTypes
  <2>2. now <= now
    BY HookFields DEF IInv
  <2> HIDE DEF r
  <2> QED
    BY <1>1, <2>1, <2>2, InvIsGood DEF Good
<1> QED
  BY <1>2 DEF Fetch

\* The second verdict is on the key that was fetched for it.
LEMMA JudgeIsGood ==
    ASSUME IInv, NEW h \in Hook, NEW key \in 0..MaxVersion, NEW attempt \in {0, 1},
           Judge(h, key, attempt),
           attempt = 1 /\ Genuine(h) => key = hook[h].key
    PROVE  \E r : Good(r) /\ hook' = [hook EXCEPT ![h] = r]
<1>1. CASE key # hook[h].key /\ attempt = 0
  BY <1>1, FetchIsGood DEF Judge
<1>2. CASE key # hook[h].key /\ attempt # 0
  <2>1. attempt = 1 /\ ~Genuine(h)
    BY <1>2
  <2> QED
    BY <1>2, <2>1, RejectIsGood DEF Judge
<1>3. CASE key = hook[h].key
  <2>1. CASE now - hook[h].iat > MaxAge
    BY <1>3, <2>1, RejectIsGood DEF Judge
  <2>2. CASE ~(now - hook[h].iat > MaxAge)
    BY <1>3, <2>2, AcceptIsGood DEF Judge
  <2> QED
    BY <2>1, <2>2
<1> QED
  BY <1>1, <1>2, <1>3

---------------------------------------------------------------------------
(* Steps *)

LEMMA InitInv == Init => IInv
<1> SUFFICES ASSUME Init PROVE IInv
  OBVIOUS
<1>1. Serving /\ Stamps /\ Served /\ Keyed
  BY VerificationAssumption
  DEF Init, Serving, Stamps, Served, Keyed, Genuine, NoHook, Empty, Version, Never
<1> QED
  BY <1>1, InitType DEF IInv

\* Plaid publishes its next key: what it retires was stamped before.
LEMMA PublishKeeps ==
    ASSUME IInv, Publish
    PROVE  IInv'
<1> USE DEF keyVars
<1>1. /\ now \in 0..MaxNow /\ MaxNow \in Nat /\ signing \in 1..MaxVersion
      /\ endpoint \in 0..signing /\ endpoint < signing /\ endpoint' = signing
      /\ retired \in [Version -> 0..Never] /\ MaxVersion \in Nat
  BY VerificationAssumption DEF IInv, TypeOK, Publish, Version
<1>2. retired' \in [Version -> 0..Never]
  BY <1>1 DEF Publish, Version, Never
<1>3. \A v \in Version : v # endpoint => retired'[v] = retired[v]
  BY <1>1 DEF Publish, Version
<1>4. endpoint # 0 => endpoint \in Version /\ retired'[endpoint] = now /\ retired[endpoint] = Never
  BY <1>1 DEF Publish, Version, IInv, Serving
<1>5. TypeOK'
  BY <1>1, <1>2 DEF IInv, TypeOK, Publish
<1>6. Serving'
  BY <1>1, <1>3 DEF IInv, Serving, Version
<1>7. Stamps'
  <2>1. cache'.stamp <= now' /\ \A h \in Hook : hook'[h].asked <= now'
    BY DEF IInv, Stamps, Publish
  <2>2. ASSUME NEW v \in 1..MaxVersion, NEW t \in Nat, t <= now, t <= retired[v]
        PROVE  t <= retired'[v]
    BY <1>1, <1>3, <1>4, <2>2 DEF Version
  <2>3. cache'.key # 0 => cache'.stamp <= retired'[cache'.key]
    BY <1>1, <2>2 DEF IInv, TypeOK, Stamps, Publish
  <2>4. ASSUME NEW h \in Hook, hook'[h].at = "served" /\ hook'[h].got # 0
        PROVE  hook'[h].asked <= retired'[hook'[h].got]
    BY <1>1, <2>2, <2>4 DEF IInv, TypeOK, HookTypes, Stamps, Publish
  <2> QED
    BY <2>1, <2>3, <2>4 DEF Stamps
<1>8. Served'
  <2>1. ASSUME NEW h \in Hook, Genuine(h)'
        PROVE  FALSE
    <3>1. hook[h].key \in Version /\ hook'[h] = hook[h]
      BY <1>1, <2>1 DEF IInv, TypeOK, HookTypes, Genuine, Publish, Version
    <3>2. hook[h].key # endpoint
      BY <1>1, <1>4, <2>1, <3>1 DEF Genuine, Never
    <3>3. Genuine(h)
      BY <1>3, <2>1, <3>1, <3>2 DEF Genuine, Never
    <3> QED
      BY <3>2, <3>3 DEF IInv, Served
  <2> QED
    BY <2>1 DEF Served
<1>9. Keyed'
  BY DEF IInv, Keyed, Publish
<1> QED
  BY <1>5, <1>6, <1>7, <1>8, <1>9 DEF IInv

LEMMA DeliverKeeps ==
    ASSUME IInv, NEW h \in Hook, Deliver(h)
    PROVE  IInv'
<1> DEFINE r == [NoHook EXCEPT !.at = "begun", !.key = signing, !.iat = now,
                               !.known = (endpoint = signing)]
<1>1. r \in HookTypes
  <2>1. signing \in 0..MaxVersion
    BY VerificationAssumption DEF IInv, TypeOK, Version
  <2> QED
    BY <2>1, NoHookType, HookRecords, HookFields DEF IInv
<1>2. Good(r)
  <2>1. r.known = (endpoint = signing) /\ r.key = signing /\ r.asked = 0 /\ r.at = "begun"
    BY DEF NoHook
  <2>2. 0 <= now /\ signing # 0
    BY HookFields, VerificationAssumption DEF IInv, TypeOK, Version
  <2> HIDE DEF r
  <2> QED
    BY <1>1, <2>1, <2>2 DEF Good
<1>3. GoodCache(cache) /\ cache' = cache /\ UNCHANGED now /\ UNCHANGED keyVars
      /\ failures' \in 0..MaxFailures
  BY InvIsGood DEF Deliver, keyVars, IInv, TypeOK
<1> QED
  BY <1>2, <1>3, GoodIsInv DEF Deliver

LEMMA AnnounceKeeps ==
    ASSUME IInv, NEW h \in Hook, Announce(h)
    PROVE  IInv'
<1> DEFINE r == [hook[h] EXCEPT !.at = "due"]
<1>1. r \in HookTypes
  BY HookFields, HookRecords DEF IInv
<1>2. Good(r)
  BY <1>1, InvIsGood, HookFields DEF Good, IInv, HookTypes
<1>3. GoodCache(cache) /\ cache' = cache /\ UNCHANGED now /\ UNCHANGED keyVars
      /\ failures' \in 0..MaxFailures /\ hook' = [hook EXCEPT ![h] = r]
  BY InvIsGood DEF Announce, keyVars, IInv, TypeOK, HookTypes
<1> QED
  BY <1>2, <1>3, GoodIsInv

LEMMA LookupKeeps ==
    ASSUME IInv, NEW h \in Hook, Lookup(h)
    PROVE  IInv'
<1>1. \E r : Good(r) /\ hook' = [hook EXCEPT ![h] = r]
  <2>1. CASE Cached
    <3>1. cache.key \in 0..MaxVersion
      BY DEF IInv, TypeOK
    <3> QED
      BY <2>1, <3>1, JudgeIsGood DEF Lookup
  <2>2. CASE ~Cached
    BY <2>2, FetchIsGood DEF Lookup
  <2> QED
    BY <2>1, <2>2
<1>2. GoodCache(cache') /\ UNCHANGED now /\ UNCHANGED keyVars /\ failures' \in 0..MaxFailures
  BY InvIsGood DEF Lookup, IInv, TypeOK
<1> QED
  BY <1>1, <1>2, GoodIsInv

\* What the endpoint serves is not retired at that moment.
LEMMA ServeKeeps ==
    ASSUME IInv, NEW h \in Hook, Serve(h)
    PROVE  IInv'
<1> DEFINE r == [hook[h] EXCEPT !.at = "served", !.got = endpoint]
<1>1. r \in HookTypes /\ endpoint \in 0..MaxVersion
  <2>1. endpoint \in 0..MaxVersion
    BY VerificationAssumption DEF IInv, TypeOK, Version
  <2> QED
    BY <2>1, HookFields, HookRecords DEF IInv
<1>2. endpoint # 0 => hook[h].asked <= retired[endpoint]
  <2> SUFFICES ASSUME endpoint # 0 PROVE hook[h].asked <= retired[endpoint]
    OBVIOUS
  <2>1. endpoint \in Version
    BY <1>1 DEF Version
  <2>2. retired[endpoint] = Never
    <3>1. endpoint >= endpoint
      BY <1>1
    <3> QED
      BY <2>1, <3>1 DEF IInv, Serving
  <2> QED
    BY <2>2, HookFields, VerificationAssumption DEF IInv, Never
<1>3. Good(r)
  <2>1. r.known = hook[h].known /\ r.key = hook[h].key /\ r.asked = hook[h].asked
        /\ r.at = "served" /\ r.got = endpoint
    BY HookFields DEF IInv, HookTypes
  <2> HIDE DEF r
  <2> QED
    BY <1>1, <1>2, <2>1, InvIsGood DEF Good
<1>4. GoodCache(cache) /\ cache' = cache /\ UNCHANGED now /\ UNCHANGED keyVars
      /\ failures' \in 0..MaxFailures /\ hook' = [hook EXCEPT ![h] = r]
  BY InvIsGood DEF Serve, keyVars, IInv, TypeOK, HookTypes
<1> QED
  BY <1>3, <1>4, GoodIsInv

LEMMA ArriveKeeps ==
    ASSUME IInv, NEW h \in Hook, Arrive(h)
    PROVE  IInv'
<1>1. hook[h].got \in 0..MaxVersion /\ hook[h].attempt \in {0, 1} /\ hook[h].asked \in 0..MaxNow
  BY DEF IInv, TypeOK, HookTypes
<1>2. \E r : Good(r) /\ hook' = [hook EXCEPT ![h] = r]
  <2>1. Genuine(h) => hook[h].got = hook[h].key
    BY DEF Arrive, IInv, Served
  <2> QED
    BY <1>1, <2>1, JudgeIsGood DEF Arrive
<1>3. GoodCache(cache')
  BY <1>1 DEF Arrive, Store, GoodCache, IInv, Stamps
<1>4. UNCHANGED now /\ UNCHANGED keyVars /\ failures' \in 0..MaxFailures
  BY DEF Arrive, IInv, TypeOK
<1> QED
  BY <1>2, <1>3, <1>4, GoodIsInv

\* A key that is served is found.
LEMMA NotFoundKeeps ==
    ASSUME IInv, NEW h \in Hook, NotFound(h)
    PROVE  IInv'
<1>1. \E r : Good(r) /\ hook' = [hook EXCEPT ![h] = r]
  <2>1. CASE hook[h].attempt = 0
    <3> DEFINE r == [hook[h] EXCEPT !.at = "sleeping", !.asked = 0]
    <3>1. r \in HookTypes
      BY HookFields, HookRecords DEF IInv
    <3>2. Good(r)
      <4>1. r.known = hook[h].known /\ r.key = hook[h].key /\ r.asked = 0 /\ r.at = "sleeping"
        BY HookFields DEF IInv, HookTypes
      <4>2. 0 <= now
        BY HookFields DEF IInv
      <4> HIDE DEF r
      <4> QED
        BY <3>1, <4>1, <4>2, InvIsGood DEF Good
    <3>3. hook' = [hook EXCEPT ![h] = r]
      BY <2>1 DEF NotFound, IInv, TypeOK, HookTypes
    <3> QED
      BY <3>2, <3>3
  <2>2. CASE hook[h].attempt # 0
    <3>1. ~Genuine(h)
      BY DEF NotFound, IInv, Served, Genuine
    <3> QED
      BY <2>2, <3>1, RejectIsGood DEF NotFound
  <2> QED
    BY <2>1, <2>2
<1>2. GoodCache(cache') /\ UNCHANGED now /\ UNCHANGED keyVars /\ failures' \in 0..MaxFailures
  BY InvIsGood DEF NotFound, IInv, TypeOK
<1> QED
  BY <1>1, <1>2, GoodIsInv

LEMMA WakeUpKeeps ==
    ASSUME IInv, NEW h \in Hook, WakeUp(h)
    PROVE  IInv'
<1>1. \E r : Good(r) /\ hook' = [hook EXCEPT ![h] = r]
  BY FetchIsGood DEF WakeUp
<1>2. GoodCache(cache') /\ UNCHANGED now /\ UNCHANGED keyVars /\ failures' \in 0..MaxFailures
  BY InvIsGood DEF WakeUp, IInv, TypeOK
<1> QED
  BY <1>1, <1>2, GoodIsInv

LEMMA FetchFailsKeeps ==
    ASSUME IInv, NEW h \in Hook, FetchFails(h)
    PROVE  IInv'
<1>1. \E r : Good(r) /\ hook' = [hook EXCEPT ![h] = r]
  BY RejectIsGood DEF FetchFails
<1>2. GoodCache(cache') /\ UNCHANGED now /\ UNCHANGED keyVars
  BY InvIsGood DEF FetchFails
<1>3. failures' \in 0..MaxFailures
  BY VerificationAssumption DEF FetchFails, IInv, TypeOK
<1> QED
  BY <1>1, <1>2, <1>3, GoodIsInv

LEMMA RespondKeeps ==
    ASSUME IInv, NEW h \in Hook, Respond(h)
    PROVE  IInv'
<1> DEFINE r == IF DoneAfter(hook[h].at) THEN NoHook ELSE [NoHook EXCEPT !.at = "due"]
<1>1. r \in HookTypes
  <2>1. [NoHook EXCEPT !.at = "due"] \in HookTypes
    BY NoHookType, HookRecords, HookFields DEF IInv
  <2> QED
    BY <2>1, NoHookType
<1>2. Good(r)
  <2>1. ~r.known /\ r.asked = 0 /\ r.at # "served"
    BY DEF NoHook
  <2>2. 0 <= now
    BY HookFields DEF IInv
  <2> HIDE DEF r
  <2> QED
    BY <1>1, <2>1, <2>2 DEF Good
<1>3. GoodCache(cache) /\ cache' = cache /\ UNCHANGED now /\ UNCHANGED keyVars
      /\ failures' \in 0..MaxFailures /\ hook' = [hook EXCEPT ![h] = r]
  BY InvIsGood DEF Respond, keyVars, IInv, TypeOK
<1> QED
  BY <1>2, <1>3, GoodIsInv

LEMMA NextKeeps == IInv /\ [Next]_vars => IInv'
<1> SUFFICES ASSUME IInv, [Next]_vars PROVE IInv'
  OBVIOUS
<1>1. CASE Tick
  <2>1. TypeOK'
    BY <1>1, VerificationAssumption DEF Tick, IInv, TypeOK
  <2>2. (Serving /\ Served /\ Keyed)'
    BY <1>1 DEF Tick, IInv, Serving, Served, Keyed, Genuine
  <2>3. Stamps'
    BY <1>1 DEF Tick, IInv, TypeOK, HookTypes, Stamps
  <2> QED
    BY <2>1, <2>2, <2>3 DEF IInv
<1>2. CASE Rotate
  <2>1. TypeOK'
    BY <1>2, VerificationAssumption DEF Rotate, IInv, TypeOK, Version
  <2>2. (Serving /\ Stamps /\ Served /\ Keyed)'
    BY <1>2 DEF Rotate, IInv, Serving, Stamps, Served, Keyed, Genuine
  <2> QED
    BY <2>1, <2>2 DEF IInv
<1>3. CASE Publish
  BY <1>3, PublishKeeps
<1>4. CASE \E h \in Hook : Announce(h) \/ Deliver(h) \/ Verify(h) \/ Respond(h)
  BY <1>4, AnnounceKeeps, DeliverKeeps, LookupKeeps, ServeKeeps, ArriveKeeps, NotFoundKeeps,
     WakeUpKeeps, FetchFailsKeeps, RespondKeeps DEF Verify
<1>5. CASE UNCHANGED vars
  BY <1>5 DEF vars, keyVars, IInv, TypeOK, Serving, Stamps, Served, Keyed, Genuine
<1> QED
  BY <1>1, <1>2, <1>3, <1>4, <1>5 DEF Next

LEMMA Invariant == Spec => []IInv
  BY InitInv, NextKeeps, PTL DEF Spec

---------------------------------------------------------------------------
(* Theorems *)

\* Types, and the endpoint is never ahead of Plaid.
THEOREM TypeCorrect == Spec => []TypeOK
<1>1. IInv => TypeOK
  BY DEF IInv
<1> QED
  BY <1>1, Invariant, PTL

\* A key that Plaid retired serves from the cache for less than _CACHE_TTL, since
\* an entry is stamped with a time before the endpoint was read.
THEOREM KeysExpire == Spec => []RetiredKeyExpires
<1>1. IInv => RetiredKeyExpires
  <2> SUFFICES ASSUME IInv, Cached PROVE now < retired[cache.key] + CacheTTL
    BY DEF RetiredKeyExpires
  <2>1. cache.key \in Version /\ cache.stamp \in 0..MaxNow /\ now \in 0..MaxNow
        /\ retired[cache.key] \in 0..Never
    BY DEF IInv, TypeOK, Cached, Version
  <2>2. cache.stamp <= retired[cache.key] /\ now - cache.stamp < CacheTTL
    BY DEF IInv, Stamps, Cached
  <2> QED
    BY <2>1, <2>2, VerificationAssumption DEF Never
<1> QED
  BY <1>1, Invariant, PTL

\* A webhook signed with the key that the endpoint serves all along is not
\* refused for its signature.
THEOREM GenuinePasses == Spec => []GenuineNotRefused
<1>1. IInv => GenuineNotRefused
  BY DEF IInv, TypeOK, Served, Keyed, Genuine, GenuineNotRefused
<1> QED
  BY <1>1, Invariant, PTL
=============================================================================
