----------------------------- MODULE Sessions -----------------------------
(***************************************************************************)
(* The sessions of one user: the pairs of access and refresh tokens        *)
(* (services/jwt.py), the rotation of refresh tokens, logout and the       *)
(* revocation of everything issued before (routes/auth.py, db/deps.py),    *)
(* and the client that renews a session when a call is refused             *)
(* (frontend/src/api/index.js), over several browsers and tabs.            *)
(*                                                                         *)
(* Every `await` on Redis ends a step of a handler.  Time passes in ticks, *)
(* several to a second, since the code mixes instants with whole seconds:  *)
(* a token carries its iat and exp, and the revocation marker its time, in *)
(* whole seconds, while the keys in Redis expire at instants.  A key whose *)
(* `until` has passed is gone.                                             *)
(***************************************************************************)
EXTENDS Naturals, Sequences, FiniteSets

CONSTANTS
    Jar,          \* the browsers of the user: their cookies
    Tab,          \* the tabs in which the application is loaded
    Call,         \* the calls of the API that can be under way
    None,         \* no call
    JarOf,        \* JarOf[t]: the browser of tab t
    TabOf,        \* TabOf[c]: the tab that makes call c
    Second,       \* ticks in a second
    AccessLife,   \* seconds: JWT_EXPIRE_MINUTES
    RefreshLife,  \* seconds: REFRESH_EXPIRE_DAYS
    MaxNow,       \* bound on the clock
    MaxTokens,    \* bound on the pairs of tokens
    MaxEvents     \* bound on resets, logouts and deletions together

ASSUME SessionsAssumption ==
    /\ JarOf \in [Tab -> Jar]
    /\ TabOf \in [Call -> Tab]
    /\ IsFiniteSet(Call) /\ None \notin Call
    /\ Second \in Nat \ {0}
    /\ AccessLife \in Nat \ {0}
    /\ RefreshLife \in Nat
    /\ AccessLife <= RefreshLife
    /\ {MaxNow, MaxTokens, MaxEvents} \subseteq Nat

VARIABLES
    now,       \* the clock, in ticks
    pair,      \* pair[n]: the n-th pair of tokens, its family and iat
    family,    \* refresh_family:<id>, a family having the number of its first pair
    marker,    \* token_min_iat:<user>
    blocked,   \* token_blocklist:<jti>, for the access token of each pair
    jar,       \* jar[j]: the pair in the cookies of browser j, 0 without
    call,      \* call[c]: where a call is, the pair it carries, whose refresh it awaits
    request,   \* request[c]: the refresh that c asked for
    promise,   \* refreshPromise of each tab: the call that asked for the refresh
    ending,    \* ending[t]: the logout or deletion that tab t asked for
    lost,      \* whether the answer to a refresh was lost (once, at most)
    events     \* resets, logouts and deletions so far

countVars == <<lost, events>>
vars == <<now, pair, family, marker, blocked, jar, call, request, promise,
          ending, lost, events>>

Pairs == 1..MaxTokens

Minted == 1..Len(pair)

Gone == [cur |-> 0, until |-> 0]

Idle == [at |-> "idle", pair |-> 0, on |-> None]

NoRequest == [at |-> "none", pair |-> 0, new |-> 0]

NotEnding == [at |-> "none", kind |-> "logout", pair |-> 0]

Busy == {c \in Call : call[c].at # "idle"}

---------------------------------------------------------------------------
(* What the tokens and keys are worth *)

\* int(time.time()), and the iat of a token.
WholeSecond == now \div Second

Alive(until) == now < until

FamilyOf(n) == pair[n].fam

\* PyJWT refuses a token from the second of its exp on.
AccessExpired(n) == (pair[n].iat + AccessLife) * Second <= now

RefreshExpired(n) == (pair[n].iat + RefreshLife) * Second <= now

\* The iat comparison of get_current_user and of refresh.
IssuedBefore(n) == Alive(marker.until) /\ pair[n].iat < marker.min

\* get_current_user.
Accepts(n) ==
    /\ n # 0
    /\ ~AccessExpired(n)
    /\ ~Alive(blocked[n])
    /\ ~IssuedBefore(n)

Init ==
    /\ now = 0
    /\ pair = <<>>
    /\ family = [f \in Pairs |-> Gone]
    /\ marker = [min |-> 0, until |-> 0]
    /\ blocked = [n \in Pairs |-> 0]
    /\ jar = [j \in Jar |-> 0]
    /\ call = [c \in Call |-> Idle]
    /\ request = [c \in Call |-> NoRequest]
    /\ promise = [t \in Tab |-> None]
    /\ ending = [t \in Tab |-> NotEnding]
    /\ lost = FALSE
    /\ events = 0

Tick ==
    /\ now < MaxNow
    /\ now' = now + 1
    /\ UNCHANGED <<pair, family, marker, blocked, jar, call, request, promise,
                   ending, lost, events>>

Event ==
    /\ events < MaxEvents
    /\ events' = events + 1

---------------------------------------------------------------------------
(* Issuing, rotating and revoking *)

\* The setex of the family, then create_access_token and create_refresh_token.
Issue(f, n) ==
    /\ family' = [family EXCEPT ![f] = [cur |-> n, until |-> now + RefreshLife * Second]]
    /\ pair' = Append(pair, [fam |-> f, iat |-> WholeSecond])

\* _issue_session, for the login or registration of tab t.  Every busy call may
\* still rotate once: the bound leaves the room.
Login(t) ==
    /\ Len(pair) + Cardinality(Busy) < MaxTokens
    /\ Issue(Len(pair) + 1, Len(pair) + 1)
    /\ jar' = [jar EXCEPT ![JarOf[t]] = Len(pair) + 1]
    /\ UNCHANGED <<now, marker, blocked, call, request, promise, ending>>
    /\ UNCHANGED countVars

\* Mutant: the marker lives as long as an access token.
RevokeForAccess == marker' = [min |-> WholeSecond, until |-> now + AccessLife * Second]

\* revoke_user_sessions.
Revoke == marker' = [min |-> WholeSecond, until |-> now + RefreshLife * Second]

\* The last step of reset_password.
ResetPassword ==
    /\ Event
    /\ Revoke
    /\ UNCHANGED <<now, pair, family, blocked, jar, call, request, promise,
                   ending, lost>>

DropFamily(f) == family' = [family EXCEPT ![f] = Gone]

---------------------------------------------------------------------------
(* The refresh handler, one step to an await *)

Answer(c, at, n) == request' = [request EXCEPT ![c].at = at, ![c].new = n]

\* A cookie, decoded and not expired, and not issued before the marker.
Passes(n) == n # 0 /\ ~RefreshExpired(n) /\ ~IssuedBefore(n)

RefreshCheck(c) ==
    /\ request[c].at = "sent"
    /\ Answer(c, IF Passes(request[c].pair) THEN "checked" ELSE "refused", 0)
    /\ UNCHANGED <<now, pair, family, marker, blocked, jar, call, promise, ending>>
    /\ UNCHANGED countVars

\* Mutant: a family that is not in Redis is no sign of anything.
VerdictWithoutMissing(f, n) ==
    IF Alive(family[f].until) /\ family[f].cur # n THEN "reused" ELSE "matched"

\* What the jti stored for family f says of pair n.
Verdict(f, n) ==
    IF ~Alive(family[f].until) THEN "refused"
    ELSE IF family[f].cur # n THEN "reused" ELSE "matched"

RefreshRead(c) ==
    LET n == request[c].pair IN
    /\ request[c].at = "checked"
    /\ Answer(c, Verdict(FamilyOf(n), n), 0)
    /\ UNCHANGED <<now, pair, family, marker, blocked, jar, call, promise, ending>>
    /\ UNCHANGED countVars

\* Mutant: the answer carries one jti, the family another.
RotateTwoIds(c) ==
    LET n == request[c].pair IN
    /\ request[c].at = "matched"
    /\ Issue(FamilyOf(n), Len(pair) + 1)
    /\ Answer(c, "rotated", Len(pair) + 2)
    /\ UNCHANGED <<now, marker, blocked, jar, call, promise, ending>>
    /\ UNCHANGED countVars

RefreshRotate(c) ==
    LET n == request[c].pair IN
    /\ request[c].at = "matched"
    /\ Issue(FamilyOf(n), Len(pair) + 1)
    /\ Answer(c, "rotated", Len(pair) + 1)
    /\ UNCHANGED <<now, marker, blocked, jar, call, promise, ending>>
    /\ UNCHANGED countVars

\* A superseded token: the family goes, then every session of the user.
BurnFamily(c) ==
    /\ request[c].at = "reused"
    /\ DropFamily(FamilyOf(request[c].pair))
    /\ Answer(c, "burning", 0)
    /\ UNCHANGED <<now, pair, marker, blocked, jar, call, promise, ending>>
    /\ UNCHANGED countVars

BurnSessions(c) ==
    /\ request[c].at = "burning"
    /\ Revoke
    /\ Answer(c, "refused", 0)
    /\ UNCHANGED <<now, pair, family, blocked, jar, call, promise, ending>>
    /\ UNCHANGED countVars

---------------------------------------------------------------------------
(* The client *)

\* The cookies are those the browser holds when the call leaves.
SendCall(c) ==
    /\ call[c].at = "idle"
    /\ Len(pair) + Cardinality(Busy) < MaxTokens
    /\ call' = [call EXCEPT ![c] = [at |-> "sent", pair |-> jar[JarOf[TabOf[c]]], on |-> None]]
    /\ UNCHANGED <<now, pair, family, marker, blocked, jar, request, promise, ending>>
    /\ UNCHANGED countVars

\* The call is let in, or refused for the second time.
Answered(c) ==
    /\ \/ call[c].at = "sent" /\ Accepts(call[c].pair)
       \/ call[c].at = "resent"
    /\ call' = [call EXCEPT ![c] = Idle]
    /\ UNCHANGED <<now, pair, family, marker, blocked, jar, request, promise, ending>>
    /\ UNCHANGED countVars

\* Mutant: every refused call asks for a refresh of its own.
AskAlone(c) == c

\* refreshPromise || api.post('/auth/refresh').
Ask(c) == IF promise[TabOf[c]] = None THEN c ELSE promise[TabOf[c]]

\* A 401: the interceptor awaits the refresh under way or asks for one.
Denied(c) ==
    /\ call[c].at = "sent"
    /\ ~Accepts(call[c].pair)
    /\ call' = [call EXCEPT ![c].at = "waiting", ![c].on = Ask(c)]
    /\ promise' = [promise EXCEPT ![TabOf[c]] = Ask(c)]
    /\ request' = IF Ask(c) # c THEN request ELSE
         [request EXCEPT ![c] = [at |-> "sent", pair |-> jar[JarOf[TabOf[c]]], new |-> 0]]
    /\ UNCHANGED <<now, pair, family, marker, blocked, jar, ending>>
    /\ UNCHANGED countVars

Awaiting(c) == {d \in Call : call[d].at = "waiting" /\ call[d].on = c}

\* Mutant: a failed refresh is reported to the call that asked for it only.
SettleOne(c, cookies, replayed) ==
    /\ jar' = cookies
    /\ call' = [d \in Call |->
         IF d \notin Awaiting(c) THEN call[d]
         ELSE IF replayed THEN [at |-> "resent", pair |-> cookies[JarOf[TabOf[d]]], on |-> None]
         ELSE IF d = c THEN Idle ELSE call[d]]
    /\ promise' = [promise EXCEPT ![TabOf[c]] = None]
    /\ request' = [request EXCEPT ![c] = NoRequest]

\* The promise settles: every call that awaits it is replayed once, with the
\* cookies of now, or rejected; the promise is forgotten.
Settle(c, cookies, replayed) ==
    /\ jar' = cookies
    /\ call' = [d \in Call |->
         IF d \notin Awaiting(c) THEN call[d]
         ELSE IF replayed THEN [at |-> "resent", pair |-> cookies[JarOf[TabOf[d]]], on |-> None]
         ELSE Idle]
    /\ promise' = [promise EXCEPT ![TabOf[c]] = None]
    /\ request' = [request EXCEPT ![c] = NoRequest]

RefreshDone(c) ==
    /\ request[c].at = "rotated"
    /\ Settle(c, [jar EXCEPT ![JarOf[TabOf[c]]] = request[c].new], TRUE)
    /\ UNCHANGED <<now, pair, family, marker, blocked, ending>>
    /\ UNCHANGED countVars

RefreshRefused(c) ==
    /\ request[c].at = "refused"
    /\ Settle(c, jar, FALSE)
    /\ UNCHANGED <<now, pair, family, marker, blocked, ending>>
    /\ UNCHANGED countVars

\* The rotation happened and its answer, with the cookies, does not arrive.
RefreshLost(c) ==
    /\ request[c].at = "rotated"
    /\ ~lost
    /\ lost' = TRUE
    /\ Settle(c, jar, FALSE)
    /\ UNCHANGED <<now, pair, family, marker, blocked, ending, events>>

---------------------------------------------------------------------------
(* Logout, and the teardown at the end of delete_account *)

EndSession(t) ==
    /\ ending[t].at = "none"
    /\ Event
    /\ \E kind \in {"logout", "delete"} :
         /\ kind = "delete" => Accepts(jar[JarOf[t]])
         /\ ending' = [ending EXCEPT ![t] =
              [at |-> IF kind = "logout" THEN "block" ELSE "drop", kind |-> kind,
               pair |-> jar[JarOf[t]]]]
    /\ UNCHANGED <<now, pair, family, marker, blocked, jar, call, request, promise, lost>>

\* Mutant: the rest of the life is taken for milliseconds.
BlockedForMilliseconds(n) == now + 1

\* When the blocklist entry of pair n ends: max(int(exp - now), 1) seconds on.
BlockedUntil(n) ==
    LET rest == ((pair[n].iat + AccessLife) * Second - now) \div Second
    IN now + (IF rest > 1 THEN rest ELSE 1) * Second

Block(t) ==
    LET n == ending[t].pair IN
    /\ ending[t].at = "block"
    /\ blocked' = IF n = 0 \/ AccessExpired(n) THEN blocked
                  ELSE [blocked EXCEPT ![n] = BlockedUntil(n)]
    /\ ending' = [ending EXCEPT ![t].at = "drop"]
    /\ UNCHANGED <<now, pair, family, marker, jar, call, request, promise>>
    /\ UNCHANGED countVars

Drop(t) ==
    LET n == ending[t].pair IN
    /\ ending[t].at = "drop"
    /\ IF n = 0 \/ RefreshExpired(n) THEN UNCHANGED family ELSE DropFamily(FamilyOf(n))
    /\ ending' = [ending EXCEPT ![t].at =
         IF ending[t].kind = "delete" THEN "revoke" ELSE "clear"]
    /\ UNCHANGED <<now, pair, marker, blocked, jar, call, request, promise>>
    /\ UNCHANGED countVars

DeleteRevokes(t) ==
    /\ ending[t].at = "revoke"
    /\ Revoke
    /\ ending' = [ending EXCEPT ![t].at = "clear"]
    /\ UNCHANGED <<now, pair, family, blocked, jar, call, request, promise>>
    /\ UNCHANGED countVars

ClearCookies(t) ==
    /\ ending[t].at = "clear"
    /\ jar' = [jar EXCEPT ![JarOf[t]] = 0]
    /\ ending' = [ending EXCEPT ![t] = NotEnding]
    /\ UNCHANGED <<now, pair, family, marker, blocked, call, request, promise>>
    /\ UNCHANGED countVars

---------------------------------------------------------------------------
(* The whole *)

Handler(c) ==
    \/ RefreshCheck(c) \/ RefreshRead(c) \/ RefreshRotate(c)
    \/ BurnFamily(c) \/ BurnSessions(c)

Client(c) == Answered(c) \/ Denied(c) \/ RefreshDone(c) \/ RefreshRefused(c)

Ending(t) == Block(t) \/ Drop(t) \/ DeleteRevokes(t) \/ ClearCookies(t)

Next ==
    \/ Tick
    \/ ResetPassword
    \/ \E c \in Call : SendCall(c) \/ Client(c) \/ Handler(c) \/ RefreshLost(c)
    \/ \E t \in Tab : Login(t) \/ EndSession(t) \/ Ending(t)

Spec == Init /\ [][Next]_vars

\* A handler goes on and its answer arrives; nothing makes the user log in,
\* call or log out, and the clock may stop.
FairSpec ==
    /\ Spec
    /\ \A c \in Call : WF_vars(Client(c) \/ Handler(c))
    /\ \A t \in Tab : WF_vars(Ending(t))

---------------------------------------------------------------------------
(* Properties *)

CallTypes ==
    [at : {"idle", "sent", "waiting", "resent"}, pair : 0..MaxTokens, on : Call \cup {None}]

RequestTypes ==
    [at : {"none", "sent", "checked", "refused", "reused", "matched", "rotated", "burning"},
     pair : 0..MaxTokens, new : 0..MaxTokens]

EndingTypes ==
    [at : {"none", "block", "drop", "revoke", "clear"}, kind : {"logout", "delete"},
     pair : 0..MaxTokens]

\* Every variable has its type, and the cookies hold tokens that were minted.
TypeOK ==
    /\ now \in 0..MaxNow
    /\ pair \in Seq([fam : Pairs, iat : Nat])
    /\ Len(pair) <= MaxTokens
    /\ family \in [Pairs -> [cur : 0..MaxTokens, until : Nat]]
    /\ marker \in [min : Nat, until : Nat]
    /\ blocked \in [Pairs -> Nat]
    /\ jar \in [Jar -> 0..Len(pair)]
    /\ call \in [Call -> CallTypes]
    /\ request \in [Call -> RequestTypes]
    /\ promise \in [Tab -> Call \cup {None}]
    /\ ending \in [Tab -> EndingTypes]
    /\ lost \in BOOLEAN
    /\ events \in 0..MaxEvents

\* "Invalidate every access AND refresh token issued before now": a pair issued
\* in an earlier second than the last revocation is never accepted again, not
\* even when the marker has expired.  Two clocks must agree on it: the lives of
\* the tokens and that of the key.
RevokedStaysOut ==
    \A n \in Minted : pair[n].iat < marker.min => ~Accepts(n) /\ ~Passes(n)

Families == {FamilyOf(n) : n \in Minted}

\* Some refresh of family f waits at one of these points.
Refreshing(f, points) ==
    \E c \in Call : request[c].at \in points /\ FamilyOf(request[c].pair) = f

Ended(f) == ~Alive(family[f].until) /\ ~Refreshing(f, {"matched"})

\* A family that was logged out, burnt or expired stays dead: unless a refresh
\* had read it before, nothing writes its key again.
EndedStaysEnded == [][\A f \in Families : Ended(f) => Ended(f)']_vars

\* After a logout the access token is refused for the rest of its life, except
\* in its last second: the entry is rounded down to whole seconds.
LoggedOutStaysOut ==
    \A n \in Minted :
        /\ blocked[n] # 0
        /\ now + Second <= (pair[n].iat + AccessLife) * Second
        => ~Accepts(n)

\* Reuse detection does not fire against the user's own client: with one tab to
\* a browser and no answer lost, no refresh presents a superseded token, however
\* many calls are refused at once and whatever logins and logouts come between.
NeverBurned == ~lost => \A c \in Call : request[c].at \notin {"reused", "burning"}

\* A call ends: it is let in, or refused, and none waits for ever for a refresh
\* that another call asked for.
CallEnds == \A c \in Call : call[c].at # "idle" ~> call[c].at = "idle"

===========================================================================
