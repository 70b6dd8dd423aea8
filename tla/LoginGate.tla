----------------------------- MODULE LoginGate -----------------------------
(***************************************************************************)
(* The ways into one account (routes/auth.py): registering, logging in     *)
(* behind the lockout, Google, the second factor, turning the second       *)
(* factor on and off, and resetting the password.  Requests overlap; every *)
(* `await` on Redis or the database ends a step.                           *)
(*                                                                         *)
(* One email address and its row in users; what a session is good for is   *)
(* the module Sessions.  Here it is remembered by the password that opened *)
(* it, and by whether it was issued in the current second: a revocation    *)
(* compares whole seconds and spares those.                                *)
(* Google is external: it vouches for the address.  The failure counter    *)
(* has a TTL of its own in Redis, which a crash can leave unset.           *)
(***************************************************************************)
EXTENDS Naturals, FiniteSets

CONSTANTS
    Request,     \* requests under way at the same time
    Password, NoPassword,
    Secret, NoSecret,
    Challenge,   \* tokens of second-factor sessions, mfa_session:<token>
    NoChallenge,
    Link, NoLink,  \* password reset links
    MaxFails,    \* LOGIN_MAX_FAILS
    Window,      \* LOGIN_FAIL_WINDOW_SECONDS, in ticks
    MaxSessions, \* bound on the sessions of one time
    Kinds        \* the requests made in this instance

AllKinds == {"register", "login", "google", "verify", "refresh",
             "enable", "disable", "forgot", "reset"}

ASSUME LoginGateAssumption ==
    /\ IsFiniteSet(Request)
    /\ NoPassword \notin Password /\ NoSecret \notin Secret
    /\ NoChallenge \notin Challenge /\ NoLink \notin Link
    /\ {MaxFails, Window} \subseteq Nat \ {0}
    /\ MaxSessions \in Nat
    /\ Kinds \subseteq AllKinds

VARIABLES
    user,        \* the row in users
    fails, ttl,  \* login_fail:<email> and its TTL, 0 for none
    challenges,  \* the tokens that are in Redis
    link,        \* link[l]: its row in password_reset_tokens
    open,        \* the sessions that are not revoked
    req,         \* req[r]: a request under way
    lapsed       \* whether a reset failed before it revoked the sessions

vars == <<user, fails, ttl, challenges, link, open, req, lapsed>>

NoUser == [exists |-> FALSE, pw |-> NoPassword, mfa |-> FALSE, secret |-> NoSecret]

\* new: issued in the current second.  spared, a history for the properties: a
\* revocation did not reach it, or the session or request that it comes from.
Session == [pw : Password \cup {NoPassword}, new : BOOLEAN, spared : BOOLEAN]

\* `mfa` is the second factor as the handler loaded it.  For the properties a
\* request remembers whether the second factor has been on since it began
\* (guarded) and whether what it opens is spared (stale).
NoRequest ==
    [kind |-> "none", at |-> "idle", pw |-> NoPassword, mfa |-> FALSE,
     challenge |-> NoChallenge, link |-> NoLink,
     guarded |-> FALSE, stale |-> FALSE]

Init ==
    /\ user = NoUser
    /\ fails = 0 /\ ttl = 0
    /\ challenges = {}
    /\ link = [l \in Link |-> "none"]
    /\ open = {}
    /\ req = [r \in Request |-> NoRequest]
    /\ lapsed = FALSE

---------------------------------------------------------------------------
(* Requests *)

\* What the handlers ask of the row before they ask for a code.
HasFactor == user.mfa /\ user.secret # NoSecret

At(r, kind, at) == req[r].kind = kind /\ req[r].at = at

Goes(r, at) == req' = [req EXCEPT ![r].at = at]

Ends(r) == req' = [req EXCEPT ![r] = NoRequest]

\* The first step of each handler.
Entry(kind) ==
    CASE kind \in {"register", "google", "reset"} -> "find"
      [] kind = "login" -> "check"
      [] kind = "verify" -> "get"
      [] kind \in {"enable", "disable"} -> "load"
      [] kind = "forgot" -> "insert"

\* A request begins with what its sender typed or holds: a password, the token
\* of a challenge, a link.
Begin(r) ==
    /\ req[r].at = "idle"
    /\ \E kind \in Kinds \ {"refresh"}, p \in Password, c \in Challenge, l \in Link :
         /\ kind = "verify" => c \in challenges
         /\ kind \in {"enable", "disable"} => open # {}
         /\ kind = "forgot" => user.pw # NoPassword /\ link[l] = "none"
         /\ kind = "reset" => link[l] # "none"
         /\ req' = [req EXCEPT ![r] =
              [NoRequest EXCEPT
                 !.kind = kind, !.at = Entry(kind),
                 !.pw = IF kind \in {"register", "login", "reset"} THEN p ELSE NoPassword,
                 !.challenge = IF kind = "verify" THEN c ELSE NoChallenge,
                 !.link = IF kind \in {"forgot", "reset"} THEN l ELSE NoLink,
                 !.guarded = (user.mfa /\ kind \in {"login", "google", "verify"})]]
    /\ UNCHANGED <<user, fails, ttl, challenges, link, open, lapsed>>

\* refresh, once the token has passed the check of the marker.
BeginRefresh(r) ==
    /\ req[r].at = "idle"
    /\ "refresh" \in Kinds
    /\ \E s \in open :
         req' = [req EXCEPT ![r] =
           [NoRequest EXCEPT !.kind = "refresh", !.at = "rotate", !.pw = s.pw, !.stale = s.spared]]
    /\ UNCHANGED <<user, fails, ttl, challenges, link, open, lapsed>>

---------------------------------------------------------------------------
(* Lockout *)

\* Mutant: one failure more.
LockedOutLate == fails > MaxFails

LockedOut == fails >= MaxFails

\* _assert_not_locked_out reads the counter and leaves it.
CheckLock(r) ==
    /\ At(r, "login", "check")
    /\ IF LockedOut THEN Ends(r) ELSE Goes(r, "load")
    /\ UNCHANGED <<user, fails, ttl, challenges, link, open, lapsed>>

\* The row is read; bcrypt runs in a thread, and its verdict leads to the counter.
LoginLoad(r) ==
    LET right == user.exists /\ user.pw = req[r].pw IN
    /\ At(r, "login", "load")
    /\ req' = [req EXCEPT ![r] =
         IF right THEN [@ EXCEPT !.at = "clear", !.mfa = HasFactor]
         ELSE [NoRequest EXCEPT !.kind = "login", !.at = "incr"]]
    /\ UNCHANGED <<user, fails, ttl, challenges, link, open, lapsed>>

\* _record_login_failure: INCR keeps the TTL, EXPIRE sets it.
Incr(r) ==
    /\ At(r, "login", "incr")
    /\ fails' = fails + 1
    /\ Goes(r, "expire")
    /\ UNCHANGED <<user, ttl, challenges, link, open, lapsed>>

Expire(r) ==
    /\ At(r, "login", "expire")
    /\ ttl' = IF fails = 0 THEN 0 ELSE Window
    /\ Ends(r)
    /\ UNCHANGED <<user, fails, challenges, link, open, lapsed>>

\* _clear_login_failures.
Clear(r) ==
    /\ At(r, "login", "clear")
    /\ fails' = 0 /\ ttl' = 0
    /\ Goes(r, "decide")
    /\ UNCHANGED <<user, challenges, link, open, lapsed>>

\* Time passes for a counter that has a TTL.
Tick ==
    /\ ttl > 0
    /\ ttl' = ttl - 1
    /\ fails' = IF ttl = 1 THEN 0 ELSE fails
    /\ UNCHANGED <<user, challenges, link, open, req, lapsed>>

---------------------------------------------------------------------------
(* Making the account *)

\* _get_user_by_email, in register and in google_callback.
Find(r) ==
    /\ req[r].kind \in {"register", "google"} /\ req[r].at = "find"
    /\ IF ~user.exists THEN Goes(r, "insert")
       ELSE IF req[r].kind = "register" THEN Ends(r)
       ELSE req' = [req EXCEPT ![r].at = "decide", ![r].mfa = HasFactor]
    /\ UNCHANGED <<user, fails, ttl, challenges, link, open, lapsed>>

\* The commit of a new row.  ix_users_email_lower refuses a second one: register
\* answers 400, google_callback fails.
Insert(r) ==
    /\ req[r].kind \in {"register", "google"} /\ req[r].at = "insert"
    /\ IF user.exists
       THEN Ends(r) /\ UNCHANGED user
       ELSE user' = [NoUser EXCEPT !.exists = TRUE, !.pw = req[r].pw] /\ Goes(r, "decide")
    /\ UNCHANGED <<fails, ttl, challenges, link, open, lapsed>>

---------------------------------------------------------------------------
(* The second factor *)

\* Mutant: Google is taken for a second factor.
AsksOnPassword(r) == req[r].kind = "login" /\ req[r].mfa

\* The decision of login and of google_callback; register makes none.
AsksSecondFactor(r) == req[r].kind \in {"login", "google"} /\ req[r].mfa

\* _create_mfa_session: 202, or a redirect with the token.
AskSecondFactor(r) ==
    /\ req[r].at = "decide"
    /\ AsksSecondFactor(r)
    /\ \E c \in Challenge \ challenges : challenges' = challenges \cup {c}
    /\ Ends(r)
    /\ UNCHANGED <<user, fails, ttl, link, open, lapsed>>

\* The session that request r opens.
Opens(r) ==
    /\ Cardinality(open) < MaxSessions
    /\ open' = open \cup {[pw |-> req[r].pw, new |-> TRUE, spared |-> req[r].stale]}
    /\ Ends(r)
    /\ UNCHANGED <<user, fails, ttl, challenges, link, lapsed>>

\* _issue_session.
IssueSession(r) ==
    /\ \/ req[r].at = "decide" /\ ~AsksSecondFactor(r)
       \/ req[r].at = "proved"
    /\ Opens(r)

\* A refresh mints the next pair of its session.
Rotate(r) == At(r, "refresh", "rotate") /\ Opens(r)

\* A logout, or the end of its refresh token.
SessionEnds ==
    /\ \E s \in open : open' = open \ {s}
    /\ UNCHANGED <<user, fails, ttl, challenges, link, req, lapsed>>

NextSecond ==
    /\ open' = {[s EXCEPT !.new = FALSE] : s \in open}
    /\ UNCHANGED <<user, fails, ttl, challenges, link, req, lapsed>>

\* mfa_verify: the token, the row and the code, then the token goes.
VerifyGet(r) ==
    /\ At(r, "verify", "get")
    /\ IF req[r].challenge \in challenges THEN Goes(r, "load") ELSE Ends(r)
    /\ UNCHANGED <<user, fails, ttl, challenges, link, open, lapsed>>

VerifyLoad(r) ==
    /\ At(r, "verify", "load")
    /\ \/ HasFactor /\ Goes(r, "delete")
       \/ Ends(r)
    /\ UNCHANGED <<user, fails, ttl, challenges, link, open, lapsed>>

VerifyDelete(r) ==
    /\ At(r, "verify", "delete")
    /\ challenges' = challenges \ {req[r].challenge}
    /\ Goes(r, "proved")
    /\ UNCHANGED <<user, fails, ttl, link, open, lapsed>>

ChallengeExpires ==
    /\ \E c \in challenges : challenges' = challenges \ {c}
    /\ UNCHANGED <<user, fails, ttl, link, open, req, lapsed>>

\* get_current_user loads the row; mfa_disable checks it and the code.
FactorLoad(r) ==
    /\ req[r].kind \in {"enable", "disable"} /\ req[r].at = "load"
    /\ IF req[r].kind = "disable" /\ ~HasFactor
       THEN Ends(r)
       ELSE req' = [req EXCEPT ![r].at = "commit", ![r].mfa = user.mfa]
    /\ UNCHANGED <<user, fails, ttl, challenges, link, open, lapsed>>

\* The code is checked against the secret of the request.  The UPDATE names the
\* columns that differ from what was loaded.
EnableCommit(r) ==
    /\ At(r, "enable", "commit")
    /\ \E s \in Secret :
         user' = [user EXCEPT !.secret = s, !.mfa = IF req[r].mfa THEN @ ELSE TRUE]
    /\ Ends(r)
    /\ UNCHANGED <<fails, ttl, challenges, link, open, lapsed>>

\* Mutant: the secret is forgotten, the flag is left.
FactorOffLeavesFlag == user' = [user EXCEPT !.secret = NoSecret]

FactorOff == user' = [user EXCEPT !.mfa = FALSE, !.secret = NoSecret]

DisableCommit(r) ==
    /\ At(r, "disable", "commit")
    /\ FactorOff
    /\ req' = [q \in Request |->
         IF q = r THEN NoRequest ELSE [req[q] EXCEPT !.guarded = FALSE]]
    /\ UNCHANGED <<fails, ttl, challenges, link, open, lapsed>>

---------------------------------------------------------------------------
(* Password reset *)

\* forgot_password.
Forgot(r) ==
    /\ At(r, "forgot", "insert")
    /\ link' = IF link[req[r].link] = "none" THEN [link EXCEPT ![req[r].link] = "sent"] ELSE link
    /\ Ends(r)
    /\ UNCHANGED <<user, fails, ttl, challenges, open, lapsed>>

LinkExpires ==
    /\ \E l \in Link : link[l] = "sent" /\ link' = [link EXCEPT ![l] = "dead"]
    /\ UNCHANGED <<user, fails, ttl, challenges, open, req, lapsed>>

\* Known, not used and not expired.
LinkGood(l) == link[l] = "sent"

\* reset_password: the link and the user are read, then the hash is computed.
ResetFind(r) ==
    /\ At(r, "reset", "find")
    /\ IF LinkGood(req[r].link) THEN Goes(r, "commit") ELSE Ends(r)
    /\ UNCHANGED <<user, fails, ttl, challenges, link, open, lapsed>>

\* The password and the mark are one commit.
ResetCommit(r) ==
    /\ At(r, "reset", "commit")
    /\ user' = [user EXCEPT !.pw = req[r].pw]
    /\ link' = [link EXCEPT ![req[r].link] = "dead"]
    /\ Goes(r, "revoke")
    /\ UNCHANGED <<fails, ttl, challenges, open, lapsed>>

\* Mutant: the sessions of before stay open.
RevokeNone == open' = open

\* revoke_user_sessions: int(iat) < int(min_iat) spares the sessions of this second.
RevokeEarlier == open' = {[s EXCEPT !.spared = TRUE] : s \in {o \in open : o.new}}

\* A request past these points asks neither for the password nor for the marker.
PastCheck == {"clear", "decide", "proved", "rotate"}

ResetRevoke(r) ==
    /\ At(r, "reset", "revoke")
    /\ RevokeEarlier
    /\ lapsed' = FALSE
    /\ req' = [q \in Request |->
         IF q = r THEN NoRequest ELSE [req[q] EXCEPT !.stale = req[q].at \in PastCheck]]
    /\ UNCHANGED <<user, fails, ttl, challenges, link>>

---------------------------------------------------------------------------
(* The whole *)

\* Redis or the database fails, or the server stops: the request ends where it is.
Breaks(r) ==
    /\ req[r].at # "idle"
    /\ lapsed' = (lapsed \/ At(r, "reset", "revoke"))
    /\ Ends(r)
    /\ UNCHANGED <<user, fails, ttl, challenges, link, open>>

Step(r) ==
    \/ CheckLock(r) \/ LoginLoad(r) \/ Incr(r) \/ Expire(r) \/ Clear(r)
    \/ Find(r) \/ Insert(r) \/ AskSecondFactor(r) \/ IssueSession(r) \/ Rotate(r)
    \/ VerifyGet(r) \/ VerifyLoad(r) \/ VerifyDelete(r)
    \/ FactorLoad(r) \/ EnableCommit(r) \/ DisableCommit(r)
    \/ Forgot(r) \/ ResetFind(r) \/ ResetCommit(r) \/ ResetRevoke(r)

Next ==
    \/ \E r \in Request : Begin(r) \/ BeginRefresh(r) \/ Step(r) \/ Breaks(r)
    \/ Tick \/ ChallengeExpires \/ LinkExpires \/ SessionEnds \/ NextSecond

Spec == Init /\ [][Next]_vars

---------------------------------------------------------------------------
(* Properties *)

UserTypes ==
    [exists : BOOLEAN, pw : Password \cup {NoPassword}, mfa : BOOLEAN,
     secret : Secret \cup {NoSecret}]

Points ==
    {"idle", "find", "check", "load", "clear", "incr", "expire", "decide", "insert", "get",
     "delete", "proved", "rotate", "commit", "revoke"}

RequestTypes ==
    [kind : AllKinds \cup {"none"}, at : Points, pw : Password \cup {NoPassword},
     mfa : BOOLEAN, challenge : Challenge \cup {NoChallenge}, link : Link \cup {NoLink},
     guarded : BOOLEAN, stale : BOOLEAN]

\* Every variable has its type.
TypeOK ==
    /\ user \in UserTypes
    /\ fails \in Nat /\ ttl \in 0..Window
    /\ challenges \subseteq Challenge
    /\ link \in [Link -> {"none", "sent", "dead"}]
    /\ open \subseteq Session
    /\ req \in [Request -> RequestTypes]
    /\ lapsed \in BOOLEAN

\* A second factor that is on has a secret: login asks for no code without one,
\* and enabling and disabling overlap, each with the columns it loaded.
FactorHasSecret == user.mfa => user.secret # NoSecret

\* "OAuth must not become a bypass": while the second factor is on, no request
\* opens a session without a code, by whatever way it came.
SecondFactorHolds ==
    [][\A r \in Request : IssueSession(r) /\ req[r].guarded => req[r].kind = "verify"]_vars

\* Failed attempts on an account: the limit, and one more for each other request
\* that had read the counter before.
LockoutHolds == fails <= MaxFails - 1 + Cardinality(Request)

Resetting == \E r \in Request : At(r, "reset", "revoke")

\* "kill every session issued before this moment": after a reset, no session that
\* another password opened is left, through any refreshes, but those the code
\* cannot reach: what was issued in the reset's own second, and what a login, a
\* registration or a refresh issues that was past its check by then, with what is
\* refreshed from these.  A reset that breaks off between its commit and the
\* revocation leaves them all (reset_password, revoke_user_sessions).
OldPasswordOut ==
    \/ Resetting
    \/ lapsed
    \/ \A s \in open : s.spared \/ s.pw \in {user.pw, NoPassword}

===========================================================================
