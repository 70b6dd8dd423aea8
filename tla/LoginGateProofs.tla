-------------------------- MODULE LoginGateProofs --------------------------
(***************************************************************************)
(* The ways into the account for any requests that overlap, passwords,     *)
(* secrets, challenges and links, and any limits of the lockout.           *)
(***************************************************************************)
EXTENDS LoginGate, FiniteSetTheorems, TLAPS

---------------------------------------------------------------------------
(* The inductive invariant *)

\* A second factor is on for a user that exists, with a secret; without a user
\* there is nothing to sign in to.
Account ==
    /\ user.mfa => user.exists /\ user.secret # NoSecret
    /\ ~user.exists => open = {} /\ challenges = {}

\* A request q, given the row u: its kind says where it may be, what it carries
\* and that it has seen the second factor if that was on all along.
Sound(q, u) ==
    /\ q.kind \in {"google", "verify"} => q.pw = NoPassword
    /\ q.at = "proved" => q.kind = "verify"
    /\ q.at = "rotate" => q.kind = "refresh"
    /\ q.at = "clear" => q.kind = "login"
    /\ q.at = "decide" => q.kind \in {"login", "google", "register"}
    /\ q.at \in {"clear", "decide"} => u.exists
    /\ q.kind \in {"verify", "refresh", "enable", "disable"} => u.exists
    /\ q.guarded => u.mfa /\ q.kind \in {"login", "google", "verify"}
    /\ q.guarded /\ q.at \in {"clear", "decide"} => q.mfa

\* The attempts that have read the counter and may still add to it.
Past == {r \in Request : req[r].kind = "login" /\ req[r].at \in {"load", "incr"}}

Counted == fails + Cardinality(Past) <= MaxFails - 1 + Cardinality(Request)

\* What a request that is past its check may open.
Current(q, u) ==
    q.at \in {"clear", "decide", "rotate"} => q.stale \/ q.pw \in {u.pw, NoPassword}

\* The sessions that a revocation must have reached have the password of now.
Reached == \A s \in open : s.spared \/ s.pw \in {user.pw, NoPassword}

Opened ==
    \/ Resetting
    \/ lapsed
    \/ /\ Reached
       /\ \A r \in Request : Current(req[r], user)

IInv ==
    /\ TypeOK
    /\ Account
    /\ \A r \in Request : Sound(req[r], user)
    /\ Counted
    /\ Opened

---------------------------------------------------------------------------
(* Records of requests *)

LEMMA NoRequestRecord ==
    /\ NoRequest \in RequestTypes /\ NoRequest.at = "idle" /\ NoRequest.kind = "none"
    /\ NoRequest.guarded = FALSE /\ NoRequest.stale = FALSE /\ NoRequest.pw = NoPassword
  BY DEF NoRequest, RequestTypes, Points

LEMMA Typed ==
    ASSUME IInv, NEW r \in Request
    PROVE  /\ req[r] \in RequestTypes /\ req[r].kind \in AllKinds \cup {"none"}
           /\ req[r].at \in Points /\ req[r].pw \in Password \cup {NoPassword}
           /\ req[r].guarded \in BOOLEAN /\ req[r].mfa \in BOOLEAN /\ req[r].stale \in BOOLEAN
           /\ user \in UserTypes /\ user.mfa \in BOOLEAN /\ user.exists \in BOOLEAN
           /\ HasFactor \in BOOLEAN /\ (HasFactor <=> user.mfa)
  BY DEF IInv, TypeOK, Account, RequestTypes, UserTypes, HasFactor

\* A step of request r, which becomes x.
Becomes(r, x) == x \in RequestTypes /\ req' = [req EXCEPT ![r] = x]

LEMMA Others ==
    ASSUME IInv, NEW r \in Request, NEW x, Becomes(r, x)
    PROVE  /\ req' \in [Request -> RequestTypes] /\ req'[r] = x
           /\ \A q \in Request \ {r} : req'[q] = req[q]
  BY DEF IInv, TypeOK, Becomes

---------------------------------------------------------------------------
(* The lockout *)

LEMMA Counts ==
    ASSUME IInv
    PROVE  /\ IsFiniteSet(Past) /\ Cardinality(Past) \in Nat
           /\ IsFiniteSet(Request) /\ Cardinality(Request) \in Nat
           /\ Cardinality(Past) <= Cardinality(Request)
           /\ fails \in Nat /\ MaxFails \in Nat \ {0} /\ Window \in Nat \ {0}
<1>1. Past \subseteq Request /\ IsFiniteSet(Request)
  BY LoginGateAssumption DEF Past
<1> QED
  BY <1>1, FS_Subset, FS_CardinalityType, LoginGateAssumption DEF IInv, TypeOK

\* No attempt reads the counter, and no failure is added.
LEMMA CountedKept ==
    ASSUME IInv, fails' \in Nat, fails' <= fails, Past' \subseteq Past
    PROVE  Counted'
<1>1. Cardinality(Past') \in Nat /\ Cardinality(Past') <= Cardinality(Past)
  BY Counts, FS_Subset, FS_CardinalityType
<1> QED
  BY <1>1, Counts DEF IInv, Counted

LEMMA PastKept ==
    ASSUME IInv, NEW r \in Request, NEW x, Becomes(r, x),
           x.kind = "login" /\ x.at \in {"load", "incr"} => r \in Past
    PROVE  Past' \subseteq Past
  BY Others DEF Past

---------------------------------------------------------------------------
(* Steps that leave the row and the sessions alone *)

LEMMA QuietStep ==
    ASSUME IInv, NEW r \in Request, NEW x, Becomes(r, x), UNCHANGED <<user, open, lapsed>>,
           Sound(x, user), Current(x, user), ~At(r, "reset", "revoke")
    PROVE  /\ \A q \in Request : Sound(req[q], user)'
           /\ Opened'
<1>1. /\ req' \in [Request -> RequestTypes] /\ req'[r] = x
      /\ \A q \in Request \ {r} : req'[q] = req[q]
  BY Others
<1>2. ASSUME NEW q \in Request
      PROVE  Sound(req[q], user)'
  <2>1. CASE q = r
    BY <1>1, <2>1 DEF Sound
  <2>2. CASE q # r
    BY <1>1, <2>2 DEF IInv, Sound
  <2> QED
    BY <2>1, <2>2
<1>3. Resetting => Resetting'
  BY <1>1 DEF Resetting, At
<1>4. ASSUME Reached, \A q \in Request : Current(req[q], user)
      PROVE  Opened'
  <2>1. \A q \in Request : Current(req[q], user)'
    BY <1>1, <1>4 DEF Current
  <2> QED
    BY <1>4, <2>1 DEF Opened, Reached
<1>5. Opened'
  BY <1>3, <1>4 DEF IInv, Opened, Reached
<1> QED
  BY <1>2, <1>5

\* A quiet step of a request that opens no gate of the lockout.
LEMMA PlainStep ==
    ASSUME IInv, NEW r \in Request, NEW x, Becomes(r, x), UNCHANGED <<user, open, lapsed>>,
           Sound(x, user), Current(x, user), ~At(r, "reset", "revoke"),
           x.kind = "login" /\ x.at \in {"load", "incr"} => r \in Past,
           fails' \in Nat, fails' <= fails, ttl' \in 0..Window,
           challenges' \subseteq Challenge, user.exists \/ challenges' \subseteq challenges,
           link' \in [Link -> {"none", "sent", "dead"}]
    PROVE  IInv'
<1>1. TypeOK'
  BY Others DEF IInv, TypeOK
<1>2. Account'
  BY DEF IInv, Account
<1>3. Counted'
  BY CountedKept, PastKept
<1>4. (\A q \in Request : Sound(req[q], user)') /\ Opened'
  BY QuietStep
<1> QED
  BY <1>1, <1>2, <1>3, <1>4 DEF IInv

\* A quiet step that changes nothing but its request.
LEMMA OwnStep ==
    ASSUME IInv, NEW r \in Request, NEW x, Becomes(r, x),
           UNCHANGED <<user, fails, ttl, challenges, link, open, lapsed>>,
           Sound(x, user), Current(x, user), ~At(r, "reset", "revoke"),
           x.kind = "login" /\ x.at \in {"load", "incr"} => r \in Past
    PROVE  IInv'
<1>1. /\ fails' \in Nat /\ fails' <= fails /\ ttl' \in 0..Window
      /\ challenges' \subseteq Challenge /\ challenges' \subseteq challenges
      /\ link' \in [Link -> {"none", "sent", "dead"}]
  BY Counts DEF IInv, TypeOK
<1> QED
  BY <1>1, PlainStep

\* The request of a step that ends, goes on, or goes on with what it read.
LEMMA EndsRecord ==
    ASSUME IInv, NEW r \in Request, Ends(r)
    PROVE  /\ Becomes(r, NoRequest) /\ Sound(NoRequest, user) /\ Current(NoRequest, user)
           /\ NoRequest.kind # "login"
  BY NoRequestRecord DEF Ends, Becomes, Sound, Current

LEMMA GoesBecomes ==
    ASSUME IInv, NEW r \in Request, NEW a \in Points, Goes(r, a)
    PROVE  \E x : /\ Becomes(r, x) /\ x.at = a /\ x.kind = req[r].kind /\ x.pw = req[r].pw
                  /\ x.mfa = req[r].mfa /\ x.guarded = req[r].guarded
                  /\ x.stale = req[r].stale
<1> DEFINE x == [req[r] EXCEPT !.at = a]
<1>1. req' = [req EXCEPT ![r] = x]
  BY DEF Goes
<1>2. ASSUME NEW z \in RequestTypes
      PROVE  /\ [z EXCEPT !.at = a] \in RequestTypes
             /\ [z EXCEPT !.at = a].at = a /\ [z EXCEPT !.at = a].kind = z.kind
             /\ [z EXCEPT !.at = a].pw = z.pw /\ [z EXCEPT !.at = a].mfa = z.mfa
             /\ [z EXCEPT !.at = a].guarded = z.guarded
             /\ [z EXCEPT !.at = a].stale = z.stale
  BY DEF RequestTypes
<1>3. /\ x \in RequestTypes /\ x.at = a /\ x.kind = req[r].kind /\ x.pw = req[r].pw
      /\ x.mfa = req[r].mfa /\ x.guarded = req[r].guarded /\ x.stale = req[r].stale
  BY <1>2, Typed
<1> HIDE DEF x
<1> QED
  BY <1>1, <1>3 DEF Becomes

Reads(r, a, b) == req' = [req EXCEPT ![r].at = a, ![r].mfa = b]

LEMMA ReadsBecomes ==
    ASSUME IInv, NEW r \in Request, NEW a \in Points, NEW b \in BOOLEAN, Reads(r, a, b)
    PROVE  \E x : /\ Becomes(r, x) /\ x.at = a /\ x.kind = req[r].kind /\ x.pw = req[r].pw
                  /\ x.mfa = b /\ x.guarded = req[r].guarded
                  /\ x.stale = req[r].stale
<1> DEFINE x == [[req[r] EXCEPT !.at = a] EXCEPT !.mfa = b]
<1>1. req' = [req EXCEPT ![r] = x]
  BY DEF Reads, IInv, TypeOK
<1>2. /\ x \in RequestTypes /\ x.at = a /\ x.kind = req[r].kind /\ x.pw = req[r].pw
      /\ x.mfa = b /\ x.guarded = req[r].guarded /\ x.stale = req[r].stale
  <2>1. ASSUME NEW z \in RequestTypes
        PROVE  LET y == [[z EXCEPT !.at = a] EXCEPT !.mfa = b]
               IN  /\ y \in RequestTypes /\ y.at = a /\ y.kind = z.kind /\ y.pw = z.pw
                   /\ y.mfa = b /\ y.guarded = z.guarded /\ y.stale = z.stale
    BY DEF RequestTypes
  <2> QED
    BY <2>1, Typed
<1> HIDE DEF x
<1> QED
  BY <1>1, <1>2 DEF Becomes

---------------------------------------------------------------------------
(* Logging in *)

LEMMA CheckLockKeeps ==
    ASSUME IInv, NEW r \in Request, CheckLock(r)
    PROVE  IInv'
<1>1. /\ UNCHANGED <<user, fails, ttl, challenges, link, open, lapsed>>
      /\ At(r, "login", "check") /\ ~At(r, "reset", "revoke")
  BY DEF CheckLock, At
<1>2. CASE LockedOut
  <2>1. Ends(r)
    BY <1>2 DEF CheckLock
  <2> QED
    BY <1>1, <2>1, EndsRecord, OwnStep
<1>3. CASE ~LockedOut
  <2>1. Goes(r, "load") /\ "load" \in Points
    BY <1>3 DEF CheckLock, Points
  <2>2. PICK x : /\ Becomes(r, x) /\ x.at = "load" /\ x.kind = "login"
                 /\ x.guarded = req[r].guarded
    BY <1>1, <2>1, GoesBecomes DEF At
  <2>3. Sound(x, user) /\ Current(x, user)
    BY <2>2 DEF Sound, Current, IInv
  <2>4. (\A q \in Request : Sound(req[q], user)') /\ Opened'
    BY <1>1, <2>2, <2>3, QuietStep
  <2>5. Counted'
    <3>1. Past' \subseteq Request
      BY DEF Past
    <3>2. Cardinality(Past') \in Nat /\ Cardinality(Past') <= Cardinality(Request)
      BY <3>1, Counts, FS_Subset, FS_CardinalityType
    <3>3. fails' = fails /\ fails < MaxFails
      BY <1>1, <1>3, Counts DEF LockedOut
    <3> QED
      BY <3>2, <3>3, Counts DEF Counted
  <2>6. TypeOK' /\ Account'
    BY <1>1, <2>2, Others DEF IInv, TypeOK, Account
  <2> QED
    BY <2>4, <2>5, <2>6 DEF IInv
<1> QED
  BY <1>2, <1>3

LEMMA LoginLoadKeeps ==
    ASSUME IInv, NEW r \in Request, LoginLoad(r)
    PROVE  IInv'
<1>1. /\ UNCHANGED <<user, fails, ttl, challenges, link, open, lapsed>>
      /\ At(r, "login", "load") /\ ~At(r, "reset", "revoke") /\ r \in Past
      /\ req[r].kind = "login"
  BY DEF LoginLoad, At, Past
<1>2. CASE user.exists /\ user.pw = req[r].pw
  <2> DEFINE b == HasFactor
  <2>1. b \in BOOLEAN /\ (b <=> user.mfa) /\ "clear" \in Points
    BY Typed DEF Points
  <2>2. Reads(r, "clear", b)
    BY <1>2 DEF LoginLoad, Reads, IInv, TypeOK
  <2> HIDE DEF b
  <2>3. PICK x : /\ Becomes(r, x) /\ x.at = "clear" /\ x.kind = req[r].kind /\ x.pw = req[r].pw
                 /\ x.mfa = b /\ x.guarded = req[r].guarded
                 /\ x.stale = req[r].stale
    BY <2>1, <2>2, ReadsBecomes
  <2>4. Sound(x, user) /\ Current(x, user)
    BY <1>1, <1>2, <2>1, <2>3 DEF Sound, Current, IInv
  <2> QED
    BY <1>1, <2>3, <2>4, OwnStep
<1>3. CASE ~(user.exists /\ user.pw = req[r].pw)
  <2> DEFINE x == [NoRequest EXCEPT !.kind = "login", !.at = "incr"]
  <2>1. /\ x \in RequestTypes /\ x.kind = "login" /\ x.at = "incr"
        /\ x.guarded = FALSE
    BY DEF NoRequest, RequestTypes, Points, AllKinds
  <2>2. req' = [req EXCEPT ![r] = x]
    BY <1>3 DEF LoginLoad
  <2> HIDE DEF x
  <2>3. Becomes(r, x) /\ Sound(x, user) /\ Current(x, user)
    BY <2>1, <2>2 DEF Becomes, Sound, Current
  <2> QED
    BY <1>1, <2>3, OwnStep
<1> QED
  BY <1>2, <1>3

LEMMA IncrKeeps ==
    ASSUME IInv, NEW r \in Request, Incr(r)
    PROVE  IInv'
<1>1. /\ UNCHANGED <<user, ttl, challenges, link, open, lapsed>> /\ fails' = fails + 1
      /\ At(r, "login", "incr") /\ ~At(r, "reset", "revoke") /\ r \in Past
      /\ Goes(r, "expire") /\ "expire" \in Points
  BY DEF Incr, At, Past, Points
<1>2. PICK x : /\ Becomes(r, x) /\ x.at = "expire" /\ x.kind = "login"
               /\ x.guarded = req[r].guarded
  BY <1>1, GoesBecomes DEF At
<1>3. Sound(x, user) /\ Current(x, user)
  BY <1>2 DEF Sound, Current, IInv
<1>4. (\A q \in Request : Sound(req[q], user)') /\ Opened'
  BY <1>1, <1>2, <1>3, QuietStep
<1>5. Counted'
  <2>1. Past' \subseteq Past \ {r}
    BY <1>2, Others DEF Past
  <2>2. /\ IsFiniteSet(Past \ {r}) /\ Cardinality(Past \ {r}) = Cardinality(Past) - 1
    BY <1>1, Counts, FS_RemoveElement
  <2>3. Cardinality(Past') \in Nat /\ Cardinality(Past') <= Cardinality(Past) - 1
    BY <2>1, <2>2, FS_Subset, FS_CardinalityType
  <2> QED
    BY <1>1, <2>3, Counts DEF IInv, Counted
<1>6. TypeOK' /\ Account'
  BY <1>1, <1>2, Others, Counts DEF IInv, TypeOK, Account
<1> QED
  BY <1>4, <1>5, <1>6 DEF IInv

LEMMA ExpireKeeps ==
    ASSUME IInv, NEW r \in Request, Expire(r)
    PROVE  IInv'
<1>1. /\ UNCHANGED <<user, open, lapsed, fails, challenges, link>> /\ Ends(r)
      /\ ttl' \in 0..Window /\ ~At(r, "reset", "revoke")
  BY Counts DEF Expire, At
<1>2. fails' \in Nat /\ fails' <= fails /\ challenges' \subseteq Challenge
      /\ challenges' \subseteq challenges /\ link' \in [Link -> {"none", "sent", "dead"}]
  BY <1>1, Counts DEF IInv, TypeOK
<1> QED
  BY <1>1, <1>2, EndsRecord, PlainStep

\* A quiet step that keeps what its request may open, if all requests may.
LEMMA CarryingStep ==
    ASSUME IInv, NEW r \in Request, NEW x, Becomes(r, x), UNCHANGED <<user, open, lapsed>>,
           Sound(x, user), x.stale = req[r].stale, x.pw = req[r].pw,
           req[r].at \in {"clear", "decide"}, ~At(r, "reset", "revoke"), x.kind = req[r].kind,
           x.at \notin {"load", "incr"},
           fails' \in Nat, fails' <= fails, ttl' \in 0..Window,
           UNCHANGED <<challenges, link>>
    PROVE  IInv'
<1>1. CASE Current(req[r], user)
  <2>1. Current(x, user)
    BY <1>1 DEF Current
  <2>2. challenges' \subseteq Challenge /\ challenges' \subseteq challenges
        /\ link' \in [Link -> {"none", "sent", "dead"}]
    BY DEF IInv, TypeOK
  <2> QED
    BY <2>1, <2>2, PlainStep
<1>2. CASE ~Current(req[r], user)
  <2>1. Resetting \/ lapsed
    BY <1>2 DEF IInv, Opened, Reached
  <2>2. Opened'
    BY <2>1, Others DEF Opened, Reached, Resetting, At
  <2>3. \A q \in Request : Sound(req[q], user)'
    <3> SUFFICES ASSUME NEW q \in Request PROVE Sound(req[q], user)'
      OBVIOUS
    <3>1. CASE q = r
      BY <3>1, Others DEF Sound
    <3>2. CASE q # r
      BY <3>2, Others DEF IInv, Sound
    <3> QED
      BY <3>1, <3>2
  <2>4. TypeOK' /\ Account'
    BY Others DEF IInv, TypeOK, Account
  <2>5. Counted'
    BY CountedKept, PastKept
  <2> QED
    BY <2>2, <2>3, <2>4, <2>5 DEF IInv
<1> QED
  BY <1>1, <1>2

LEMMA ClearKeeps ==
    ASSUME IInv, NEW r \in Request, Clear(r)
    PROVE  IInv'
<1>1. /\ UNCHANGED <<user, open, lapsed, challenges, link>> /\ Goes(r, "decide")
      /\ "decide" \in Points /\ fails' = 0 /\ ttl' = 0
      /\ req[r].kind = "login" /\ req[r].at = "clear" /\ ~At(r, "reset", "revoke")
  BY DEF Clear, At, Points
<1>2. PICK x : /\ Becomes(r, x) /\ x.at = "decide" /\ x.kind = req[r].kind /\ x.pw = req[r].pw
               /\ x.mfa = req[r].mfa /\ x.guarded = req[r].guarded
               /\ x.stale = req[r].stale
  BY <1>1, GoesBecomes
<1>3. Sound(x, user)
  BY <1>1, <1>2 DEF Sound, IInv
<1>4. fails' \in Nat /\ fails' <= fails /\ ttl' \in 0..Window
  BY <1>1, Counts
<1> QED
  BY <1>1, <1>2, <1>3, <1>4, CarryingStep

---------------------------------------------------------------------------
(* Making the account, and the second factor *)

LEMMA FindKeeps ==
    ASSUME IInv, NEW r \in Request, Find(r)
    PROVE  IInv'
<1>1. /\ UNCHANGED <<user, fails, ttl, challenges, link, open, lapsed>>
      /\ req[r].kind \in {"register", "google"} /\ req[r].at = "find"
      /\ ~At(r, "reset", "revoke")
  BY DEF Find, At
<1>2. CASE ~user.exists
  <2>1. Goes(r, "insert") /\ "insert" \in Points
    BY <1>2 DEF Find, Points
  <2>2. PICK x : /\ Becomes(r, x) /\ x.at = "insert" /\ x.kind = req[r].kind
                 /\ x.pw = req[r].pw /\ x.mfa = req[r].mfa /\ x.guarded = req[r].guarded
                 /\ x.stale = req[r].stale
    BY <2>1, GoesBecomes
  <2>3. Sound(x, user) /\ Current(x, user)
    BY <1>1, <2>2 DEF Sound, Current, IInv
  <2> QED
    BY <1>1, <2>2, <2>3, OwnStep
<1>3. CASE user.exists /\ req[r].kind = "register"
  <2>1. Ends(r)
    BY <1>3 DEF Find
  <2> QED
    BY <1>1, <2>1, EndsRecord, OwnStep
<1>4. CASE user.exists /\ req[r].kind = "google"
  <2> DEFINE b == HasFactor
  <2>1. b \in BOOLEAN /\ (b <=> user.mfa) /\ "decide" \in Points
    BY Typed DEF Points
  <2>2. Reads(r, "decide", b)
    BY <1>4 DEF Find, Reads
  <2> HIDE DEF b
  <2>3. PICK x : /\ Becomes(r, x) /\ x.at = "decide" /\ x.kind = req[r].kind
                 /\ x.pw = req[r].pw /\ x.mfa = b /\ x.guarded = req[r].guarded
                 /\ x.stale = req[r].stale
    BY <2>1, <2>2, ReadsBecomes
  <2>4. Sound(x, user) /\ Current(x, user)
    BY <1>4, <2>1, <2>3 DEF Sound, Current, IInv
  <2> QED
    BY <1>1, <1>4, <2>3, <2>4, OwnStep
<1> QED
  BY <1>1, <1>2, <1>3, <1>4

LEMMA AskSecondFactorKeeps ==
    ASSUME IInv, NEW r \in Request, AskSecondFactor(r)
    PROVE  IInv'
<1>1. /\ UNCHANGED <<user, fails, ttl, link, open, lapsed>> /\ Ends(r)
      /\ req[r].at = "decide" /\ challenges' \subseteq Challenge /\ ~At(r, "reset", "revoke")
  BY DEF AskSecondFactor, At, IInv, TypeOK
<1>2. user.exists
  BY <1>1 DEF IInv, Sound
<1>3. /\ fails' \in Nat /\ fails' <= fails /\ ttl' \in 0..Window
      /\ link' \in [Link -> {"none", "sent", "dead"}]
  BY <1>1, Counts DEF IInv, TypeOK
<1> QED
  BY <1>1, <1>2, <1>3, EndsRecord, PlainStep

LEMMA VerifyKeeps ==
    ASSUME IInv, NEW r \in Request, VerifyGet(r) \/ VerifyLoad(r) \/ VerifyDelete(r)
    PROVE  IInv'
<1>1. /\ UNCHANGED <<user, fails, ttl, link, open, lapsed>>
      /\ req[r].kind = "verify" /\ ~At(r, "reset", "revoke")
      /\ challenges' \subseteq challenges
  BY DEF VerifyGet, VerifyLoad, VerifyDelete, At
<1>2. /\ fails' \in Nat /\ fails' <= fails /\ ttl' \in 0..Window
      /\ challenges' \subseteq Challenge /\ link' \in [Link -> {"none", "sent", "dead"}]
  BY <1>1, Counts DEF IInv, TypeOK
<1>3. CASE Ends(r)
  BY <1>1, <1>2, <1>3, EndsRecord, PlainStep
<1>4. ASSUME NEW a \in {"load", "delete", "proved"}, Goes(r, a)
      PROVE  IInv'
  <2>1. a \in Points
    BY DEF Points
  <2>2. PICK x : /\ Becomes(r, x) /\ x.at = a /\ x.kind = req[r].kind
                 /\ x.pw = req[r].pw /\ x.mfa = req[r].mfa /\ x.guarded = req[r].guarded
                 /\ x.stale = req[r].stale
    BY <1>4, <2>1, GoesBecomes
  <2>3. Sound(x, user) /\ Current(x, user) /\ x.kind # "login"
    BY <1>1, <2>2 DEF Sound, Current, IInv
  <2> QED
    BY <1>1, <1>2, <2>2, <2>3, PlainStep
<1> QED
  BY <1>3, <1>4 DEF VerifyGet, VerifyLoad, VerifyDelete

LEMMA FactorLoadKeeps ==
    ASSUME IInv, NEW r \in Request, FactorLoad(r)
    PROVE  IInv'
<1>1. /\ UNCHANGED <<user, fails, ttl, challenges, link, open, lapsed>>
      /\ req[r].kind \in {"enable", "disable"} /\ ~At(r, "reset", "revoke")
  BY DEF FactorLoad, At
<1>2. CASE Ends(r)
  BY <1>1, <1>2, EndsRecord, OwnStep
<1>3. CASE ~Ends(r)
  <2> DEFINE b == user.mfa
  <2>1. b \in BOOLEAN /\ "commit" \in Points
    BY Typed DEF Points
  <2>2. Reads(r, "commit", b)
    BY <1>3 DEF FactorLoad, Reads
  <2> HIDE DEF b
  <2>3. PICK x : /\ Becomes(r, x) /\ x.at = "commit" /\ x.kind = req[r].kind
                 /\ x.pw = req[r].pw /\ x.mfa = b /\ x.guarded = req[r].guarded
                 /\ x.stale = req[r].stale
    BY <2>1, <2>2, ReadsBecomes
  <2>4. Sound(x, user) /\ Current(x, user)
    BY <1>1, <2>3 DEF Sound, Current, IInv
  <2> QED
    BY <1>1, <2>3, <2>4, OwnStep
<1> QED
  BY <1>2, <1>3

---------------------------------------------------------------------------
(* Resets that do not commit, and requests that begin or break *)

LEMMA LinkStepsKeep ==
    ASSUME IInv, NEW r \in Request, Forgot(r) \/ ResetFind(r)
    PROVE  IInv'
<1>1. /\ UNCHANGED <<user, fails, ttl, challenges, open, lapsed>>
      /\ req[r].kind \in {"forgot", "reset"} /\ ~At(r, "reset", "revoke")
  BY DEF Forgot, ResetFind, At
<1>2. /\ fails' \in Nat /\ fails' <= fails /\ ttl' \in 0..Window
      /\ challenges' \subseteq Challenge /\ challenges' \subseteq challenges
      /\ link' \in [Link -> {"none", "sent", "dead"}]
  BY <1>1, Counts DEF Forgot, ResetFind, IInv, TypeOK
<1>3. CASE Ends(r)
  BY <1>1, <1>2, <1>3, EndsRecord, PlainStep
<1>4. CASE Goes(r, "commit")
  <2>1. "commit" \in Points
    BY DEF Points
  <2>2. PICK x : /\ Becomes(r, x) /\ x.at = "commit" /\ x.kind = req[r].kind
                 /\ x.pw = req[r].pw /\ x.mfa = req[r].mfa /\ x.guarded = req[r].guarded
                 /\ x.stale = req[r].stale
    BY <1>4, <2>1, GoesBecomes
  <2>3. Sound(x, user) /\ Current(x, user) /\ x.kind # "login"
    BY <1>1, <2>2 DEF Sound, Current, IInv
  <2> QED
    BY <1>1, <1>2, <2>2, <2>3, PlainStep
<1> QED
  BY <1>3, <1>4 DEF Forgot, ResetFind

LEMMA BreaksKeeps ==
    ASSUME IInv, NEW r \in Request, Breaks(r)
    PROVE  IInv'
<1>1. UNCHANGED <<user, fails, ttl, challenges, link, open>> /\ Ends(r)
  BY DEF Breaks
<1>2. CASE At(r, "reset", "revoke")
  <2>1. lapsed' = TRUE
    BY <1>2 DEF Breaks
  <2>2. TypeOK' /\ Account'
    BY <1>1, <2>1, EndsRecord, Others DEF IInv, TypeOK, Account
  <2>3. \A q \in Request : Sound(req[q], user)'
    <3> SUFFICES ASSUME NEW q \in Request PROVE Sound(req[q], user)'
      OBVIOUS
    <3>1. CASE q = r
      BY <1>1, <3>1, EndsRecord, Others DEF Sound
    <3>2. CASE q # r
      BY <1>1, <3>2, EndsRecord, Others DEF IInv, Sound
    <3> QED
      BY <3>1, <3>2
  <2>4. Past' \subseteq Past
    BY <1>1, EndsRecord, PastKept
  <2>5. Counted'
    BY <1>1, <2>4, Counts, CountedKept
  <2> QED
    BY <2>1, <2>2, <2>3, <2>5 DEF IInv, Opened, Reached
<1>3. CASE ~At(r, "reset", "revoke")
  <2>1. lapsed' = lapsed
    BY <1>3 DEF Breaks, IInv, TypeOK
  <2> QED
    BY <1>1, <1>3, <2>1, EndsRecord, OwnStep
<1> QED
  BY <1>2, <1>3

\* The record a request begins with.
Begun(kind, p, c, l) ==
    [NoRequest EXCEPT
       !.kind = kind, !.at = Entry(kind),
       !.pw = IF kind \in {"register", "login", "reset"} THEN p ELSE NoPassword,
       !.challenge = IF kind = "verify" THEN c ELSE NoChallenge,
       !.link = IF kind \in {"forgot", "reset"} THEN l ELSE NoLink,
       !.guarded = (user.mfa /\ kind \in {"login", "google", "verify"})]

LEMMA BegunRecord ==
    ASSUME IInv, NEW kind \in AllKinds \ {"refresh"}, NEW p \in Password, NEW c \in Challenge, NEW l \in Link
    PROVE  LET x == Begun(kind, p, c, l)
           IN  /\ x \in RequestTypes /\ x.kind = kind /\ x.at = Entry(kind)
               /\ kind \in {"google", "verify"} => x.pw = NoPassword
               /\ x.guarded => user.mfa /\ kind \in {"login", "google", "verify"}
<1> DEFINE a == Entry(kind)
           q == IF kind \in {"register", "login", "reset"} THEN p ELSE NoPassword
           d == IF kind = "verify" THEN c ELSE NoChallenge
           m == IF kind \in {"forgot", "reset"} THEN l ELSE NoLink
           g == user.mfa /\ kind \in {"login", "google", "verify"}
<1>2. a \in Points
  BY DEF Entry, Points, AllKinds
<1>3. /\ q \in Password \cup {NoPassword} /\ d \in Challenge \cup {NoChallenge}
      /\ m \in Link \cup {NoLink} /\ g \in BOOLEAN
      /\ kind \in {"google", "verify"} => q = NoPassword
      /\ g => user.mfa /\ kind \in {"login", "google", "verify"}
  OBVIOUS
<1> HIDE DEF a, q, d, m, g
<1>4. LET x == [NoRequest EXCEPT !.kind = kind, !.at = a, !.pw = q, !.challenge = d,
                                 !.link = m, !.guarded = g]
      IN  /\ x \in RequestTypes /\ x.kind = kind /\ x.at = a /\ x.pw = q /\ x.guarded = g
  BY <1>2, <1>3, ZenonT(30) DEF NoRequest, RequestTypes, Points
<1>5. Begun(kind, p, c, l) = [NoRequest EXCEPT !.kind = kind, !.at = a, !.pw = q,
                                 !.challenge = d, !.link = m, !.guarded = g]
  BY DEF Begun, a, q, d, m, g
<1> QED
  BY <1>3, <1>4, <1>5 DEF a

LEMMA BeginKeeps ==
    ASSUME IInv, NEW r \in Request, Begin(r)
    PROVE  IInv'
<1>1. PICK kind \in AllKinds \ {"refresh"}, p \in Password, c \in Challenge, l \in Link :
          /\ kind = "verify" => c \in challenges
          /\ kind \in {"enable", "disable"} => open # {}
          /\ req' = [req EXCEPT ![r] = Begun(kind, p, c, l)]
  BY LoginGateAssumption DEF Begin, Begun
<1> DEFINE x == Begun(kind, p, c, l)
<1>2. /\ UNCHANGED <<user, fails, ttl, challenges, link, open, lapsed>>
      /\ ~At(r, "reset", "revoke")
  BY DEF Begin, At
<1>3. /\ x \in RequestTypes /\ x.kind = kind /\ x.at = Entry(kind)
      /\ kind \in {"google", "verify"} => x.pw = NoPassword
      /\ x.guarded => user.mfa /\ kind \in {"login", "google", "verify"}
  BY BegunRecord
<1>4. x.at \in {"find", "check", "get", "load", "insert"} /\ (kind = "login" => x.at = "check")
  BY <1>3 DEF Entry, AllKinds
<1>5. Becomes(r, x)
  BY <1>1, <1>3 DEF Becomes
<1> HIDE DEF x
<1>6. Sound(x, user) /\ Current(x, user)
  BY <1>1, <1>3, <1>4 DEF Sound, Current, IInv, Account
<1> QED
  BY <1>2, <1>3, <1>4, <1>5, <1>6, OwnStep

LEMMA BeginRefreshKeeps ==
    ASSUME IInv, NEW r \in Request, BeginRefresh(r)
    PROVE  IInv'
<1>1. PICK s \in open :
          req' = [req EXCEPT ![r] = [NoRequest EXCEPT
             !.kind = "refresh", !.at = "rotate", !.pw = s.pw, !.stale = s.spared]]
  BY DEF BeginRefresh
<1>2. /\ UNCHANGED <<user, fails, ttl, challenges, link, open, lapsed>>
      /\ ~At(r, "reset", "revoke")
  BY DEF BeginRefresh, At
<1>3. s \in Session /\ s.pw \in Password \cup {NoPassword} /\ s.spared \in BOOLEAN
  BY DEF IInv, TypeOK, Session
<1> DEFINE x == [NoRequest EXCEPT
                   !.kind = "refresh", !.at = "rotate", !.pw = s.pw, !.stale = s.spared]
<1>4. /\ x \in RequestTypes /\ x.kind = "refresh" /\ x.at = "rotate" /\ x.pw = s.pw
      /\ x.stale = s.spared /\ x.guarded = FALSE
  BY <1>3 DEF NoRequest, RequestTypes, Points, AllKinds
<1>5. Becomes(r, x)
  BY <1>1, <1>4 DEF Becomes
<1> HIDE DEF x
<1>6. user.exists
  BY DEF IInv, Account
<1>7. Sound(x, user)
  BY <1>4, <1>6 DEF Sound
<1>8. CASE Reached
  <2>1. Current(x, user)
    BY <1>4, <1>8 DEF Current, Reached
  <2> QED
    BY <1>2, <1>4, <1>5, <1>7, <2>1, OwnStep
<1>9. CASE ~Reached
  <2>1. Resetting \/ lapsed
    BY <1>9 DEF IInv, Opened
  <2>2. Opened'
    BY <1>2, <1>5, <2>1, Others DEF Opened, Resetting, At
  <2>3. \A q \in Request : Sound(req[q], user)'
    <3> SUFFICES ASSUME NEW q \in Request PROVE Sound(req[q], user)'
      OBVIOUS
    <3>1. CASE q = r
      BY <1>2, <1>5, <1>7, <3>1, Others DEF Sound
    <3>2. CASE q # r
      BY <1>2, <1>5, <3>2, Others DEF IInv, Sound
    <3> QED
      BY <3>1, <3>2
  <2>4. TypeOK' /\ Account'
    BY <1>2, <1>5, Others DEF IInv, TypeOK, Account
  <2>5. Past' \subseteq Past
    BY <1>4, <1>5, PastKept
  <2>6. Counted'
    BY <1>2, <2>5, Counts, CountedKept
  <2> QED
    BY <2>2, <2>3, <2>4, <2>6 DEF IInv
<1> QED
  BY <1>8, <1>9

---------------------------------------------------------------------------
(* Steps that write the row or the sessions *)

LEMMA InsertKeeps ==
    ASSUME IInv, NEW r \in Request, Insert(r)
    PROVE  IInv'
<1>1. /\ UNCHANGED <<fails, ttl, challenges, link, open, lapsed>>
      /\ req[r].kind \in {"register", "google"} /\ req[r].at = "insert"
      /\ ~At(r, "reset", "revoke")
  BY DEF Insert, At
<1>2. CASE user.exists
  BY <1>1, <1>2, EndsRecord, OwnStep DEF Insert
<1>3. CASE ~user.exists
  <2>1. /\ user' = [NoUser EXCEPT !.exists = TRUE, !.pw = req[r].pw]
        /\ Goes(r, "decide") /\ "decide" \in Points
    BY <1>3 DEF Insert, Points
  <2>2. PICK x : /\ Becomes(r, x) /\ x.at = "decide" /\ x.kind = req[r].kind
                 /\ x.pw = req[r].pw /\ x.mfa = req[r].mfa /\ x.guarded = req[r].guarded
                 /\ x.stale = req[r].stale
    BY <2>1, GoesBecomes
  <2>3. /\ user' \in UserTypes /\ user'.exists = TRUE /\ user'.mfa = FALSE
        /\ user'.pw = req[r].pw
    <3> DEFINE w == req[r].pw
    <3>1. w \in Password \cup {NoPassword}
      BY Typed
    <3> HIDE DEF w
    <3>2. LET u == [NoUser EXCEPT !.exists = TRUE, !.pw = w]
          IN  u \in UserTypes /\ u.exists = TRUE /\ u.mfa = FALSE /\ u.pw = w
      BY <3>1 DEF NoUser, UserTypes
    <3> QED
      BY <2>1, <3>2 DEF w
  <2>4. user.mfa = FALSE /\ open = {} /\ challenges = {}
    BY <1>3, Typed DEF IInv, Account
  <2>5. /\ req' \in [Request -> RequestTypes] /\ req'[r] = x
        /\ \A q \in Request \ {r} : req'[q] = req[q]
    BY <2>2, Others
  <2>6. ASSUME NEW q \in Request
        PROVE  Sound(req[q], user)' /\ Current(req[q], user)'
    <3>1. CASE q = r
      BY <1>1, <2>2, <2>3, <2>4, <2>5, <3>1 DEF IInv, Sound, Current
    <3>2. CASE q # r
      BY <1>3, <2>3, <2>4, <2>5, <3>2 DEF IInv, Sound, Current
    <3> QED
      BY <3>1, <3>2
  <2>7. TypeOK' /\ Account'
    BY <1>1, <2>3, <2>4, <2>5 DEF IInv, TypeOK, Account
  <2>8. Counted'
    BY <1>1, <2>2, PastKept, CountedKept, Counts
  <2>9. Opened'
    BY <1>1, <2>4, <2>6 DEF Opened, Reached
  <2> QED
    BY <2>6, <2>7, <2>8, <2>9 DEF IInv
<1> QED
  BY <1>2, <1>3

\* A login, a registration or a refresh opens its session.
LEMMA OpensKeeps ==
    ASSUME IInv, NEW r \in Request, IssueSession(r) \/ Rotate(r)
    PROVE  IInv'
<1> DEFINE w == [pw |-> req[r].pw, new |-> TRUE, spared |-> req[r].stale]
<1>1. /\ UNCHANGED <<user, fails, ttl, challenges, link, lapsed>> /\ Ends(r)
      /\ req[r].at \in {"decide", "proved", "rotate"} /\ open' = open \cup {w}
  BY DEF IssueSession, Rotate, Opens, At
<1>2. w \in Session /\ w.spared = req[r].stale /\ w.pw = req[r].pw
  BY Typed DEF Session
<1> HIDE DEF w
<1>3. /\ req' \in [Request -> RequestTypes] /\ req'[r] = NoRequest
      /\ \A q \in Request \ {r} : req'[q] = req[q]
  BY <1>1, EndsRecord, Others
<1>4. user.exists
  BY <1>1 DEF IInv, Sound
<1>5. ASSUME NEW q \in Request
      PROVE  Sound(req[q], user)' /\ (Current(req[q], user) => Current(req[q], user)')
  <2>1. CASE q = r
    BY <1>1, <1>3, <2>1, EndsRecord DEF Sound, Current
  <2>2. CASE q # r
    BY <1>1, <1>3, <2>2 DEF IInv, Sound, Current
  <2> QED
    BY <2>1, <2>2
<1>6. Opened'
  <2>1. Resetting => Resetting'
    BY <1>1, <1>3 DEF Resetting, At
  <2>2. ASSUME Reached, \A q \in Request : Current(req[q], user)
        PROVE  Opened'
    <3>1. w.spared \/ w.pw \in {user.pw, NoPassword}
      BY <1>1, <1>2, <2>2 DEF Current, IInv, Sound
    <3> QED
      BY <1>1, <1>5, <2>2, <3>1 DEF Opened, Reached
  <2> QED
    BY <1>1, <2>1, <2>2 DEF IInv, Opened, Reached
<1>7. TypeOK' /\ Account'
  BY <1>1, <1>2, <1>3, <1>4 DEF IInv, TypeOK, Account
<1>8. Counted'
  BY <1>1, EndsRecord, PastKept, CountedKept, Counts
<1> QED
  BY <1>5, <1>6, <1>7, <1>8 DEF IInv

LEMMA EnableKeeps ==
    ASSUME IInv, NEW r \in Request, EnableCommit(r)
    PROVE  IInv'
<1>1. /\ UNCHANGED <<fails, ttl, challenges, link, open, lapsed>> /\ Ends(r)
      /\ req[r].kind = "enable" /\ ~At(r, "reset", "revoke")
  BY DEF EnableCommit, At
<1>2. user.exists
  BY <1>1 DEF IInv, Sound
<1>3. /\ user' \in UserTypes /\ user'.exists = user.exists /\ user'.pw = user.pw
      /\ user'.secret # NoSecret /\ (user.mfa => user'.mfa)
  <2>1. PICK s \in Secret :
            user' = [user EXCEPT !.secret = s, !.mfa = IF req[r].mfa THEN @ ELSE TRUE]
    BY DEF EnableCommit
  <2> DEFINE b == IF req[r].mfa THEN user.mfa ELSE TRUE
  <2>2. b \in BOOLEAN /\ (user.mfa => b)
    BY Typed
  <2>3. user' = [user EXCEPT !.secret = s, !.mfa = b]
    BY <2>1
  <2> HIDE DEF b
  <2>4. ASSUME NEW u \in UserTypes
        PROVE  LET y == [u EXCEPT !.secret = s, !.mfa = b]
               IN  /\ y \in UserTypes /\ y.exists = u.exists /\ y.pw = u.pw /\ y.secret = s /\ y.mfa = b
    BY <2>2 DEF UserTypes
  <2>5. /\ user' \in UserTypes /\ user'.exists = user.exists /\ user'.pw = user.pw
        /\ user'.secret = s /\ user'.mfa = b
    BY <2>3, <2>4, Typed
  <2> QED
    BY <2>2, <2>5, LoginGateAssumption
<1>4. /\ req' \in [Request -> RequestTypes] /\ req'[r] = NoRequest
      /\ \A q \in Request \ {r} : req'[q] = req[q]
  BY <1>1, EndsRecord, Others
<1>5. ASSUME NEW q \in Request
      PROVE  Sound(req[q], user)' /\ (Current(req[q], user) => Current(req[q], user)')
  <2>1. CASE q = r
    BY <1>4, <2>1, NoRequestRecord DEF Sound, Current
  <2>2. CASE q # r
    BY <1>3, <1>4, <2>2 DEF IInv, Sound, Current
  <2> QED
    BY <2>1, <2>2
<1>6. Opened'
  <2>1. Resetting => Resetting'
    BY <1>1, <1>4 DEF Resetting, At
  <2> QED
    BY <1>1, <1>3, <1>5, <2>1 DEF IInv, Opened, Reached
<1>7. TypeOK' /\ Account'
  BY <1>1, <1>2, <1>3, <1>4 DEF IInv, TypeOK, Account
<1>8. Counted'
  BY <1>1, EndsRecord, PastKept, CountedKept, Counts
<1> QED
  BY <1>5, <1>6, <1>7, <1>8 DEF IInv

LEMMA DisableKeeps ==
    ASSUME IInv, NEW r \in Request, DisableCommit(r)
    PROVE  IInv'
<1>1. /\ UNCHANGED <<fails, ttl, challenges, link, open, lapsed>>
      /\ req[r].kind = "disable" /\ ~At(r, "reset", "revoke")
  BY DEF DisableCommit, At
<1>2. /\ user' \in UserTypes /\ user'.exists = user.exists /\ user'.pw = user.pw
      /\ user'.mfa = FALSE
  <2>1. user' = [user EXCEPT !.mfa = FALSE, !.secret = NoSecret]
    BY DEF DisableCommit, FactorOff
  <2>2. ASSUME NEW u \in UserTypes
        PROVE  LET y == [u EXCEPT !.mfa = FALSE, !.secret = NoSecret]
               IN  /\ y \in UserTypes /\ y.exists = u.exists /\ y.pw = u.pw /\ y.mfa = FALSE
    BY DEF UserTypes
  <2> QED
    BY <2>1, <2>2, Typed
<1>3. ASSUME NEW q \in Request \ {r}
      PROVE  /\ req'[q] \in RequestTypes /\ req'[q].kind = req[q].kind
             /\ req'[q].at = req[q].at /\ req'[q].pw = req[q].pw
             /\ req'[q].stale = req[q].stale /\ req'[q].guarded = FALSE
  <2>1. req'[q] = [req[q] EXCEPT !.guarded = FALSE]
    BY DEF DisableCommit
  <2>2. ASSUME NEW z \in RequestTypes
        PROVE  LET y == [z EXCEPT !.guarded = FALSE]
               IN  /\ y \in RequestTypes /\ y.kind = z.kind /\ y.at = z.at /\ y.pw = z.pw
                   /\ y.stale = z.stale /\ y.guarded = FALSE
    BY DEF RequestTypes
  <2> QED
    BY <2>1, <2>2, Typed
<1>4. req' \in [Request -> RequestTypes] /\ req'[r] = NoRequest
  <2>1. req'[r] = NoRequest /\ req' = [q \in Request |-> req'[q]]
    BY DEF DisableCommit
  <2> QED
    BY <1>3, <2>1, NoRequestRecord
<1>5. ASSUME NEW q \in Request
      PROVE  Sound(req[q], user)' /\ (Current(req[q], user) => Current(req[q], user)')
  <2>1. CASE q = r
    BY <1>4, <2>1, NoRequestRecord DEF Sound, Current
  <2>2. CASE q # r
    BY <1>2, <1>3, <2>2 DEF IInv, Sound, Current
  <2> QED
    BY <2>1, <2>2
<1>6. Opened'
  <2>1. Resetting => Resetting'
    BY <1>1, <1>3 DEF Resetting, At
  <2> QED
    BY <1>1, <1>2, <1>5, <2>1 DEF IInv, Opened, Reached
<1>7. TypeOK' /\ Account'
  BY <1>1, <1>2, <1>4 DEF IInv, TypeOK, Account
<1>8. Past' \subseteq Past
  BY <1>3, <1>4, NoRequestRecord DEF Past
<1>9. Counted'
  BY <1>1, <1>8, CountedKept, Counts
<1> QED
  BY <1>5, <1>6, <1>7, <1>9 DEF IInv

LEMMA ResetCommitKeeps ==
    ASSUME IInv, NEW r \in Request, ResetCommit(r)
    PROVE  IInv'
<1>1. /\ UNCHANGED <<fails, ttl, challenges, open, lapsed>>
      /\ req[r].kind = "reset" /\ Goes(r, "revoke") /\ "revoke" \in Points
      /\ link' \in [Link -> {"none", "sent", "dead"}]
  BY DEF ResetCommit, At, Points, IInv, TypeOK
<1>2. /\ user' \in UserTypes /\ user'.exists = user.exists /\ user'.mfa = user.mfa
      /\ user'.secret = user.secret
  <2> DEFINE w == req[r].pw
  <2>1. w \in Password \cup {NoPassword} /\ user' = [user EXCEPT !.pw = w]
    BY Typed DEF ResetCommit
  <2> HIDE DEF w
  <2>2. ASSUME NEW u \in UserTypes
        PROVE  LET y == [u EXCEPT !.pw = w]
               IN  /\ y \in UserTypes /\ y.exists = u.exists /\ y.mfa = u.mfa
                   /\ y.secret = u.secret
    BY <2>1 DEF UserTypes
  <2> QED
    BY <2>1, <2>2, Typed
<1>3. PICK x : /\ Becomes(r, x) /\ x.at = "revoke" /\ x.kind = req[r].kind
               /\ x.pw = req[r].pw /\ x.mfa = req[r].mfa /\ x.guarded = req[r].guarded
               /\ x.stale = req[r].stale
  BY <1>1, GoesBecomes
<1>4. /\ req' \in [Request -> RequestTypes] /\ req'[r] = x
      /\ \A q \in Request \ {r} : req'[q] = req[q]
  BY <1>3, Others
<1>5. ASSUME NEW q \in Request
      PROVE  Sound(req[q], user)'
  <2>1. CASE q = r
    BY <1>1, <1>2, <1>3, <1>4, <2>1 DEF IInv, Sound
  <2>2. CASE q # r
    BY <1>2, <1>4, <2>2 DEF IInv, Sound
  <2> QED
    BY <2>1, <2>2
<1>6. Opened'
  BY <1>1, <1>3, <1>4 DEF Opened, Reached, Resetting, At
<1>7. TypeOK' /\ Account'
  BY <1>1, <1>2, <1>4 DEF IInv, TypeOK, Account
<1>8. Counted'
  BY <1>1, <1>3, PastKept, CountedKept, Counts
<1> QED
  BY <1>5, <1>6, <1>7, <1>8 DEF IInv

LEMMA ResetRevokeKeeps ==
    ASSUME IInv, NEW r \in Request, ResetRevoke(r)
    PROVE  IInv'
<1>1. UNCHANGED <<user, fails, ttl, challenges, link>> /\ lapsed' = FALSE
  BY DEF ResetRevoke
<1>0. /\ open' \subseteq Session /\ \A s \in open' : s.spared
      /\ open = {} => open' = {}
  <2>1. open' = {[s EXCEPT !.spared = TRUE] : s \in {o \in open : o.new}}
    BY DEF ResetRevoke, RevokeEarlier
  <2>2. \A s \in Session : LET t == [s EXCEPT !.spared = TRUE] IN t \in Session /\ t.spared
    BY DEF Session
  <2> QED
    BY <2>1, <2>2 DEF IInv, TypeOK
<1>2. ASSUME NEW q \in Request \ {r}
      PROVE  /\ req'[q] \in RequestTypes /\ req'[q].kind = req[q].kind
             /\ req'[q].at = req[q].at /\ req'[q].pw = req[q].pw
             /\ req'[q].guarded = req[q].guarded /\ req'[q].mfa = req[q].mfa
             /\ req'[q].stale = (req[q].at \in PastCheck)
  <2> DEFINE b == req[q].at \in PastCheck
  <2>1. req'[q] = [req[q] EXCEPT !.stale = b] /\ b \in BOOLEAN
    BY DEF ResetRevoke
  <2> HIDE DEF b
  <2>2. ASSUME NEW z \in RequestTypes
        PROVE  LET y == [z EXCEPT !.stale = b]
               IN  /\ y \in RequestTypes /\ y.kind = z.kind /\ y.at = z.at /\ y.pw = z.pw
                   /\ y.guarded = z.guarded /\ y.mfa = z.mfa /\ y.stale = b
    BY <2>1 DEF RequestTypes
  <2> QED
    BY <2>1, <2>2, Typed DEF b
<1>3. req' \in [Request -> RequestTypes] /\ req'[r] = NoRequest
  <2>1. req'[r] = NoRequest /\ req' = [q \in Request |-> req'[q]]
    BY DEF ResetRevoke
  <2> QED
    BY <1>2, <2>1, NoRequestRecord
<1>4. ASSUME NEW q \in Request
      PROVE  Sound(req[q], user)' /\ Current(req[q], user)'
  <2>1. CASE q = r
    BY <1>3, <2>1, NoRequestRecord DEF Sound, Current
  <2>2. CASE q # r
    <3>1. Sound(req[q], user)'
      BY <1>1, <1>2, <2>2 DEF IInv, Sound
    <3>2. Current(req[q], user)'
      BY <1>1, <1>2, <2>2, ZenonT(30) DEF Current, PastCheck
    <3> QED
      BY <3>1, <3>2
  <2> QED
    BY <2>1, <2>2
<1>5. Opened'
  BY <1>0, <1>1, <1>4 DEF Opened, Reached
<1>6. TypeOK' /\ Account'
  <2>1. ~user.exists => challenges = {} /\ open = {}
    BY DEF IInv, Account
  <2> QED
    BY <1>0, <1>1, <1>3, <2>1 DEF IInv, TypeOK, Account
<1>7. Past' \subseteq Past
  BY <1>2, <1>3, NoRequestRecord DEF Past
<1>8. Counted'
  BY <1>1, <1>7, CountedKept, Counts
<1> QED
  BY <1>4, <1>5, <1>6, <1>8 DEF IInv

\* The sessions end, or their second does.
LEMMA SessionsKeep ==
    ASSUME IInv, SessionEnds \/ NextSecond
    PROVE  IInv'
<1>1. UNCHANGED <<user, fails, ttl, challenges, link, req, lapsed>>
  BY DEF SessionEnds, NextSecond
<1>2. /\ open' \subseteq Session
      /\ open = {} => open' = {}
      /\ Reached => Reached'
  <2>1. CASE SessionEnds
    BY <1>1, <2>1 DEF SessionEnds, Reached, IInv, TypeOK
  <2>2. CASE NextSecond
    <3>1. open' = {[s EXCEPT !.new = FALSE] : s \in open} /\ open \subseteq Session
      BY <2>2 DEF NextSecond, IInv, TypeOK
    <3>2. \A s \in Session : LET t == [s EXCEPT !.new = FALSE]
                            IN  t \in Session /\ t.spared = s.spared /\ t.pw = s.pw
      BY DEF Session
    <3> QED
      BY <1>1, <3>1, <3>2 DEF Reached
  <2> QED
    BY <2>1, <2>2
<1>3. TypeOK' /\ Account'
  BY <1>1, <1>2 DEF IInv, TypeOK, Account
<1>4. Counted'
  BY <1>1 DEF IInv, Counted, Past
<1>5. \A q \in Request : Sound(req[q], user)' /\ (Current(req[q], user) => Current(req[q], user)')
  BY <1>1 DEF IInv, Sound, Current
<1>6. Opened'
  BY <1>1, <1>2, <1>5 DEF IInv, Opened, Resetting, At
<1> QED
  BY <1>3, <1>4, <1>5, <1>6 DEF IInv

\* Time, and what ends with it.
LEMMA ExpiryKeeps ==
    ASSUME IInv, Tick \/ ChallengeExpires \/ LinkExpires \/ UNCHANGED vars
    PROVE  IInv'
<1>1. UNCHANGED <<user, open, req, lapsed>>
  BY DEF Tick, ChallengeExpires, LinkExpires, vars
<1>2. fails' \in Nat /\ fails' <= fails /\ ttl' \in 0..Window
  BY Counts DEF Tick, ChallengeExpires, LinkExpires, vars, IInv, TypeOK
<1>3. challenges' \subseteq challenges /\ link' \in [Link -> {"none", "sent", "dead"}]
  BY DEF Tick, ChallengeExpires, LinkExpires, vars, IInv, TypeOK
<1>4. Past' = Past
  BY <1>1 DEF Past
<1>5. Counted'
  BY <1>2, <1>4, CountedKept
<1>6. TypeOK' /\ Account'
  BY <1>1, <1>2, <1>3 DEF IInv, TypeOK, Account
<1>7. (\A q \in Request : Sound(req[q], user)') /\ Opened'
  BY <1>1 DEF IInv, Sound, Opened, Reached, Current, Resetting, At
<1> QED
  BY <1>5, <1>6, <1>7 DEF IInv

---------------------------------------------------------------------------
(* The invariant *)

LEMMA InitInv ==
    ASSUME Init
    PROVE  IInv
<1>1. NoUser \in UserTypes /\ NoUser.mfa = FALSE /\ NoUser.exists = FALSE
  BY DEF NoUser, UserTypes
<1>2. \A r \in Request : req[r] = NoRequest
  BY DEF Init
<1>3. TypeOK /\ Account
  <2>1. 0 \in Nat /\ 0 \in 0..Window /\ {} \subseteq Challenge
        /\ {} \subseteq Session
    BY LoginGateAssumption
  <2>2. /\ link \in [Link -> {"none", "sent", "dead"}]
        /\ req \in [Request -> RequestTypes]
    BY NoRequestRecord DEF Init
  <2> QED
    BY <1>1, <2>1, <2>2 DEF Init, TypeOK, Account
<1>4. \A r \in Request : Sound(req[r], user) /\ Current(req[r], user)
  BY <1>2, NoRequestRecord DEF Sound, Current
<1>5. Counted
  <2>1. Past = {}
    BY <1>2, NoRequestRecord DEF Past
  <2>2. Cardinality(Request) \in Nat
    BY LoginGateAssumption, FS_CardinalityType
  <2>3. Cardinality(Past) = 0 /\ fails = 0
    BY <2>1, FS_EmptySet DEF Init
  <2> QED
    BY <2>2, <2>3, LoginGateAssumption DEF Counted
<1>6. Opened
  BY <1>4 DEF Init, Opened, Reached
<1> QED
  BY <1>3, <1>4, <1>5, <1>6 DEF IInv

LEMMA NextKeeps ==
    ASSUME IInv, [Next]_vars
    PROVE  IInv'
<1>1. ASSUME NEW r \in Request, Begin(r) \/ BeginRefresh(r) \/ Breaks(r)
      PROVE  IInv'
  BY <1>1, BeginKeeps, BeginRefreshKeeps, BreaksKeeps
<1>2. ASSUME NEW r \in Request, Step(r)
      PROVE  IInv'
  BY <1>2, CheckLockKeeps, LoginLoadKeeps, IncrKeeps, ExpireKeeps, ClearKeeps, FindKeeps,
     InsertKeeps, AskSecondFactorKeeps, OpensKeeps, VerifyKeeps, FactorLoadKeeps,
     EnableKeeps, DisableKeeps, LinkStepsKeep, ResetCommitKeeps, ResetRevokeKeeps DEF Step
<1> QED
  BY <1>1, <1>2, ExpiryKeeps, SessionsKeep DEF Next

LEMMA Invariant == Spec => []IInv
  BY InitInv, NextKeeps, PTL DEF Spec

---------------------------------------------------------------------------
(* Theorems *)

\* Every variable has its type, for any set of requests.
THEOREM TypeCorrect == Spec => []TypeOK
<1>1. IInv => TypeOK
  BY DEF IInv
<1> QED
  BY <1>1, Invariant, PTL

\* No overlap of enabling and disabling leaves a second factor that is on without
\* a secret, which login would take for one that is off (mfa_enable, mfa_disable).
THEOREM FactorNeverHollow == Spec => []FactorHasSecret
<1>1. IInv => FactorHasSecret
  BY DEF IInv, Account, FactorHasSecret
<1> QED
  BY <1>1, Invariant, PTL

\* However many attempts overlap, each that reads the counter below the limit adds
\* at most one failure to it (_assert_not_locked_out, _record_login_failure).
THEOREM LockoutBound == Spec => []LockoutHolds
<1>1. IInv => LockoutHolds
  BY Counts DEF IInv, Counted, LockoutHolds
<1> QED
  BY <1>1, Invariant, PTL

\* A reset of the password leaves no session that another password opened but those
\* of its own second, those of requests that were past their check, and what is
\* refreshed from these, through any logins, refreshes and further resets
\* (reset_password, revoke_user_sessions).
THEOREM ResetEndsSessions == Spec => []OldPasswordOut
<1>1. IInv => OldPasswordOut
  BY DEF IInv, Opened, Reached, OldPasswordOut
<1> QED
  BY <1>1, Invariant, PTL

\* No way into the account goes past a second factor that was on all along (login,
\* google_callback, register, mfa_verify).
THEOREM NoBypass == Spec => SecondFactorHolds
<1>1. IInv /\ [Next]_vars =>
         \A r \in Request : IssueSession(r) /\ req[r].guarded => req[r].kind = "verify"
  BY DEF IInv, Sound, IssueSession, AsksSecondFactor
<1> QED
  BY <1>1, Invariant, PTL DEF Spec, SecondFactorHolds
=============================================================================
