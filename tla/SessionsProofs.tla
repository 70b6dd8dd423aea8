-------------------------- MODULE SessionsProofs --------------------------
(***************************************************************************)
(* Sessions for any browsers, tabs and calls, any lives of tokens and any  *)
(* bounds: what was revoked stays out, also after the marker in Redis has  *)
(* expired, a family that ended gets no further token, and a client with   *)
(* one tab never burns its own.                                            *)
(***************************************************************************)
EXTENDS Sessions, FiniteSetTheorems, TLAPS

---------------------------------------------------------------------------
(* The inductive invariant *)

\* The marker lies in the past and outlives every refresh token it revokes.
Clock ==
    /\ now \in 0..MaxNow
    /\ marker \in [min : Nat, until : Nat]
    /\ marker.min * Second <= now
    /\ marker.min # 0 => (marker.min + RefreshLife) * Second <= marker.until

\* A family has the number of its first pair.  An entry of the blocklist is for
\* a pair that exists, and ends in the last second of its life or later.
Tokens ==
    /\ pair \in Seq([fam : Pairs, iat : Nat])
    /\ family \in [Pairs -> [cur : 0..MaxTokens, until : Nat]]
    /\ blocked \in [Pairs -> Nat]
    /\ \A n \in Minted : pair[n].fam <= n
    /\ \A n \in Pairs : blocked[n] # 0 =>
          /\ n <= Len(pair)
          /\ (pair[n].iat + AccessLife) * Second < blocked[n] + Second

Calls(k) ==
    [at : {"idle", "sent", "waiting", "resent"}, pair : 0..k, on : Call \cup {None}]

Requests(k) ==
    [at : {"none", "sent", "checked", "refused", "reused", "matched", "rotated", "burning"},
     pair : 0..k, new : 0..k]

Endings(k) ==
    [at : {"none", "block", "drop", "revoke", "clear"}, kind : {"logout", "delete"},
     pair : 0..k]

\* Cookies, calls and requests hold pairs that were minted.
Refs ==
    /\ jar \in [Jar -> 0..Len(pair)]
    /\ call \in [Call -> Calls(Len(pair))]
    /\ request \in [Call -> Requests(Len(pair))]
    /\ promise \in [Tab -> Call \cup {None}]
    /\ ending \in [Tab -> Endings(Len(pair))]
    /\ lost \in BOOLEAN
    /\ events \in 0..MaxEvents

\* The call that asked for a refresh awaits it, and past its check a refresh
\* has a token.
Working ==
    \A c \in Call :
        /\ request[c].at # "none" => call[c].at = "waiting" /\ call[c].on = c
        /\ request[c].at \in {"checked", "reused", "matched", "burning"} => request[c].pair # 0

\* The calls that may still lead to a pair, for which the bound leaves room.
Owing ==
    {c \in Call : call[c].at = "sent" \/ request[c].at \in {"sent", "checked", "matched"}}

Room == Len(pair) + Cardinality(Owing) <= MaxTokens

IInv == Clock /\ Tokens /\ Refs /\ Working /\ Room

---------------------------------------------------------------------------
(* Arithmetic *)

LEMMA Products ==
    ASSUME NEW s \in Nat \ {0}, NEW x \in Nat, NEW y \in Nat
    PROVE  /\ x * s \in Nat
           /\ (x + y) * s = x * s + y * s
           /\ x <= y => x * s <= y * s
           /\ x < y => x * s + s <= y * s
           /\ (x \div s) \in Nat /\ (x \div s) * s <= x /\ x < (x \div s) * s + s
           /\ y * s <= x => y <= x \div s
  OBVIOUS

---------------------------------------------------------------------------
(* Facts of the invariant *)

LEMMA Bounds ==
    ASSUME IInv
    PROVE  /\ Len(pair) \in Nat /\ Len(pair) <= MaxTokens
           /\ Cardinality(Owing) \in Nat /\ IsFiniteSet(Owing)
           /\ MaxTokens \in Nat /\ Second \in Nat \ {0} /\ AccessLife \in Nat
           /\ RefreshLife \in Nat /\ AccessLife <= RefreshLife
           /\ now \in Nat /\ MaxNow \in Nat /\ MaxEvents \in Nat
<1>1. IsFiniteSet(Owing) /\ Cardinality(Owing) \in Nat
  BY SessionsAssumption, FS_Subset, FS_CardinalityType DEF Owing
<1>2. Len(pair) \in Nat
  BY DEF IInv, Tokens
<1> QED
  BY <1>1, <1>2, SessionsAssumption DEF IInv, Clock, Room

LEMMA PairFields ==
    ASSUME IInv, NEW n \in Minted
    PROVE  /\ n \in Pairs /\ pair[n] \in [fam : Pairs, iat : Nat]
           /\ FamilyOf(n) \in Pairs /\ FamilyOf(n) <= n /\ pair[n].iat \in Nat
           /\ blocked[n] \in Nat
<1> DEFINE T == [fam : Pairs, iat : Nat]
<1>1. n \in Pairs /\ n \in 1..Len(pair)
  BY Bounds DEF Minted, Pairs
<1>2. pair \in Seq(T) /\ pair[n].fam <= n
  BY DEF IInv, Tokens
<1>3. ASSUME NEW S, NEW s \in Seq(S), NEW i \in 1..Len(s) PROVE s[i] \in S
  OBVIOUS
<1> HIDE DEF T
<1>4. pair[n] \in T
  BY <1>1, <1>2, <1>3
<1>5. blocked[n] \in Nat
  BY <1>1 DEF IInv, Tokens
<1> QED
  BY <1>1, <1>2, <1>4, <1>5 DEF T, FamilyOf

LEMMA RequestFields ==
    ASSUME IInv, NEW c \in Call
    PROVE  /\ request[c] \in Requests(Len(pair)) /\ call[c] \in Calls(Len(pair))
           /\ request[c].pair \in 0..Len(pair) /\ request[c].new \in 0..Len(pair)
           /\ call[c].pair \in 0..Len(pair)
           /\ JarOf[TabOf[c]] \in Jar /\ TabOf[c] \in Tab
           /\ request[c].at \in {"checked", "reused", "matched", "burning"} =>
                request[c].pair \in Minted
  BY SessionsAssumption, Bounds, SMTT(30) DEF IInv, Refs, Working, Requests, Calls, Minted

LEMMA EndingFields ==
    ASSUME IInv, NEW t \in Tab
    PROVE  /\ ending[t] \in Endings(Len(pair)) /\ ending[t].pair \in 0..Len(pair)
           /\ ending[t].pair # 0 => ending[t].pair \in Minted
           /\ JarOf[t] \in Jar /\ jar[JarOf[t]] \in 0..Len(pair)
  BY SessionsAssumption, Bounds DEF IInv, Refs, Endings, Minted

---------------------------------------------------------------------------
(* Which steps move what *)

LEMMA ClockMoves ==
    ASSUME [Next]_vars
    PROVE  Tick \/ (Revoke /\ now' = now) \/ UNCHANGED <<now, marker>>
<1>1. CASE Tick \/ ResetPassword
  BY <1>1 DEF ResetPassword
<1>2. ASSUME NEW c \in Call, SendCall(c) \/ Client(c) \/ Handler(c) \/ RefreshLost(c)
      PROVE  (Revoke /\ now' = now) \/ UNCHANGED <<now, marker>>
  BY <1>2 DEF SendCall, Client, Handler, RefreshLost, Answered, Denied, RefreshDone,
     RefreshRefused, RefreshCheck, RefreshRead, RefreshRotate, BurnFamily, BurnSessions
<1>3. ASSUME NEW t \in Tab, Login(t) \/ EndSession(t) \/ Ending(t)
      PROVE  (Revoke /\ now' = now) \/ UNCHANGED <<now, marker>>
  BY <1>3 DEF Login, EndSession, Ending, Block, Drop, DeleteRevokes, ClearCookies
<1>4. CASE UNCHANGED vars
  BY <1>4 DEF vars
<1> QED
  BY <1>1, <1>2, <1>3, <1>4 DEF Next

LEMMA TokenMoves ==
    ASSUME [Next]_vars
    PROVE  \/ UNCHANGED <<pair, family, blocked>>
           \/ \E c \in Call : RefreshRotate(c) \/ BurnFamily(c)
           \/ \E t \in Tab : Login(t) \/ Block(t) \/ Drop(t)
<1>1. CASE Tick \/ ResetPassword
  BY <1>1 DEF Tick, ResetPassword
<1>2. ASSUME NEW c \in Call, SendCall(c) \/ Client(c) \/ Handler(c) \/ RefreshLost(c)
      PROVE  RefreshRotate(c) \/ BurnFamily(c) \/ UNCHANGED <<pair, family, blocked>>
  BY <1>2 DEF SendCall, Client, Handler, RefreshLost, Answered, Denied, RefreshDone,
     RefreshRefused, RefreshCheck, RefreshRead, BurnSessions
<1>3. ASSUME NEW t \in Tab, Login(t) \/ EndSession(t) \/ Ending(t)
      PROVE  Login(t) \/ Block(t) \/ Drop(t) \/ UNCHANGED <<pair, family, blocked>>
  BY <1>3 DEF EndSession, Ending, DeleteRevokes, ClearCookies
<1>4. CASE UNCHANGED vars
  BY <1>4 DEF vars
<1> QED
  BY <1>1, <1>2, <1>3, <1>4 DEF Next

---------------------------------------------------------------------------
(* The clock and the marker *)

LEMMA ClockKept ==
    ASSUME IInv, [Next]_vars
    PROVE  Clock' /\ now <= now' /\ marker.min <= marker'.min
<1>1. CASE Tick
  BY <1>1, SessionsAssumption DEF Tick, IInv, Clock
<1>2. CASE Revoke /\ now' = now
  <2> DEFINE m == now \div Second
  <2>1. /\ m \in Nat /\ m * Second <= now /\ now < m * Second + Second
        /\ (m + RefreshLife) * Second = m * Second + RefreshLife * Second
        /\ RefreshLife * Second \in Nat
    BY Bounds, Products
  <2>2. marker.min \in Nat /\ marker.min <= m
    BY Bounds, Products DEF IInv, Clock
  <2>3. marker' = [min |-> m, until |-> now + RefreshLife * Second]
    BY <1>2 DEF Revoke, WholeSecond
  <2> DEFINE u == now + RefreshLife * Second
  <2>4. marker'.min = m /\ marker'.until = u
    BY <2>3
  <2>5. m \in Nat /\ u \in Nat /\ (m + RefreshLife) * Second <= u
    <3> DEFINE x == m * Second
               y == RefreshLife * Second
    <3>1. x \in Nat /\ y \in Nat /\ x <= now /\ (m + RefreshLife) * Second = x + y
      BY <2>1, Bounds, Products
    <3>2. now + y \in Nat /\ x + y <= now + y
      <4> HIDE DEF x, y
      <4> QED
        BY <3>1, Bounds
    <3> HIDE DEF x
    <3> QED
      BY <2>1, <3>1, <3>2
  <2> HIDE DEF m, u
  <2>6. marker' \in [min : Nat, until : Nat]
    BY <2>3, <2>5 DEF m, u
  <2>7. now' = now /\ now \in 0..MaxNow
    BY <1>2 DEF IInv, Clock
  <2> QED
    BY <2>1, <2>2, <2>4, <2>5, <2>6, <2>7, Bounds DEF Clock
<1>3. CASE UNCHANGED <<now, marker>>
  BY <1>3 DEF IInv, Clock
<1> QED
  BY <1>1, <1>2, <1>3, ClockMoves

---------------------------------------------------------------------------
(* The tokens *)

\* Issuing a pair of family f: the family's key and one more pair.
LEMMA IssueKeeps ==
    ASSUME IInv, NEW f \in Pairs, f <= Len(pair) + 1, Len(pair) < MaxTokens,
           Issue(f, Len(pair) + 1), UNCHANGED blocked
    PROVE  /\ Tokens'
           /\ Len(pair') = Len(pair) + 1
           /\ \A n \in Minted : pair'[n] = pair[n]
           /\ pair'[Len(pair) + 1] = [fam |-> f, iat |-> WholeSecond]
<1>1. /\ WholeSecond \in Nat /\ RefreshLife * Second \in Nat
  BY Bounds, Products DEF WholeSecond
<1> DEFINE x == [fam |-> f, iat |-> WholeSecond]
<1>2. x \in [fam : Pairs, iat : Nat]
  BY <1>1
<1>3. pair' = Append(pair, x) /\ pair \in Seq([fam : Pairs, iat : Nat])
  BY DEF Issue, IInv, Tokens
<1>4. x.fam = f
  OBVIOUS
<1> HIDE DEF x
<1>5. /\ pair' \in Seq([fam : Pairs, iat : Nat]) /\ Len(pair') = Len(pair) + 1
      /\ \A n \in Minted : pair'[n] = pair[n]
      /\ pair'[Len(pair) + 1] = x
  BY <1>2, <1>3, Bounds DEF Minted
<1>6. family' \in [Pairs -> [cur : 0..MaxTokens, until : Nat]]
  <2> DEFINE k == [cur |-> Len(pair) + 1, until |-> now + RefreshLife * Second]
             K == [cur : 0..MaxTokens, until : Nat]
  <2>1. now + RefreshLife * Second \in Nat /\ Len(pair) + 1 \in 0..MaxTokens
    BY <1>1, Bounds
  <2>2. k \in K
    BY <2>1
  <2>3. family' = [family EXCEPT ![f] = k] /\ family \in [Pairs -> K]
    BY DEF Issue, IInv, Tokens
  <2> HIDE DEF k, K
  <2>4. family' \in [Pairs -> K]
    BY <2>2, <2>3
  <2> QED
    BY <2>4 DEF K
<1>7. \A n \in Minted' : pair'[n].fam <= n
  <2> SUFFICES ASSUME NEW n \in 1..(Len(pair) + 1) PROVE pair'[n].fam <= n
    BY <1>5 DEF Minted
  <2>1. CASE n = Len(pair) + 1
    BY <1>4, <1>5, <2>1
  <2>2. CASE n # Len(pair) + 1
    <3>1. n \in Minted
      BY <2>2, Bounds DEF Minted
    <3> QED
      BY <1>5, <3>1, PairFields DEF FamilyOf
  <2> QED
    BY <2>1, <2>2
<1>8. \A n \in Pairs : blocked'[n] # 0 =>
          /\ n <= Len(pair')
          /\ (pair'[n].iat + AccessLife) * Second < blocked'[n] + Second
  <2> SUFFICES ASSUME NEW n \in Pairs, blocked'[n] # 0
               PROVE  /\ n <= Len(pair')
                      /\ (pair'[n].iat + AccessLife) * Second < blocked'[n] + Second
    OBVIOUS
  <2>1. n <= Len(pair) /\ (pair[n].iat + AccessLife) * Second < blocked[n] + Second
    BY DEF IInv, Tokens
  <2>2. n \in Minted
    BY <2>1, Bounds DEF Minted, Pairs
  <2>3. pair'[n] = pair[n] /\ blocked'[n] = blocked[n]
    BY <1>5, <2>2
  <2> QED
    BY <1>5, <2>1, <2>3, Bounds DEF Pairs
<1>9. blocked' \in [Pairs -> Nat]
  BY DEF IInv, Tokens
<1>10. Tokens'
  BY <1>5, <1>6, <1>7, <1>8, <1>9 DEF Tokens
<1> QED
  BY <1>5, <1>10 DEF x

\* Rotating, the one step of a refresh that mints.
LEMMA RotateIssues ==
    ASSUME IInv, NEW c \in Call, RefreshRotate(c)
    PROVE  /\ request[c].pair \in Minted
           /\ FamilyOf(request[c].pair) \in Pairs
           /\ FamilyOf(request[c].pair) <= Len(pair) + 1
           /\ Len(pair) < MaxTokens
           /\ c \in Owing
<1>1. request[c].pair \in Minted /\ c \in Owing
  BY RequestFields DEF RefreshRotate, Owing
<1>2. Cardinality(Owing) # 0
  BY <1>1, Bounds, FS_EmptySet
<1>3. Len(pair) < MaxTokens
  BY <1>2, Bounds DEF IInv, Room
<1>4. FamilyOf(request[c].pair) \in Pairs /\ FamilyOf(request[c].pair) <= request[c].pair
  BY <1>1, PairFields
<1>5. request[c].pair \in Nat /\ request[c].pair <= Len(pair)
  BY <1>1, Bounds DEF Minted
<1>6. FamilyOf(request[c].pair) \in Nat
  BY <1>4, Bounds DEF Pairs
<1> QED
  BY <1>1, <1>3, <1>4, <1>5, <1>6, Bounds

LEMMA LoginIssues ==
    ASSUME IInv, NEW t \in Tab, Login(t)
    PROVE  Len(pair) + 1 \in Pairs /\ Len(pair) < MaxTokens
<1>1. IsFiniteSet(Busy)
  BY SessionsAssumption, FS_Subset DEF Busy
<1>2. Cardinality(Busy) \in Nat
  BY <1>1, FS_CardinalityType
<1> QED
  BY <1>2, Bounds DEF Login, Pairs

LEMMA DropKeeps ==
    ASSUME IInv, NEW f \in Pairs, DropFamily(f), UNCHANGED <<pair, blocked>>
    PROVE  Tokens'
<1>1. Gone \in [cur : 0..MaxTokens, until : Nat]
  BY Bounds DEF Gone
<1>2. family' \in [Pairs -> [cur : 0..MaxTokens, until : Nat]]
  BY <1>1 DEF DropFamily, IInv, Tokens
<1> QED
  BY <1>2 DEF IInv, Tokens, Minted

\* A token blocked at its logout is blocked into the last second of its life.
LEMMA BlockKeeps ==
    ASSUME IInv, NEW t \in Tab, Block(t)
    PROVE  Tokens'
<1> DEFINE n == ending[t].pair
<1>1. CASE n = 0 \/ AccessExpired(n)
  BY <1>1 DEF Block, IInv, Tokens, Minted
<1>2. CASE ~(n = 0 \/ AccessExpired(n))
  <2>1. n \in Minted /\ n \in Pairs /\ pair[n].iat \in Nat /\ n <= Len(pair)
    BY <1>2, EndingFields, PairFields, Bounds DEF Minted
  <2> DEFINE end == (pair[n].iat + AccessLife) * Second
             rest == (end - now) \div Second
             u == now + (IF rest > 1 THEN rest ELSE 1) * Second
  <2>a. end \in Nat
    <3> DEFINE i == pair[n].iat
    <3>1. i + AccessLife \in Nat /\ Second \in Nat \ {0}
      <4>1. i \in Nat
        BY <2>1
      <4> HIDE DEF i
      <4> QED
        BY <4>1, Bounds
    <3> DEFINE life == pair[n].iat + AccessLife
    <3>2. life * Second \in Nat
      <4> HIDE DEF life
      <4> QED
        BY <3>1, Products DEF life
    <3> QED
      BY <3>2
  <2>2. end \in Nat /\ now < end
    <3>1. ~(end <= now)
      BY <1>2 DEF AccessExpired
    <3> HIDE DEF end
    <3> QED
      BY <3>1, <2>a, Bounds
  <2>3. end - now \in Nat
    <3> HIDE DEF end
    <3> QED
      BY <2>2, Bounds
  <2>4. rest \in Nat /\ end - now < rest * Second + Second /\ rest * Second \in Nat
    BY <2>3, Bounds, Products
  <2>5. u \in Nat /\ u # 0 /\ end < u + Second
    <3> DEFINE w == IF rest > 1 THEN rest ELSE 1
    <3>1. w \in Nat /\ rest <= w /\ 1 <= w
      <4> HIDE DEF rest
      <4> QED
        BY <2>4
    <3>2. w * Second \in Nat /\ rest * Second <= w * Second /\ Second <= w * Second
      <4> HIDE DEF rest, w
      <4>1. 1 * Second <= w * Second
        BY <3>1, Bounds, Products
      <4> QED
        BY <2>4, <3>1, <4>1, Bounds, Products, SMTT(30)
    <3>3. u = now + w * Second
      OBVIOUS
    <3>4. \A e, q, z \in Nat : e - now < q + Second /\ q <= z /\ Second <= z =>
             now + z \in Nat /\ now + z # 0 /\ e < now + z + Second
      BY Bounds, SMTT(30)
    <3> HIDE DEF end, rest, w, u
    <3> QED
      BY <2>2, <2>4, <3>2, <3>3, <3>4
  <2>6. blocked' = [blocked EXCEPT ![n] = u] /\ pair' = pair /\ family' = family
    BY <1>2 DEF Block, BlockedUntil
  <2> HIDE DEF n, u
  <2>7. blocked' \in [Pairs -> Nat] /\ blocked'[n] = u
        /\ \A k \in Pairs \ {n} : blocked'[k] = blocked[k]
    BY <2>1, <2>5, <2>6 DEF IInv, Tokens
  <2> QED
    BY <2>1, <2>5, <2>6, <2>7 DEF IInv, Tokens, Minted
<1> QED
  BY <1>1, <1>2

LEMMA TokensKept ==
    ASSUME IInv, [Next]_vars
    PROVE  Tokens'
<1>1. CASE UNCHANGED <<pair, family, blocked>>
  BY <1>1 DEF IInv, Tokens, Minted
<1>2. ASSUME NEW c \in Call, RefreshRotate(c)
      PROVE  Tokens'
  BY <1>2, RotateIssues, IssueKeeps DEF RefreshRotate
<1>3. ASSUME NEW c \in Call, BurnFamily(c)
      PROVE  Tokens'
  BY <1>3, RequestFields, PairFields, DropKeeps DEF BurnFamily
<1>4. ASSUME NEW t \in Tab, Login(t)
      PROVE  Tokens'
  <2>1. Len(pair) + 1 \in Pairs /\ Len(pair) + 1 <= Len(pair) + 1 /\ Len(pair) < MaxTokens
    BY <1>4, LoginIssues, Bounds
  <2>2. Issue(Len(pair) + 1, Len(pair) + 1) /\ UNCHANGED blocked
    BY <1>4 DEF Login
  <2> QED
    BY <2>1, <2>2, IssueKeeps
<1>5. ASSUME NEW t \in Tab, Block(t)
      PROVE  Tokens'
  BY <1>5, BlockKeeps
<1>6. ASSUME NEW t \in Tab, Drop(t)
      PROVE  Tokens'
  <2>1. CASE ending[t].pair = 0 \/ RefreshExpired(ending[t].pair)
    BY <1>6, <2>1 DEF Drop, IInv, Tokens, Minted
  <2>2. CASE ~(ending[t].pair = 0 \/ RefreshExpired(ending[t].pair))
    BY <1>6, <2>2, EndingFields, PairFields, DropKeeps DEF Drop
  <2> QED
    BY <2>1, <2>2
<1> QED
  BY <1>1, <1>2, <1>3, <1>4, <1>5, <1>6, TokenMoves

---------------------------------------------------------------------------
(* Cookies, calls and requests *)

RequestPoints ==
    {"none", "sent", "checked", "refused", "reused", "matched", "rotated", "burning"}

\* What was held before may be held when there are more pairs.
LEMMA Wider ==
    ASSUME IInv, NEW k \in Nat, Len(pair) <= k
    PROVE  /\ jar \in [Jar -> 0..k] /\ call \in [Call -> Calls(k)]
           /\ request \in [Call -> Requests(k)] /\ ending \in [Tab -> Endings(k)]
<1>1. 0..Len(pair) \subseteq 0..k
  BY Bounds
<1>2. /\ Calls(Len(pair)) \subseteq Calls(k) /\ Requests(Len(pair)) \subseteq Requests(k)
      /\ Endings(Len(pair)) \subseteq Endings(k)
  BY <1>1 DEF Calls, Requests, Endings
<1>3. \A S, A, B : \A f \in [S -> A] : A \subseteq B => f \in [S -> B]
  OBVIOUS
<1> QED
  BY <1>1, <1>2, <1>3 DEF IInv, Refs

\* The steps of the refresh handler write the request of their call.
LEMMA AnswerTypes ==
    ASSUME IInv, NEW c \in Call, NEW k \in Nat, Len(pair) <= k,
           NEW at \in RequestPoints, NEW n \in 0..k, Answer(c, at, n)
    PROVE  /\ request' \in [Call -> Requests(k)]
           /\ request'[c].at = at /\ request'[c].pair = request[c].pair
           /\ request'[c].new = n
           /\ \A d \in Call \ {c} : request'[d] = request[d]
<1> DEFINE x == [[request[c] EXCEPT !.at = at] EXCEPT !.new = n]
<1>1. request \in [Call -> Requests(k)]
  BY Wider
<1>2. request[c] \in Requests(k)
  BY <1>1
<1>3. ASSUME NEW z \in Requests(k)
      PROVE  /\ [[z EXCEPT !.at = at] EXCEPT !.new = n] \in Requests(k)
             /\ [[z EXCEPT !.at = at] EXCEPT !.new = n].at = at
             /\ [[z EXCEPT !.at = at] EXCEPT !.new = n].pair = z.pair
             /\ [[z EXCEPT !.at = at] EXCEPT !.new = n].new = n
  BY DEF Requests, RequestPoints
<1>4. x \in Requests(k) /\ x.at = at /\ x.pair = request[c].pair
      /\ x.new = n
  BY <1>2, <1>3
<1>5. request' = [request EXCEPT ![c] = x]
  BY <1>1 DEF Answer
<1> HIDE DEF x
<1> QED
  BY <1>1, <1>4, <1>5

LEMMA OwingBusy ==
    ASSUME IInv
    PROVE  /\ Owing \subseteq Busy /\ IsFiniteSet(Busy)
           /\ Cardinality(Busy) \in Nat /\ Cardinality(Owing) <= Cardinality(Busy)
<1>1. Owing \subseteq Busy
  BY DEF Owing, Busy, IInv, Working
<1>2. IsFiniteSet(Busy)
  BY SessionsAssumption, FS_Subset DEF Busy
<1> QED
  BY <1>1, <1>2, FS_Subset, FS_CardinalityType

\* A step that mints nothing and gives no further call a right to a pair.
LEMMA RoomLeft ==
    ASSUME IInv, pair' = pair, Owing' \subseteq Owing
    PROVE  Room'
<1>1. IsFiniteSet(Owing) /\ Cardinality(Owing) \in Nat
  BY Bounds
<1>2. Cardinality(Owing') \in Nat /\ Cardinality(Owing') <= Cardinality(Owing)
  BY <1>1, FS_Subset, FS_CardinalityType
<1> QED
  BY <1>1, <1>2, Bounds DEF IInv, Room

Rest == Refs /\ Working /\ Room

LEMMA HandlerRest ==
    ASSUME IInv, NEW c \in Call,
           RefreshCheck(c) \/ RefreshRead(c) \/ BurnFamily(c) \/ BurnSessions(c)
    PROVE  Rest'
<1>1. PICK at \in RequestPoints :
          /\ Answer(c, at, 0)
          /\ request[c].at # "none"
          /\ at \in {"checked", "reused", "matched", "burning"} => request[c].pair # 0
          /\ at \in {"sent", "checked", "matched"} =>
                request[c].at \in {"sent", "checked", "matched"}
  <2>1. CASE RefreshCheck(c)
    BY <2>1 DEF RefreshCheck, Passes, RequestPoints
  <2>2. CASE RefreshRead(c)
    BY <2>2 DEF RefreshRead, Verdict, RequestPoints, IInv, Working
  <2>3. CASE BurnFamily(c)
    BY <2>3 DEF BurnFamily, RequestPoints, IInv, Working
  <2>4. CASE BurnSessions(c)
    BY <2>4 DEF BurnSessions, RequestPoints
  <2> QED
    BY <2>1, <2>2, <2>3, <2>4
<1>2. UNCHANGED <<pair, jar, call, promise, ending, lost, events>>
  BY DEF RefreshCheck, RefreshRead, BurnFamily, BurnSessions, countVars
<1>3. /\ request' \in [Call -> Requests(Len(pair))]
      /\ request'[c].at = at /\ request'[c].pair = request[c].pair
      /\ \A d \in Call \ {c} : request'[d] = request[d]
  <2>1. Len(pair) \in Nat /\ 0 \in 0..Len(pair) /\ Len(pair) <= Len(pair)
    BY Bounds
  <2> QED
    BY <1>1, <2>1, AnswerTypes
<1>4. Refs'
  BY <1>2, <1>3 DEF IInv, Refs
<1>5. Working'
  BY <1>1, <1>2, <1>3 DEF IInv, Working
<1>6. Owing' \subseteq Owing
  BY <1>1, <1>2, <1>3 DEF Owing
<1> QED
  BY <1>2, <1>4, <1>5, <1>6, RoomLeft DEF Rest

LEMMA RotateRest ==
    ASSUME IInv, NEW c \in Call, RefreshRotate(c)
    PROVE  Rest'
<1>1. /\ Len(pair') = Len(pair) + 1 /\ c \in Owing
  <2>1. Issue(FamilyOf(request[c].pair), Len(pair) + 1) /\ UNCHANGED blocked
    BY DEF RefreshRotate
  <2> QED
    BY <2>1, RotateIssues, IssueKeeps
<1>2. UNCHANGED <<jar, call, promise, ending, lost, events>> /\ request[c].at = "matched"
  BY DEF RefreshRotate, countVars
<1> DEFINE k == Len(pair) + 1
<1>3. k \in Nat /\ Len(pair) <= k /\ k \in 0..k /\ Len(pair') = k
  BY <1>1, Bounds
<1>4. Answer(c, "rotated", k) /\ "rotated" \in RequestPoints
  BY DEF RefreshRotate, RequestPoints
<1> HIDE DEF k
<1>5. /\ request' \in [Call -> Requests(k)]
      /\ request'[c].at = "rotated" /\ request'[c].pair = request[c].pair
      /\ \A d \in Call \ {c} : request'[d] = request[d]
  BY <1>3, <1>4, AnswerTypes
<1>6. Refs'
  BY <1>2, <1>3, <1>5, Wider DEF IInv, Refs
<1>7. Working'
  BY <1>2, <1>5 DEF IInv, Working
<1>8. Room'
  <2>1. Owing' = Owing \ {c}
    BY <1>2, <1>5 DEF Owing, IInv, Working
  <2>2. Cardinality(Owing') = Cardinality(Owing) - 1
    BY <1>1, <2>1, Bounds, FS_RemoveElement
  <2> QED
    BY <1>1, <2>2, Bounds DEF IInv, Room
<1> QED
  BY <1>6, <1>7, <1>8 DEF Rest

\* Nothing moves but what has no part in Working or Owing.
LEMMA CallsStay ==
    ASSUME IInv, UNCHANGED <<call, request>>
    PROVE  Working' /\ Owing' = Owing
  BY DEF IInv, Working, Owing

LEMMA LoginRest ==
    ASSUME IInv, NEW t \in Tab, Login(t)
    PROVE  Rest'
<1> DEFINE k == Len(pair) + 1
<1>1. Len(pair') = k
  <2>1. Len(pair) + 1 \in Pairs /\ Len(pair) + 1 <= Len(pair) + 1 /\ Len(pair) < MaxTokens
    BY LoginIssues, Bounds
  <2>2. Issue(Len(pair) + 1, Len(pair) + 1) /\ UNCHANGED blocked
    BY DEF Login
  <2> QED
    BY <2>1, <2>2, IssueKeeps
<1>2. k \in Nat /\ Len(pair) <= k /\ k \in 0..k /\ k = Len(pair) + 1
  BY Bounds
<1>3. /\ jar' = [jar EXCEPT ![JarOf[t]] = k]
      /\ UNCHANGED <<call, request, promise, ending, lost, events>>
      /\ k + Cardinality(Busy) <= MaxTokens
  BY OwingBusy, Bounds DEF Login, countVars
<1> HIDE DEF k
<1>4. Refs'
  BY <1>1, <1>2, <1>3, Wider DEF IInv, Refs
<1>5. Working' /\ Owing' = Owing
  BY <1>3, CallsStay
<1>6. Room'
  BY <1>1, <1>2, <1>3, <1>5, OwingBusy, Bounds, SMTT(30) DEF Room
<1> QED
  BY <1>4, <1>5, <1>6 DEF Rest

LEMMA SendCallRest ==
    ASSUME IInv, NEW c \in Call, SendCall(c)
    PROVE  Rest'
<1> DEFINE n == jar[JarOf[TabOf[c]]]
           x == [at |-> "sent", pair |-> n, on |-> None]
<1>1. n \in 0..Len(pair)
  BY RequestFields DEF IInv, Refs
<1>2. x \in Calls(Len(pair)) /\ x.at = "sent"
  BY <1>1 DEF Calls
<1>3. /\ call' = [call EXCEPT ![c] = x] /\ call[c].at = "idle"
      /\ UNCHANGED <<pair, jar, request, promise, ending, lost, events>>
      /\ Len(pair) + Cardinality(Busy) < MaxTokens
  BY DEF SendCall, countVars
<1> HIDE DEF n, x
<1>4. Refs'
  BY <1>2, <1>3 DEF IInv, Refs
<1>5. request[c].at = "none"
  BY <1>3 DEF IInv, Working
<1>6. Working'
  BY <1>3, <1>5 DEF IInv, Working, Refs
<1>7. Room'
  <2>1. Owing' = Owing \cup {c}
    BY <1>2, <1>3, <1>5 DEF Owing, IInv, Refs
  <2>2. c \notin Owing
    BY <1>3, <1>5 DEF Owing
  <2>3. Cardinality(Owing') = Cardinality(Owing) + 1
    BY <2>1, <2>2, Bounds, FS_AddElement
  <2> QED
    BY <1>3, <2>3, OwingBusy, Bounds DEF Room
<1> QED
  BY <1>4, <1>6, <1>7 DEF Rest

LEMMA AnsweredRest ==
    ASSUME IInv, NEW c \in Call, Answered(c)
    PROVE  Rest'
<1>1. Idle \in Calls(Len(pair)) /\ Idle.at = "idle"
  BY Bounds DEF Idle, Calls
<1>2. /\ call' = [call EXCEPT ![c] = Idle] /\ call[c].at \in {"sent", "resent"}
      /\ UNCHANGED <<pair, jar, request, promise, ending, lost, events>>
  BY DEF Answered, countVars
<1>3. Refs'
  BY <1>1, <1>2 DEF IInv, Refs
<1>4. request[c].at = "none"
  BY <1>2 DEF IInv, Working
<1>5. Working'
  BY <1>2, <1>4 DEF IInv, Working, Refs
<1>6. Owing' \subseteq Owing
  BY <1>1, <1>2 DEF Owing, IInv, Refs
<1> QED
  BY <1>2, <1>3, <1>5, <1>6, RoomLeft DEF Rest

LEMMA DeniedRest ==
    ASSUME IInv, NEW c \in Call, Denied(c)
    PROVE  Rest'
<1> DEFINE a == Ask(c)
           x == [[call[c] EXCEPT !.at = "waiting"] EXCEPT !.on = a]
           y == [at |-> "sent", pair |-> jar[JarOf[TabOf[c]]], new |-> 0]
<1>1. a \in Call /\ TabOf[c] \in Tab
  BY RequestFields DEF Ask, IInv, Refs
<1>2. y \in Requests(Len(pair)) /\ y.at = "sent"
  <2> DEFINE n == jar[JarOf[TabOf[c]]]
  <2>1. n \in 0..Len(pair) /\ 0 \in 0..Len(pair)
    BY RequestFields, Bounds DEF IInv, Refs
  <2> HIDE DEF n
  <2>2. [at |-> "sent", pair |-> n, new |-> 0] \in Requests(Len(pair))
    BY <2>1 DEF Requests
  <2> QED
    BY <2>2 DEF n
<1>3. x \in Calls(Len(pair)) /\ x.at = "waiting" /\ x.on = a
  <2>1. ASSUME NEW z \in Calls(Len(pair)), NEW b \in Call
        PROVE  /\ [[z EXCEPT !.at = "waiting"] EXCEPT !.on = b] \in Calls(Len(pair))
               /\ [[z EXCEPT !.at = "waiting"] EXCEPT !.on = b].at = "waiting"
               /\ [[z EXCEPT !.at = "waiting"] EXCEPT !.on = b].on = b
    BY DEF Calls
  <2> QED
    BY <1>1, <2>1, RequestFields
<1>4. /\ call' = [call EXCEPT ![c] = x] /\ call[c].at = "sent"
      /\ promise' = [promise EXCEPT ![TabOf[c]] = a]
      /\ request' = IF a # c THEN request ELSE [request EXCEPT ![c] = y]
      /\ UNCHANGED <<pair, jar, ending, lost, events>>
  BY DEF Denied, countVars, IInv, Refs
<1> HIDE DEF a, x, y
<1>5. Refs'
  BY <1>1, <1>2, <1>3, <1>4 DEF IInv, Refs
<1>6. request[c].at = "none"
  BY <1>4 DEF IInv, Working
<1>7. Working'
  <2> SUFFICES ASSUME NEW d \in Call
               PROVE  /\ request'[d].at # "none" => call'[d].at = "waiting" /\ call'[d].on = d
                      /\ request'[d].at \in {"checked", "reused", "matched", "burning"} =>
                           request'[d].pair # 0
    BY DEF Working
  <2>1. CASE d = c
    BY <1>2, <1>3, <1>4, <1>6, <2>1 DEF IInv, Refs
  <2>2. CASE d # c
    BY <1>4, <2>2 DEF IInv, Refs, Working
  <2> QED
    BY <2>1, <2>2
<1>8. Owing' \subseteq Owing
  BY <1>4 DEF Owing, IInv, Refs
<1> QED
  BY <1>4, <1>5, <1>7, <1>8, RoomLeft DEF Rest

\* The refresh of c settles: the calls that await it are replayed or end.
LEMMA SettleRest ==
    ASSUME IInv, NEW c \in Call, NEW cookies \in [Jar -> 0..Len(pair)],
           NEW replayed \in BOOLEAN, Settle(c, cookies, replayed),
           UNCHANGED <<pair, ending, events>>, lost' \in BOOLEAN
    PROVE  Rest'
<1>1. /\ NoRequest \in Requests(Len(pair)) /\ NoRequest.at = "none"
      /\ Idle \in Calls(Len(pair)) /\ Idle.at = "idle"
  BY Bounds DEF NoRequest, Requests, Idle, Calls
<1>2. /\ jar' = cookies
      /\ promise' = [promise EXCEPT ![TabOf[c]] = None]
      /\ request' = [request EXCEPT ![c] = NoRequest]
  BY DEF Settle
<1>3. ASSUME NEW d \in Call
      PROVE  /\ call'[d] \in Calls(Len(pair))
             /\ d \notin Awaiting(c) => call'[d] = call[d]
             /\ call'[d].at = "sent" => call[d].at = "sent"
  <2> DEFINE n == cookies[JarOf[TabOf[d]]]
             x == [at |-> "resent", pair |-> n, on |-> None]
  <2>1. n \in 0..Len(pair)
    BY RequestFields
  <2>2. x \in Calls(Len(pair)) /\ x.at = "resent"
    BY <2>1 DEF Calls
  <2>3. call'[d] = IF d \notin Awaiting(c) THEN call[d] ELSE IF replayed THEN x ELSE Idle
    BY DEF Settle
  <2> HIDE DEF n, x
  <2> QED
    BY <1>1, <2>2, <2>3, RequestFields
<1>4. call' \in [Call -> Calls(Len(pair))]
  <2>1. call' = [d \in Call |-> call'[d]]
    BY DEF Settle
  <2> QED
    BY <1>3, <2>1
<1>5. Refs'
  BY <1>1, <1>2, <1>4 DEF IInv, Refs
<1>6. /\ request'[c].at = "none"
      /\ \A d \in Call \ {c} : request'[d] = request[d]
  BY <1>1, <1>2 DEF IInv, Refs
<1>7. Working'
  <2> SUFFICES ASSUME NEW d \in Call
               PROVE  /\ request'[d].at # "none" => call'[d].at = "waiting" /\ call'[d].on = d
                      /\ request'[d].at \in {"checked", "reused", "matched", "burning"} =>
                           request'[d].pair # 0
    BY DEF Working
  <2>1. CASE d = c
    BY <1>6, <2>1
  <2>2. CASE d # c /\ request[d].at # "none"
    <3>1. d \notin Awaiting(c)
      BY <2>2 DEF Awaiting, IInv, Working
    <3> QED
      BY <1>3, <1>6, <2>2, <3>1 DEF IInv, Working
  <2>3. CASE d # c /\ request[d].at = "none"
    BY <1>6, <2>3
  <2> QED
    BY <2>1, <2>2, <2>3
<1>8. Owing' \subseteq Owing
  BY <1>3, <1>6 DEF Owing
<1> QED
  BY <1>5, <1>7, <1>8, RoomLeft DEF Rest

LEMMA RefreshEndsRest ==
    ASSUME IInv, NEW c \in Call,
           RefreshDone(c) \/ RefreshRefused(c) \/ RefreshLost(c)
    PROVE  Rest'
<1>1. jar \in [Jar -> 0..Len(pair)] /\ UNCHANGED <<pair, ending, events>> /\ lost' \in BOOLEAN
  BY DEF RefreshDone, RefreshRefused, RefreshLost, countVars, IInv, Refs
<1>2. CASE RefreshDone(c)
  <2> DEFINE n == request[c].new
             cookies == [jar EXCEPT ![JarOf[TabOf[c]]] = n]
  <2>1. n \in 0..Len(pair)
    BY RequestFields
  <2>2. Settle(c, cookies, TRUE)
    BY <1>2 DEF RefreshDone
  <2> HIDE DEF n
  <2>3. cookies \in [Jar -> 0..Len(pair)]
    BY <1>1, <2>1
  <2> HIDE DEF cookies
  <2> QED
    BY <1>1, <2>2, <2>3, SettleRest
<1>3. CASE RefreshRefused(c) \/ RefreshLost(c)
  <2>1. Settle(c, jar, FALSE)
    BY <1>3 DEF RefreshRefused, RefreshLost
  <2> QED
    BY <1>1, <2>1, SettleRest
<1> QED
  BY <1>2, <1>3

\* A logout or deletion, from its request to the cleared cookies.
LEMMA EndingRest ==
    ASSUME IInv, NEW t \in Tab, EndSession(t) \/ Ending(t)
    PROVE  Rest'
<1>1. UNCHANGED <<pair, call, request, promise, lost>>
  BY DEF EndSession, Ending, Block, Drop, DeleteRevokes, ClearCookies, countVars
<1>2. events' \in 0..MaxEvents
  <2>1. CASE EndSession(t)
    BY <2>1, Bounds DEF EndSession, Event, IInv, Refs
  <2>2. CASE Ending(t)
    BY <2>2 DEF Ending, Block, Drop, DeleteRevokes, ClearCookies, countVars, IInv, Refs
  <2> QED
    BY <2>1, <2>2
<1>3. jar' \in [Jar -> 0..Len(pair)]
  BY Bounds DEF EndSession, Ending, Block, Drop, DeleteRevokes, ClearCookies, IInv, Refs
<1>4. ending' \in [Tab -> Endings(Len(pair))]
  <2> USE DEF IInv, Refs
  <2>1. ASSUME NEW kind \in {"logout", "delete"}, NEW n \in 0..Len(pair),
               NEW at \in {"none", "block", "drop", "revoke", "clear"}
        PROVE  [at |-> at, kind |-> kind, pair |-> n] \in Endings(Len(pair))
    BY DEF Endings
  <2>2. ASSUME NEW z \in Endings(Len(pair)),
               NEW at \in {"none", "block", "drop", "revoke", "clear"}
        PROVE  [z EXCEPT !.at = at] \in Endings(Len(pair))
    BY DEF Endings
  <2>3. CASE EndSession(t)
    <3> DEFINE n == jar[JarOf[t]]
    <3>1. n \in 0..Len(pair)
      BY EndingFields
    <3>2. PICK kind \in {"logout", "delete"} :
              ending' = [ending EXCEPT ![t] =
                [at |-> IF kind = "logout" THEN "block" ELSE "drop", kind |-> kind, pair |-> n]]
      BY <2>3 DEF EndSession
    <3> DEFINE at == IF kind = "logout" THEN "block" ELSE "drop"
    <3>3. at \in {"none", "block", "drop", "revoke", "clear"}
      OBVIOUS
    <3> HIDE DEF n, at
    <3>4. [at |-> at, kind |-> kind, pair |-> n] \in Endings(Len(pair))
      BY <2>1, <3>1, <3>3
    <3> QED
      BY <3>2, <3>4 DEF at
  <2>4. CASE Block(t) \/ Drop(t) \/ DeleteRevokes(t)
    <3>1. PICK at \in {"none", "block", "drop", "revoke", "clear"} :
              ending' = [ending EXCEPT ![t].at = at]
      BY <2>4 DEF Block, Drop, DeleteRevokes
    <3>2. [ending[t] EXCEPT !.at = at] \in Endings(Len(pair))
      BY <2>2
    <3> QED
      BY <3>1, <3>2
  <2>5. CASE ClearCookies(t)
    <3>1. NotEnding \in Endings(Len(pair))
      BY Bounds DEF NotEnding, Endings
    <3> QED
      BY <2>5, <3>1 DEF ClearCookies
  <2> QED
    BY <2>3, <2>4, <2>5 DEF Ending
<1>5. Refs'
  BY <1>1, <1>2, <1>3, <1>4 DEF IInv, Refs
<1>6. Working' /\ Owing' = Owing
  BY <1>1, CallsStay
<1> QED
  BY <1>1, <1>5, <1>6, RoomLeft DEF Rest

LEMMA RestKept ==
    ASSUME IInv, [Next]_vars
    PROVE  Rest'
<1>1. CASE Tick \/ ResetPassword \/ UNCHANGED vars
  <2>1. UNCHANGED <<pair, jar, call, request, promise, ending, lost>>
    BY <1>1 DEF Tick, ResetPassword, vars
  <2>2. events' \in 0..MaxEvents
    BY <1>1, Bounds DEF Tick, ResetPassword, Event, vars, IInv, Refs
  <2>3. Refs'
    BY <2>1, <2>2 DEF IInv, Refs
  <2>4. Working' /\ Owing' = Owing
    BY <2>1, CallsStay
  <2> QED
    BY <2>1, <2>3, <2>4, RoomLeft DEF Rest
<1>2. ASSUME NEW c \in Call, SendCall(c) \/ Client(c) \/ Handler(c) \/ RefreshLost(c)
      PROVE  Rest'
  BY <1>2, SendCallRest, AnsweredRest, DeniedRest, RefreshEndsRest, HandlerRest, RotateRest
     DEF Client, Handler
<1>3. ASSUME NEW t \in Tab, Login(t) \/ EndSession(t) \/ Ending(t)
      PROVE  Rest'
  BY <1>3, LoginRest, EndingRest
<1> QED
  BY <1>1, <1>2, <1>3 DEF Next

---------------------------------------------------------------------------
(* The invariant *)

LEMMA InitInv ==
    ASSUME Init
    PROVE  IInv
<1>1. /\ pair = <<>> /\ Len(pair) = 0 /\ Minted = {}
      /\ 0 \in 0..MaxTokens /\ 0 \in 0..MaxNow /\ 0 \in 0..MaxEvents /\ 0 \in 0..0
  BY SessionsAssumption DEF Init, Minted
<1>2. Clock
  BY <1>1, SessionsAssumption DEF Init, Clock
<1>3. Tokens
  BY <1>1 DEF Init, Tokens, Gone
<1>4. /\ Idle \in Calls(0) /\ NoRequest \in Requests(0) /\ NotEnding \in Endings(0)
      /\ Idle.at = "idle" /\ NoRequest.at = "none"
  BY <1>1 DEF Idle, Calls, NoRequest, Requests, NotEnding, Endings
<1>5. Refs
  BY <1>1, <1>4 DEF Init, Refs
<1>6. Working /\ Owing = {}
  BY <1>4 DEF Init, Working, Owing
<1>7. Room
  BY <1>1, <1>6, FS_EmptySet, SessionsAssumption DEF Room
<1> QED
  BY <1>2, <1>3, <1>5, <1>6, <1>7 DEF IInv

LEMMA NextKeeps ==
    ASSUME IInv, [Next]_vars
    PROVE  IInv'
  BY ClockKept, TokensKept, RestKept DEF IInv, Rest

LEMMA Invariant == Spec => []IInv
  BY InitInv, NextKeeps, PTL DEF Spec

---------------------------------------------------------------------------
(* Theorems *)

\* Every variable has its type; in particular the bound on pairs is never
\* reached by a rotation, so every refresh that matched can go on.
THEOREM TypeCorrect == Spec => []TypeOK
<1>1. IInv => TypeOK
  <2> SUFFICES ASSUME IInv PROVE TypeOK
    OBVIOUS
  <2>1. Len(pair) <= MaxTokens /\ Len(pair) \in Nat /\ MaxTokens \in Nat
    BY Bounds
  <2>2. /\ call \in [Call -> Calls(MaxTokens)] /\ request \in [Call -> Requests(MaxTokens)]
        /\ ending \in [Tab -> Endings(MaxTokens)]
    BY <2>1, Wider
  <2>3. /\ Calls(MaxTokens) = CallTypes /\ Requests(MaxTokens) = RequestTypes
        /\ Endings(MaxTokens) = EndingTypes
    BY DEF Calls, CallTypes, Requests, RequestTypes, Endings, EndingTypes
  <2> QED
    BY <2>1, <2>2, <2>3 DEF IInv, Clock, Tokens, Refs, TypeOK
<1> QED
  BY <1>1, Invariant, PTL

\* A pair issued in an earlier second than the last revocation is never accepted
\* again: while the marker is there it is refused by it, and when the marker is
\* gone its own life is over (revoke_user_sessions, get_current_user, refresh).
THEOREM RevocationHolds == Spec => []RevokedStaysOut
<1>1. IInv => RevokedStaysOut
  <2> SUFFICES ASSUME IInv, NEW n \in Minted, pair[n].iat < marker.min
               PROVE  ~Accepts(n) /\ ~Passes(n)
    BY DEF RevokedStaysOut
  <2>1. CASE Alive(marker.until)
    BY <2>1 DEF Accepts, Passes, IssuedBefore
  <2>2. CASE ~Alive(marker.until)
    <3> DEFINE i == pair[n].iat
               m == marker.min
    <3>1. i \in Nat /\ m \in Nat /\ i < m /\ marker.until \in Nat
      BY PairFields DEF IInv, Clock
    <3>2. (m + RefreshLife) * Second <= marker.until /\ ~(now < marker.until)
      BY <2>2, <3>1 DEF Alive, IInv, Clock
    <3> HIDE DEF i, m
    <3>3. /\ i + AccessLife <= m + RefreshLife /\ i + RefreshLife <= m + RefreshLife
          /\ i + AccessLife \in Nat /\ i + RefreshLife \in Nat /\ m + RefreshLife \in Nat
      <4>1. \A a, b, x, y \in Nat : a < b /\ x <= y =>
                /\ a + x <= b + y /\ a + y <= b + y
                /\ a + x \in Nat /\ a + y \in Nat /\ b + y \in Nat
        OBVIOUS
      <4> QED
        BY <3>1, <4>1, Bounds
    <3>4. /\ (i + AccessLife) * Second <= (m + RefreshLife) * Second
          /\ (i + RefreshLife) * Second <= (m + RefreshLife) * Second
          /\ {(i + AccessLife) * Second, (i + RefreshLife) * Second,
              (m + RefreshLife) * Second, marker.until, now} \subseteq Nat
      <4>1. \A a, b \in Nat : a <= b => a * Second \in Nat /\ b * Second \in Nat
                                          /\ a * Second <= b * Second
        BY Bounds, Products
      <4> QED
        BY <3>1, <3>3, <4>1, Bounds
    <3>5. (i + AccessLife) * Second <= now /\ (i + RefreshLife) * Second <= now
      <4>1. \A a, b, u, x \in Nat : a <= b /\ b <= u /\ ~(x < u) => a <= x
        OBVIOUS
      <4> QED
        BY <3>2, <3>4, <4>1, Bounds
    <3> QED
      BY <3>5 DEF i, Accepts, Passes, AccessExpired, RefreshExpired
  <2> QED
    BY <2>1, <2>2
<1> QED
  BY <1>1, Invariant, PTL

\* A token that was blocked at its logout is refused until the last second of
\* its life (logout, get_current_user).
THEOREM LogoutHolds == Spec => []LoggedOutStaysOut
<1>1. IInv => LoggedOutStaysOut
  <2> SUFFICES ASSUME IInv, NEW n \in Minted, blocked[n] # 0,
                      now + Second <= (pair[n].iat + AccessLife) * Second
               PROVE  ~Accepts(n)
    BY DEF LoggedOutStaysOut
  <2> DEFINE e == (pair[n].iat + AccessLife) * Second
  <2>1. e < blocked[n] + Second /\ blocked[n] \in Nat /\ now + Second <= e
    BY PairFields DEF IInv, Tokens
  <2>2. pair[n].iat + AccessLife \in Nat
    <3> DEFINE i == pair[n].iat
    <3>1. i \in Nat
      BY PairFields
    <3> HIDE DEF i
    <3>2. i + AccessLife \in Nat
      BY <3>1, Bounds
    <3> QED
      BY <3>2 DEF i
  <2>3. e \in Nat
    <3> DEFINE l == pair[n].iat + AccessLife
    <3> HIDE DEF l
    <3>1. l * Second \in Nat
      BY <2>2, Bounds, Products DEF l
    <3> QED
      BY <3>1 DEF l
  <2> HIDE DEF e
  <2>4. now < blocked[n]
    BY <2>1, <2>3, Bounds
  <2> QED
    BY <2>4 DEF Accepts, Alive
<1> QED
  BY <1>1, Invariant, PTL

\* A refresh matches when it reads its family, and at no other step.
LEMMA MatchedMoves ==
    ASSUME IInv, [Next]_vars, NEW c \in Call, request'[c].at = "matched"
    PROVE  \/ request[c].at = "matched" /\ request'[c].pair = request[c].pair
           \/ /\ Alive(family[FamilyOf(request[c].pair)].until)
              /\ request'[c].pair = request[c].pair /\ UNCHANGED <<now, pair, family>>
<1>1. CASE UNCHANGED request
  BY <1>1
<1>2. ASSUME NEW d \in Call, Handler(d)
      PROVE  \/ request[c].at = "matched" /\ request'[c].pair = request[c].pair
             \/ /\ Alive(family[FamilyOf(request[c].pair)].until)
                /\ request'[c].pair = request[c].pair /\ UNCHANGED <<now, pair, family>>
  <2> DEFINE k == Len(pair) + 1
  <2>1. k \in Nat /\ Len(pair) <= k /\ 0 \in 0..k /\ k \in 0..k
    BY Bounds
  <2> HIDE DEF k
  <2>2. PICK at \in RequestPoints, n \in 0..k :
            /\ Answer(d, at, n)
            /\ at = "matched" => /\ Alive(family[FamilyOf(request[d].pair)].until)
                                 /\ UNCHANGED <<now, pair, family>>
    <3>1. CASE RefreshCheck(d)
      BY <2>1, <3>1 DEF RefreshCheck, RequestPoints
    <3>2. CASE RefreshRead(d)
      BY <2>1, <3>2 DEF RefreshRead, Verdict, RequestPoints
    <3>3. CASE RefreshRotate(d)
      BY <2>1, <3>3 DEF RefreshRotate, RequestPoints, k
    <3>4. CASE BurnFamily(d)
      BY <2>1, <3>4 DEF BurnFamily, RequestPoints
    <3>5. CASE BurnSessions(d)
      BY <2>1, <3>5 DEF BurnSessions, RequestPoints
    <3> QED
      BY <1>2, <3>1, <3>2, <3>3, <3>4, <3>5 DEF Handler
  <2>3. /\ request'[d].at = at /\ request'[d].pair = request[d].pair
        /\ \A e \in Call \ {d} : request'[e] = request[e]
    BY <2>1, <2>2, AnswerTypes
  <2> QED
    BY <2>2, <2>3
<1>3. ASSUME NEW d \in Call, RefreshDone(d) \/ RefreshRefused(d) \/ RefreshLost(d)
      PROVE  request[c].at = "matched" /\ request'[c].pair = request[c].pair
  <2>1. request' = [request EXCEPT ![d] = NoRequest]
    BY <1>3 DEF RefreshDone, RefreshRefused, RefreshLost, Settle
  <2> QED
    BY <2>1 DEF NoRequest, IInv, Refs
<1>4. ASSUME NEW d \in Call, Denied(d)
      PROVE  request[c].at = "matched" /\ request'[c].pair = request[c].pair
  <2> DEFINE y == [at |-> "sent", pair |-> jar[JarOf[TabOf[d]]], new |-> 0]
  <2>1. y.at = "sent"
    OBVIOUS
  <2>2. request' = request \/ request' = [request EXCEPT ![d] = y]
    BY <1>4 DEF Denied
  <2> HIDE DEF y
  <2> QED
    BY <2>1, <2>2 DEF IInv, Refs
<1>5. ASSUME NEW d \in Call, SendCall(d) \/ Answered(d)
      PROVE  UNCHANGED request
  BY <1>5 DEF SendCall, Answered
<1>6. ASSUME NEW t \in Tab, Login(t) \/ EndSession(t) \/ Ending(t)
      PROVE  UNCHANGED request
  BY <1>6 DEF Login, EndSession, Ending, Block, Drop, DeleteRevokes, ClearCookies
<1>7. CASE Tick \/ ResetPassword \/ UNCHANGED vars
  BY <1>7 DEF Tick, ResetPassword, vars
<1> QED
  BY <1>1, <1>2, <1>3, <1>4, <1>5, <1>6, <1>7 DEF Next, Client

\* The pairs that were minted keep their families.
LEMMA PairsStay ==
    ASSUME IInv, [Next]_vars
    PROVE  Minted \subseteq Minted' /\ \A n \in Minted : pair'[n] = pair[n]
<1>1. CASE pair' = pair
  BY <1>1 DEF Minted
<1>2. ASSUME NEW f \in Pairs, f <= Len(pair) + 1, Len(pair) < MaxTokens,
             Issue(f, Len(pair) + 1), UNCHANGED blocked
      PROVE  Minted \subseteq Minted' /\ \A n \in Minted : pair'[n] = pair[n]
  <2>1. Len(pair') = Len(pair) + 1 /\ \A n \in Minted : pair'[n] = pair[n]
    BY <1>2, IssueKeeps
  <2> QED
    BY <2>1, Bounds DEF Minted
<1>3. ASSUME NEW c \in Call, RefreshRotate(c)
      PROVE  Minted \subseteq Minted' /\ \A n \in Minted : pair'[n] = pair[n]
  BY <1>2, <1>3, RotateIssues DEF RefreshRotate
<1>4. ASSUME NEW t \in Tab, Login(t)
      PROVE  Minted \subseteq Minted' /\ \A n \in Minted : pair'[n] = pair[n]
  <2>1. Len(pair) + 1 \in Pairs /\ Len(pair) + 1 <= Len(pair) + 1 /\ Len(pair) < MaxTokens
    BY <1>4, LoginIssues, Bounds
  <2>2. Issue(Len(pair) + 1, Len(pair) + 1) /\ UNCHANGED blocked
    BY <1>4 DEF Login
  <2> QED
    BY <1>2, <2>1, <2>2
<1>5. ASSUME NEW c \in Call, BurnFamily(c)
      PROVE  pair' = pair
  BY <1>5 DEF BurnFamily
<1>6. ASSUME NEW t \in Tab, Block(t) \/ Drop(t)
      PROVE  pair' = pair
  BY <1>6 DEF Block, Drop
<1> QED
  BY <1>1, <1>3, <1>4, <1>5, <1>6, TokenMoves

\* The key of a family that ended is written by none: a login writes a new one,
\* and a rotation had matched before.
LEMMA KeyStaysGone ==
    ASSUME IInv, [Next]_vars, NEW f \in Families, Ended(f)
    PROVE  ~Alive(family[f].until)'
<1>1. f \in Pairs /\ f \in Nat /\ f <= Len(pair) /\ now' \in Nat /\ now \in Nat /\ now <= now'
  <2>1. PICK n \in Minted : f = FamilyOf(n)
    BY DEF Families
  <2>2. f \in Pairs /\ f <= n /\ n \in 1..Len(pair)
    BY <2>1, PairFields DEF Minted
  <2>3. now' \in Nat /\ now \in Nat /\ now <= now'
    BY ClockKept, Bounds DEF Clock
  <2> QED
    BY <2>2, <2>3, Bounds DEF Pairs
<1>2. family \in [Pairs -> [cur : 0..MaxTokens, until : Nat]]
  BY DEF IInv, Tokens
<1>3. ~(now < family[f].until) /\ family[f].until \in Nat
  BY <1>1, <1>2 DEF Ended, Alive
<1>4. ASSUME family'[f] = family[f] \/ family'[f] = Gone
      PROVE  ~Alive(family[f].until)'
  <2>1. family'[f].until = family[f].until \/ family'[f].until = 0
    BY <1>4 DEF Gone
  <2> QED
    BY <1>1, <1>3, <2>1 DEF Alive
<1>5. CASE UNCHANGED family
  BY <1>4, <1>5
<1>6. ASSUME NEW c \in Call, RefreshRotate(c)
      PROVE  family'[f] = family[f]
  <2>1. FamilyOf(request[c].pair) # f
    BY <1>6 DEF RefreshRotate, Ended, Refreshing
  <2> QED
    BY <1>1, <1>2, <1>6, <2>1 DEF RefreshRotate, Issue
<1>7. ASSUME NEW t \in Tab, Login(t)
      PROVE  family'[f] = family[f]
  <2>1. Len(pair) + 1 # f
    BY <1>1, Bounds
  <2> QED
    BY <1>1, <1>2, <1>7, <2>1 DEF Login, Issue
<1>8. ASSUME NEW g, DropFamily(g)
      PROVE  family'[f] = family[f] \/ family'[f] = Gone
  BY <1>1, <1>2, <1>8 DEF DropFamily
<1>9. ASSUME NEW c \in Call, BurnFamily(c)
      PROVE  family'[f] = family[f] \/ family'[f] = Gone
  BY <1>8, <1>9 DEF BurnFamily
<1>10. ASSUME NEW t \in Tab, Block(t) \/ Drop(t)
       PROVE  family'[f] = family[f] \/ family'[f] = Gone
  BY <1>8, <1>10 DEF Block, Drop
<1> QED
  BY <1>4, <1>5, <1>6, <1>7, <1>9, <1>10, TokenMoves

\* A family that was logged out, burnt or expired gets no further pair: what is
\* over for one client is over for whoever copied its tokens (refresh, logout).
THEOREM EndedForGood == Spec => EndedStaysEnded
<1>1. IInv /\ [Next]_vars => \A f \in Families : Ended(f) => Ended(f)'
  <2> SUFFICES ASSUME IInv, [Next]_vars, NEW f \in Families, Ended(f)
               PROVE  Ended(f)'
    OBVIOUS
  <2>1. ~Alive(family[f].until)'
    BY KeyStaysGone
  <2>2. ~Refreshing(f, {"matched"})'
    <3> SUFFICES ASSUME NEW c \in Call, request'[c].at = "matched",
                        FamilyOf(request[c].pair)' = f
                 PROVE  FALSE
      BY DEF Refreshing
    <3>1. request'[c].pair = request[c].pair
      BY MatchedMoves
    <3>2. request[c].pair \in Minted
      <4>1. CASE request[c].at = "matched"
        BY <4>1, RequestFields
      <4>2. CASE UNCHANGED <<now, pair, family>>
        <5>1. request'[c].pair # 0 /\ request[c].pair \in 0..Len(pair)
          BY NextKeeps, RequestFields DEF IInv, Working
        <5> QED
          BY <3>1, <5>1, Bounds DEF Minted
      <4> QED
        BY <4>1, <4>2, MatchedMoves
    <3>3. FamilyOf(request[c].pair) = f
      BY <3>1, <3>2, PairsStay DEF FamilyOf
    <3>4. request[c].at # "matched" /\ ~Alive(family[FamilyOf(request[c].pair)].until)
      BY <3>3 DEF Ended, Refreshing
    <3> QED
      BY <3>4, MatchedMoves
  <2> QED
    BY <2>1, <2>2 DEF Ended
<1> QED
  BY <1>1, Invariant, PTL DEF Spec, EndedStaysEnded

---------------------------------------------------------------------------
(* The user's own client *)

\* One tab to a browser.
OneTab == \A t, u \in Tab : JarOf[t] = JarOf[u] => t = u

\* The family of pair n would take n for a reuse of nothing.
Current(n) == family[FamilyOf(n)] = Gone \/ family[FamilyOf(n)].cur = n

JarFor(c) == JarOf[TabOf[c]]

\* Pair n is in the cookies of browser j, or in a refresh of its tab.
Holds(j, n) ==
    \/ jar[j] = n
    \/ \E c \in Call : /\ JarFor(c) = j /\ request[c].at # "none"
                       /\ n \in {request[c].pair, request[c].new}

\* A tab has one refresh under way, the one it has promised.
Asked == \A c \in Call : request[c].at # "none" => promise[TabOf[c]] = c

\* No two browsers hold pairs of one family.
Separate ==
    \A i, j \in Jar, m, n \in Minted :
        Holds(i, m) /\ Holds(j, n) /\ FamilyOf(m) = FamilyOf(n) => i = j

\* What a refresh presents, or brings back, is the current pair of its family.
Presents(c) ==
    /\ request[c].at \notin {"reused", "burning"}
    /\ request[c].at \in {"sent", "checked", "matched"} /\ request[c].pair # 0 =>
          Current(request[c].pair)
    /\ request[c].at = "rotated" => request[c].new # 0 /\ Current(request[c].new)

\* Cookies are current, but while the answer to a rotation is on its way.
Brings(c, n) ==
    /\ request[c].at = "rotated"
    /\ FamilyOf(request[c].new) = FamilyOf(n)

Keeps(j) ==
    jar[j] # 0 =>
        Current(jar[j]) \/ \E c \in Call : JarFor(c) = j /\ Brings(c, jar[j])

Sound ==
    /\ Asked /\ Separate
    /\ \A c \in Call : Presents(c)
    /\ \A j \in Jar : Keeps(j)

LEMMA Held ==
    ASSUME IInv, NEW c \in Call, request[c].at # "none"
    PROVE  /\ JarFor(c) \in Jar
           /\ request[c].pair # 0 => request[c].pair \in Minted /\ Holds(JarFor(c), request[c].pair)
           /\ request[c].new # 0 => request[c].new \in Minted /\ Holds(JarFor(c), request[c].new)
<1>1. request[c].pair \in 0..Len(pair) /\ request[c].new \in 0..Len(pair) /\ JarFor(c) \in Jar
  BY RequestFields DEF JarFor
<1> QED
  BY <1>1, Bounds, SMTT(30) DEF Holds, Minted

\* Two refreshes under way do not concern the same family.
LEMMA OneRefresh ==
    ASSUME OneTab, IInv, Sound, NEW c \in Call, NEW d \in Call,
           request[c].at # "none", request[d].at # "none", JarFor(c) = JarFor(d)
    PROVE  c = d
<1>1. TabOf[c] = TabOf[d]
  BY RequestFields DEF OneTab, JarFor
<1> QED
  BY <1>1 DEF Sound, Asked

\* Nothing further is held when no pair is minted.
LEMMA SeparateStays ==
    ASSUME Separate, UNCHANGED pair,
           \A j \in Jar, n \in Minted : Holds(j, n)' => Holds(j, n)
    PROVE  Separate'
  BY DEF Separate, Minted, FamilyOf

\* A pair is minted, for a browser that alone holds pairs of its family.
LEMMA SeparateIssued ==
    ASSUME IInv, Separate, NEW k, k = Len(pair) + 1, Len(pair') = k,
           \A n \in Minted : pair'[n] = pair[n],
           \A j \in Jar, n \in Minted : Holds(j, n)' => Holds(j, n),
           NEW i \in Jar, \A j \in Jar : Holds(j, k)' => j = i,
           \A j \in Jar, n \in Minted : Holds(j, n) /\ FamilyOf(n) = FamilyOf(k)' => j = i
    PROVE  Separate'
<1>1. \A n \in Minted' : n \in Minted \/ n = k
  BY Bounds DEF Minted
<1>2. \A n \in Minted : FamilyOf(n)' = FamilyOf(n)
  BY DEF FamilyOf
<1> SUFFICES ASSUME NEW x \in Jar, NEW y \in Jar, NEW m \in Minted', NEW n \in Minted',
                    Holds(x, m)', Holds(y, n)', FamilyOf(m)' = FamilyOf(n)'
             PROVE  x = y
  BY DEF Separate
<1>3. CASE m = k \/ n = k
  BY <1>1, <1>2, <1>3
<1>4. CASE m \in Minted /\ n \in Minted
  BY <1>2, <1>4 DEF Separate
<1> QED
  BY <1>1, <1>3, <1>4

LEMMA InitSound == Init => Sound
<1> SUFFICES ASSUME Init PROVE Sound
  OBVIOUS
<1>1. \A c \in Call : request[c].at = "none"
  BY DEF Init, NoRequest
<1>2. Minted = {}
  BY DEF Init, Minted
<1>3. \A j \in Jar : jar[j] = 0
  BY DEF Init
<1> QED
  BY <1>1, <1>2, <1>3 DEF Sound, Asked, Separate, Presents, Keeps

\* The check and the read of a refresh: what is current is not taken for reused.
LEMMA HandlerSound ==
    ASSUME IInv, Sound, NEW c \in Call, RefreshCheck(c) \/ RefreshRead(c)
    PROVE  Sound'
<1>0. UNCHANGED <<pair, family, jar, promise>> /\ now \in Nat
  BY Bounds DEF RefreshCheck, RefreshRead
<1>1. PICK at \in {"checked", "refused", "matched"} :
          /\ Answer(c, at, 0)
          /\ at \in {"checked", "matched"} => request[c].pair # 0
  <2>1. CASE RefreshCheck(c)
    BY <2>1 DEF RefreshCheck, Passes
  <2>2. CASE RefreshRead(c)
    <3> DEFINE n == request[c].pair
    <3>1. n # 0 /\ Current(n)
      BY <2>2 DEF RefreshRead, IInv, Working, Sound, Presents
    <3>2. Verdict(FamilyOf(n), n) \in {"refused", "matched"}
      BY <1>0, <3>1 DEF Verdict, Current, Gone, Alive
    <3> QED
      BY <2>2, <3>1, <3>2 DEF RefreshRead
  <2> QED
    BY <2>1, <2>2
<1>2. request[c].at \in {"sent", "checked"}
  BY DEF RefreshCheck, RefreshRead
<1>3. /\ request'[c].at = at /\ request'[c].pair = request[c].pair /\ request'[c].new = 0
      /\ \A d \in Call \ {c} : request'[d] = request[d]
  <2>1. Len(pair) \in Nat /\ 0 \in 0..Len(pair) /\ Len(pair) <= Len(pair) /\ at \in RequestPoints
    BY <1>1, Bounds DEF RequestPoints
  <2> QED
    BY <1>1, <2>1, AnswerTypes
<1>4. Asked'
  BY <1>0, <1>2, <1>3 DEF Sound, Asked
<1>5. Separate'
  <2>1. \A j \in Jar, n \in Minted : Holds(j, n)' => Holds(j, n)
    <3>1. 0 \notin Minted
      BY DEF Minted
    <3> QED
      BY <1>0, <1>2, <1>3, <3>1 DEF Holds, JarFor
  <2> QED
    BY <1>0, <2>1, SeparateStays DEF Sound
<1>6. \A d \in Call : Presents(d)'
  BY <1>0, <1>1, <1>2, <1>3 DEF Sound, Presents, Current, FamilyOf
<1>7. ASSUME NEW j \in Jar PROVE Keeps(j)'
  <2>1. \A d \in Call : Brings(d, jar[j]) => Brings(d, jar[j])'
    BY <1>0, <1>2, <1>3 DEF Brings, FamilyOf
  <2> QED
    BY <1>0, <2>1 DEF Sound, Keeps, Current, FamilyOf, JarFor
<1> QED
  BY <1>4, <1>5, <1>6, <1>7 DEF Sound

\* The rotation: the cookies of its own browser, and of no other, are superseded
\* until the answer arrives.
LEMMA RotateSound ==
    ASSUME OneTab, IInv, Sound, NEW c \in Call, RefreshRotate(c)
    PROVE  Sound'
<1>a. PICK n, f, k, i :
          n = request[c].pair /\ f = FamilyOf(n) /\ k = Len(pair) + 1 /\ i = JarFor(c)
  OBVIOUS
<1>1. /\ request[c].at = "matched" /\ n \in Minted /\ f \in Pairs /\ i \in Jar
      /\ Holds(i, n)
  BY <1>a, RotateIssues, Held DEF RefreshRotate, Minted
<1>2. UNCHANGED <<jar, promise, blocked>> /\ Issue(f, k) /\ Answer(c, "rotated", k)
  BY <1>a DEF RefreshRotate
<1>3. /\ Len(pair') = k /\ (\A m \in Minted : pair'[m] = pair[m])
      /\ FamilyOf(k)' = f
  <2>1. f <= Len(pair) + 1 /\ Len(pair) < MaxTokens
    BY <1>a, RotateIssues
  <2>2. pair'[k] = [fam |-> f, iat |-> WholeSecond]
    BY <1>1, <1>2, <1>a, <2>1, IssueKeeps
  <2> QED
    BY <1>1, <1>2, <1>a, <2>1, <2>2, IssueKeeps DEF FamilyOf
<1>4. k \in Nat /\ k \notin Minted /\ 0 \notin Minted /\ k # 0
  BY <1>a, Bounds DEF Minted
<1>5. /\ request'[c].at = "rotated" /\ request'[c].pair = n /\ request'[c].new = k
      /\ \A d \in Call \ {c} : request'[d] = request[d]
  <2>1. Len(pair) <= k /\ k \in 0..k /\ "rotated" \in RequestPoints
    BY <1>a, Bounds DEF RequestPoints
  <2> QED
    BY <1>2, <1>4, <1>a, <2>1, AnswerTypes
<1>6. /\ family'[f].cur = k
      /\ \A g \in Pairs \ {f} : family'[g] = family[g]
  BY <1>1, <1>2 DEF Issue, IInv, Tokens
<1>7. \A m \in Minted : FamilyOf(m)' = FamilyOf(m) /\ FamilyOf(m) \in Pairs
  BY <1>3, PairFields DEF FamilyOf
<1>8. \A m \in Minted : FamilyOf(m) # f /\ Current(m) => Current(m)'
  BY <1>6, <1>7 DEF Current
<1>9. \A d \in Call : /\ request[d].pair \in 0..Len(pair) /\ request[d].new \in 0..Len(pair)
  BY RequestFields
<1>10. Asked'
  BY <1>1, <1>2, <1>5 DEF Sound, Asked
<1>11. Separate'
  <2>1. \A j \in Jar, m \in Minted : Holds(j, m)' => Holds(j, m)
    BY <1>1, <1>2, <1>4, <1>5, <1>a DEF Holds, JarFor
  <2>2. ASSUME NEW j \in Jar, Holds(j, k)' PROVE j = i
    <3>1. jar[j] # k
      BY <1>a, Bounds DEF IInv, Refs
    <3>2. \A d \in Call \ {c} : k \notin {request'[d].pair, request'[d].new}
      BY <1>5, <1>9, <1>a, Bounds
    <3> QED
      BY <1>2, <1>a, <2>2, <3>1, <3>2 DEF Holds, JarFor
  <2>3. \A j \in Jar, m \in Minted : Holds(j, m) /\ FamilyOf(m) = FamilyOf(k)' => j = i
    BY <1>1, <1>3, <1>a DEF Sound, Separate
  <2> QED
    BY <1>1, <1>3, <1>a, <2>1, <2>2, <2>3, SeparateIssued DEF Sound
<1>12. ASSUME NEW d \in Call PROVE Presents(d)'
  <2>1. CASE d = c
    BY <1>3, <1>4, <1>5, <1>6, <2>1 DEF Presents, Current
  <2>2. CASE d # c
    <3>1. ASSUME NEW m \in Minted, Holds(JarFor(d), m), Current(m), request[d].at # "none"
          PROVE  Current(m)'
      <4>1. FamilyOf(m) # f
        <5>1. JarFor(d) # i
          BY <1>1, <1>a, <2>2, <3>1, OneRefresh
        <5> QED
          BY <1>1, <1>a, <3>1, <5>1, Held DEF Sound, Separate
      <4> QED
        BY <1>8, <3>1, <4>1
    <3>2. Presents(d) /\ request'[d] = request[d]
      BY <1>5, <2>2 DEF Sound
    <3> QED
      BY <3>1, <3>2, Held DEF Presents
  <2> QED
    BY <2>1, <2>2
<1>13. ASSUME NEW j \in Jar PROVE Keeps(j)'
  <2> SUFFICES ASSUME jar[j] # 0
               PROVE  Current(jar[j])' \/ \E d \in Call : JarFor(d) = j /\ Brings(d, jar[j])'
    BY <1>2 DEF Keeps, JarFor
  <2>1. jar[j] \in Minted /\ Holds(j, jar[j])
    BY Bounds DEF Holds, Minted, IInv, Refs
  <2>2. CASE FamilyOf(jar[j]) = f
    <3>1. j = i
      BY <1>1, <1>a, <2>1, <2>2 DEF Sound, Separate
    <3>2. Brings(c, jar[j])'
      BY <1>2, <1>3, <1>5, <1>7, <2>1, <2>2 DEF Brings
    <3> QED
      BY <1>a, <3>1, <3>2
  <2>3. CASE FamilyOf(jar[j]) # f
    <3>1. ASSUME NEW d \in Call, Brings(d, jar[j]) PROVE Brings(d, jar[j])'
      <4>1. d # c /\ request'[d] = request[d] /\ request[d].at = "rotated"
        BY <1>1, <1>5, <3>1 DEF Brings
      <4>2. request[d].new \in Minted
        BY <4>1, Held DEF Sound, Presents
      <4> QED
        BY <1>2, <1>7, <2>1, <3>1, <4>1, <4>2 DEF Brings
    <3>2. Current(jar[j]) => Current(jar[j])'
      BY <1>2, <1>8, <2>1, <2>3 DEF Current, FamilyOf
    <3> QED
      BY <2>1, <3>1, <3>2 DEF Sound, Keeps
  <2> QED
    BY <2>2, <2>3
<1> QED
  BY <1>10, <1>11, <1>12, <1>13 DEF Sound
\* A call refused: its tab has no refresh under way, or the call joins it.
LEMMA DeniedSound ==
    ASSUME OneTab, IInv, Sound, NEW c \in Call, Denied(c)
    PROVE  Sound'
<1>1. request[c].at = "none" /\ UNCHANGED <<pair, family, jar>> /\ TabOf[c] \in Tab
  BY RequestFields DEF Denied, IInv, Working
<1>2. CASE Ask(c) # c
  <2>1. promise[TabOf[c]] # None /\ Ask(c) = promise[TabOf[c]]
    BY <1>2 DEF Ask
  <2>2. UNCHANGED <<request, promise>>
    BY <1>1, <1>2, <2>1 DEF Denied, IInv, Refs
  <2> QED
    BY <1>1, <2>2 DEF Sound, Asked, Separate, Presents, Keeps, Holds, Brings, Current,
       FamilyOf, JarFor, Minted
<1>3. CASE Ask(c) = c
  <2>1. \A d \in Call : TabOf[d] = TabOf[c] => request[d].at = "none"
    <3> SUFFICES ASSUME NEW d \in Call, TabOf[d] = TabOf[c], request[d].at # "none" PROVE FALSE
      OBVIOUS
    <3>1. promise[TabOf[c]] = d /\ d # None
      BY SessionsAssumption DEF Sound, Asked
    <3> QED
      BY <1>1, <1>3, <3>1 DEF Ask
  <2>2. /\ request'[c] = [at |-> "sent", pair |-> jar[JarFor(c)], new |-> 0]
        /\ \A d \in Call \ {c} : request'[d] = request[d]
        /\ promise' = [promise EXCEPT ![TabOf[c]] = c]
    BY <1>3 DEF Denied, JarFor, IInv, Refs
  <2>3. /\ request'[c].at = "sent" /\ request'[c].pair = jar[JarFor(c)]
        /\ request'[c].new = 0 /\ JarFor(c) \in Jar
    BY <2>2, RequestFields DEF JarFor
  <2>4. Asked'
    BY <1>1, <2>1, <2>2 DEF Sound, Asked, IInv, Refs
  <2>5. Separate'
    <3>1. \A j \in Jar, n \in Minted : Holds(j, n)' => Holds(j, n)
      <4>1. 0 \notin Minted
        BY DEF Minted
      <4> QED
        BY <1>1, <2>2, <2>3, <4>1 DEF Holds, JarFor
    <3> QED
      BY <1>1, <3>1, SeparateStays DEF Sound
  <2>6. jar[JarFor(c)] # 0 => Current(jar[JarFor(c)])
    <3>1. ASSUME NEW d \in Call, JarFor(d) = JarFor(c) PROVE request[d].at = "none"
      <4>1. TabOf[d] = TabOf[c]
        BY <3>1, RequestFields DEF OneTab, JarFor
      <4> QED
        BY <2>1, <4>1
    <3> QED
      BY <2>3, <3>1 DEF Sound, Keeps, Brings
  <2>7. \A d \in Call : Presents(d)'
    <3>1. Presents(c)'
      BY <1>1, <2>3, <2>6 DEF Presents, Current, FamilyOf
    <3> QED
      BY <1>1, <2>2, <3>1 DEF Sound, Presents, Current, FamilyOf
  <2>8. \A j \in Jar : Keeps(j)'
    BY <1>1, <2>2 DEF Sound, Keeps, Brings, Current, FamilyOf, JarFor
  <2> QED
    BY <2>4, <2>5, <2>7, <2>8 DEF Sound
<1> QED
  BY <1>2, <1>3

\* The answer of a refresh that arrives: the cookies are the current pair again.
LEMMA SettledSound ==
    ASSUME OneTab, IInv, Sound, NEW c \in Call, RefreshDone(c) \/ RefreshRefused(c)
    PROVE  Sound'
<1>1. request[c].at \in {"rotated", "refused"} /\ UNCHANGED <<pair, family>>
  BY DEF RefreshDone, RefreshRefused
<1>2. /\ request' = [request EXCEPT ![c] = NoRequest]
      /\ promise' = [promise EXCEPT ![TabOf[c]] = None]
  BY DEF RefreshDone, RefreshRefused, Settle
<1>3. /\ request'[c].at = "none"
      /\ \A d \in Call \ {c} : request'[d] = request[d]
  BY <1>2 DEF NoRequest, IInv, Refs
<1>4. \A d \in Call \ {c} : request[d].at # "none" => TabOf[d] # TabOf[c]
  BY <1>1 DEF Sound, Asked
<1>5. JarFor(c) \in Jar /\ \A d \in Call : TabOf[d] \in Tab
  BY RequestFields DEF JarFor
<1>6. \A j \in Jar : \/ jar'[j] = jar[j] /\ (j = JarFor(c) => request[c].at = "refused")
                     \/ /\ j = JarFor(c) /\ request[c].at = "rotated"
                        /\ jar'[j] = request[c].new
  BY DEF RefreshDone, RefreshRefused, Settle, JarFor, IInv, Refs
<1>7. Asked'
  BY <1>2, <1>3, <1>4, <1>5 DEF Sound, Asked, IInv, Refs
<1>8. Separate'
  <2>1. \A j \in Jar, n \in Minted : Holds(j, n)' => Holds(j, n)
    BY <1>1, <1>3, <1>6 DEF Holds, JarFor
  <2> QED
    BY <1>1, <2>1, SeparateStays DEF Sound
<1>9. \A d \in Call : Presents(d)'
  BY <1>1, <1>3 DEF Sound, Presents, Current, FamilyOf
<1>10. ASSUME NEW j \in Jar PROVE Keeps(j)'
  <2>1. CASE j = JarFor(c) /\ request[c].at = "rotated" /\ jar'[j] = request[c].new
    <3>1. Current(request[c].new)
      BY <2>1 DEF Sound, Presents
    <3> QED
      BY <1>1, <2>1, <3>1 DEF Keeps, Current, FamilyOf
  <2>2. CASE jar'[j] = jar[j] /\ (j = JarFor(c) => request[c].at = "refused")
    <3>1. \A d \in Call : JarFor(d) = j /\ Brings(d, jar[j]) => d # c /\ Brings(d, jar[j])'
      BY <1>1, <1>3, <2>2 DEF Brings, FamilyOf
    <3> QED
      BY <1>1, <2>2, <3>1 DEF Sound, Keeps, Current, FamilyOf, JarFor
  <2> QED
    BY <1>6, <2>1, <2>2
<1> QED
  BY <1>7, <1>8, <1>9, <1>10 DEF Sound

\* A login begins a family that nobody holds.
LEMMA LoginSound ==
    ASSUME IInv, Sound, NEW t \in Tab, Login(t)
    PROVE  Sound'
<1>a. PICK k : k = Len(pair) + 1
  OBVIOUS
<1>1. /\ JarOf[t] \in Jar /\ jar' = [jar EXCEPT ![JarOf[t]] = k]
      /\ UNCHANGED <<request, promise, blocked>> /\ Issue(k, k)
  BY <1>a, EndingFields DEF Login
<1>2. k \in Pairs /\ k \in Nat /\ k # 0 /\ k \notin Minted /\ Len(pair) < MaxTokens
  BY <1>a, LoginIssues, Bounds DEF Minted
<1>3. /\ Len(pair') = k /\ (\A m \in Minted : pair'[m] = pair[m])
      /\ FamilyOf(k)' = k
  <2>1. pair'[k] = [fam |-> k, iat |-> WholeSecond]
    BY <1>a, <1>1, <1>2, IssueKeeps
  <2> QED
    BY <1>a, <1>1, <1>2, <2>1, IssueKeeps DEF FamilyOf
<1>4. /\ family'[k].cur = k
      /\ \A g \in Pairs \ {k} : family'[g] = family[g]
  BY <1>1, <1>2 DEF Issue, IInv, Tokens
<1>5. \A m \in Minted : FamilyOf(m)' = FamilyOf(m) /\ FamilyOf(m) \in Pairs /\ FamilyOf(m) # k
  <2> SUFFICES ASSUME NEW m \in Minted
               PROVE  FamilyOf(m)' = FamilyOf(m) /\ FamilyOf(m) \in Pairs /\ FamilyOf(m) # k
    OBVIOUS
  <2>1. FamilyOf(m) \in Pairs /\ FamilyOf(m) <= m /\ m \in 1..Len(pair)
    BY PairFields DEF Minted
  <2>2. FamilyOf(m) # k
    BY <1>a, <2>1, Bounds DEF Pairs
  <2> QED
    BY <1>3, <2>1, <2>2 DEF FamilyOf
<1>6. \A m \in Minted : Current(m) => Current(m)'
  BY <1>4, <1>5 DEF Current
<1>7. Asked'
  BY <1>1 DEF Sound, Asked
<1>8. \A d \in Call : request[d].pair # k /\ request[d].new # k
  BY <1>a, RequestFields, Bounds
<1>9. Separate'
  <2>1. \A j \in Jar, n \in Minted : Holds(j, n)' => Holds(j, n)
    BY <1>1, <1>2 DEF Holds, JarFor, IInv, Refs
  <2>2. ASSUME NEW j \in Jar, Holds(j, k)' PROVE j = JarOf[t]
    <3>1. jar[j] # k
      BY <1>a, Bounds DEF IInv, Refs
    <3> QED
      BY <1>1, <1>8, <2>2, <3>1 DEF Holds, JarFor, IInv, Refs
  <2>3. \A n \in Minted : FamilyOf(n) # FamilyOf(k)'
    BY <1>3, <1>5
  <2> QED
    BY <1>1, <1>3, <1>a, <2>1, <2>2, <2>3, SeparateIssued DEF Sound
<1>10. ASSUME NEW d \in Call PROVE Presents(d)'
  BY <1>1, <1>6, Held DEF Sound, Presents
<1>11. ASSUME NEW j \in Jar PROVE Keeps(j)'
  <2>1. CASE j = JarOf[t]
    BY <1>1, <1>3, <1>4, <2>1 DEF Keeps, Current, IInv, Refs
  <2>2. CASE j # JarOf[t] /\ jar[j] # 0
    <3>1. jar[j] \in Minted /\ jar'[j] = jar[j]
      BY <1>1, <2>2, Bounds DEF Minted, IInv, Refs
    <3>2. ASSUME NEW d \in Call, Brings(d, jar[j]) PROVE Brings(d, jar[j])'
      <4>1. request[d].new \in Minted
        BY <3>2, Held DEF Sound, Presents, Brings
      <4> QED
        BY <1>1, <1>5, <3>1, <3>2, <4>1 DEF Brings, FamilyOf
    <3>3. Current(jar[j]) => Current(jar[j])'
      BY <1>6, <3>1 DEF Current, FamilyOf
    <3> QED
      BY <2>2, <3>1, <3>2, <3>3 DEF Sound, Keeps, JarFor
  <2>3. CASE j # JarOf[t] /\ jar[j] = 0
    BY <1>1, <2>3 DEF Keeps, IInv, Refs
  <2> QED
    BY <2>1, <2>2, <2>3
<1> QED
  BY <1>7, <1>9, <1>10, <1>11 DEF Sound

\* A logout: the family goes, then the cookies.
LEMMA LogoutSound ==
    ASSUME IInv, Sound, NEW t \in Tab, Drop(t) \/ ClearCookies(t)
    PROVE  Sound'
<1>1. UNCHANGED <<pair, request, promise>>
  BY DEF Drop, ClearCookies
<1>2. \A n \in Minted : Current(n) => Current(n)'
  <2>1. \A g \in Pairs : family'[g] \in {family[g], Gone}
    BY DEF Drop, DropFamily, ClearCookies, IInv, Tokens
  <2> QED
    BY <1>1, <2>1, PairFields DEF Current, FamilyOf
<1>3. \A j \in Jar : jar'[j] \in {jar[j], 0} /\ (jar'[j] # 0 => jar[j] \in Minted)
  BY Bounds DEF Drop, ClearCookies, Minted, IInv, Refs
<1>4. Separate'
  <2>1. \A j \in Jar, n \in Minted : Holds(j, n)' => Holds(j, n)
    BY <1>1, <1>3 DEF Holds, JarFor, Minted
  <2> QED
    BY <1>1, <2>1, SeparateStays DEF Sound
<1>5. ASSUME NEW d \in Call PROVE Presents(d)'
  BY <1>1, <1>2, Held DEF Sound, Presents
<1>6. ASSUME NEW j \in Jar, jar'[j] # 0 PROVE Keeps(j)'
  <2>1. jar'[j] = jar[j] /\ jar[j] \in Minted
    BY <1>3, <1>6
  <2>2. Current(jar[j]) => Current(jar[j])'
    BY <1>2, <2>1 DEF Current, FamilyOf
  <2> QED
    BY <1>1, <1>6, <2>1, <2>2 DEF Sound, Keeps, Brings, FamilyOf, JarFor
<1>7. Asked'
  BY <1>1 DEF Sound, Asked
<1> QED
  BY <1>4, <1>5, <1>6, <1>7 DEF Sound, Keeps

LEMMA NextSound ==
    ASSUME OneTab, IInv, [Next]_vars, ~lost => Sound
    PROVE  ~lost' => Sound'
<1> SUFFICES ASSUME ~lost' PROVE Sound'
  OBVIOUS
<1>1. ~lost
  BY DEF IInv, Refs, Next, vars, Tick, ResetPassword, SendCall, Client, Handler, RefreshLost,
     Answered, Denied, RefreshDone, RefreshRefused, RefreshCheck, RefreshRead, RefreshRotate,
     BurnFamily, BurnSessions, Login, EndSession, Ending, Block, Drop, DeleteRevokes,
     ClearCookies, countVars
<1>2. Sound
  BY <1>1
<1>3. CASE UNCHANGED <<pair, family, jar, request, promise>>
  BY <1>2, <1>3 DEF Sound, Asked, Separate, Presents, Keeps, Holds, Brings, Current, FamilyOf,
     JarFor, Minted
<1>4. ASSUME NEW c \in Call, SendCall(c) \/ Client(c) \/ Handler(c) \/ RefreshLost(c)
      PROVE  Sound'
  <2>1. ~BurnFamily(c) /\ ~BurnSessions(c)
    BY <1>2 DEF Sound, Presents, BurnFamily, BurnSessions
  <2>2. ~RefreshLost(c)
    BY DEF RefreshLost
  <2> QED
    BY <1>2, <1>3, <1>4, <2>1, <2>2, HandlerSound, RotateSound, DeniedSound, SettledSound
       DEF Client, Handler, SendCall, Answered
<1>5. ASSUME NEW t \in Tab, Login(t) \/ EndSession(t) \/ Ending(t)
      PROVE  Sound'
  BY <1>2, <1>3, <1>5, LoginSound, LogoutSound DEF EndSession, Ending, Block, DeleteRevokes
<1> QED
  BY <1>3, <1>4, <1>5 DEF Next, Tick, ResetPassword, vars

\* With one tab to a browser and no answer to a refresh lost, no refresh of the
\* user's own client is taken for the reuse of a superseded token, in any number
\* of browsers and calls (refresh, and the interceptor of api/index.js).
THEOREM OwnClientNeverBurned ==
    ASSUME OneTab
    PROVE  Spec => []NeverBurned
<1>1. Init => (~lost => Sound)
  BY InitSound
<1>2. IInv /\ [Next]_vars /\ (~lost => Sound) => (~lost => Sound)'
  BY NextSound
<1>3. (~lost => Sound) => NeverBurned
  BY DEF Sound, Presents, NeverBurned
<1> QED
  BY <1>1, <1>2, <1>3, Invariant, PTL DEF Spec
=============================================================================
