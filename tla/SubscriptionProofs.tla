------------------------- MODULE SubscriptionProofs -------------------------
(***************************************************************************)
(* Subscriptions, from the charges of a bank to the rows of its owner.     *)
(*                                                                         *)
(* SubscriptionUpsert for any banks, detections and labels, any number of  *)
(* rows, jobs and edits: types, the unique index, a row for each detection *)
(* of a job that nothing came between, no twins, no change without news,   *)
(* and a row for whoever loses the race for a label.                       *)
(*                                                                         *)
(* SubscriptionPipeline for any transactions a bank may report and any     *)
(* answers of the model: siblings told apart, which is what the upsert     *)
(* expects of its detections, steady charges never lost, forecasts in      *)
(* time, and the same candidates in whatever order the transactions come.  *)
(* The two share no state; this module extends both for it to be one       *)
(* account of why a charge becomes one subscription.                       *)
(***************************************************************************)
EXTENDS SubscriptionUpsert, SubscriptionPipeline, WellFoundedInduction, FiniteSetTheorems,
        SequenceTheorems, TLAPS

---------------------------------------------------------------------------
(* Types *)

Plans == UNION {ToSet(ds) : ds \in Detections}

Labels == UserLabels \cup {d.label : d \in Plans} \cup {Suffixed(d) : d \in Plans}

Key == {d.key : d \in Plans} \cup {NoKey}

Price == Nat \ {0}

RowOf(source) ==
    [label : Labels, key : Key, amount : Price, source : source, bank : Bank \cup {NoBank},
     active : BOOLEAN]

SubRow == RowOf({"plaid", "manual"})

PlaidRow == RowOf({"plaid"})

\* Rows of a session: a sync reads and writes detected subscriptions only.
Objects == UNION {[D -> PlaidRow] : D \in SUBSET Id}

JobState ==
    [pc : {"idle", "find", "resolve", "write"}, detected : Detections \cup {<<>>},
     got : Seq(Id \cup {0}), loaded : Objects, pending : Objects, target : Id \cup {0},
     label : Labels \cup {<<>>}, retry : BOOLEAN, alone : BOOLEAN]

TypeOK ==
    /\ row \in [Id -> SubRow \cup {NoRow}]
    /\ job \in [Bank -> JobState]
    /\ rounds \in Nat /\ edits \in Nat

---------------------------------------------------------------------------
(* The inductive invariant.  It is about a job j and the committed rows, so  *)
(* that a step is followed for either of them.                               *)

\* What the transaction of j sees (Sees).
Seen(rows, j, id) == IF id \in DOMAIN j.pending THEN j.pending[id] ELSE rows[id]

\* The detection at hand (Sub).
Hand(j) == j.detected[Len(j.got) + 1]

\* The detected subscriptions that no detection took yet.
Others(rows, j) == {y \in Id \ ToSet(j.got) : Seen(rows, j, y).source = "plaid"}

\* A job writes only rows that it loaded and a detection took; a detected
\* subscription stays one.
Orderly(rows, j) ==
    /\ j.pc = "idle" => j = NoJob
    /\ Len(j.got) <= Len(j.detected)
    /\ j.pc \in {"resolve", "write"} => Len(j.got) < Len(j.detected)
    /\ j.target # 0 => j.target \in DOMAIN j.loaded
    /\ j.pc = "write" => j.label \in Labels
    /\ \A x \in DOMAIN j.loaded : Seen(rows, j, x) \in PlaidRow
    /\ DOMAIN j.pending \subseteq ToSet(j.got)
    /\ ToSet(j.got) \subseteq DOMAIN j.loaded \cup {0}
    /\ j.pc = "write" /\ j.target = 0 => \A x \in DOMAIN j.pending : j.pending[x].label # j.label

\* The unique index, as the transaction sees the table ...
Distinct(rows, j) ==
    \A x, y \in Id :
        /\ x # y
        /\ Seen(rows, j, x).source # "none"
        /\ Seen(rows, j, x).source = Seen(rows, j, y).source
        => Seen(rows, j, x).label # Seen(rows, j, y).label

\* ... and between two of them.
Apart(j, k) ==
    \A x \in DOMAIN j.pending, y \in DOMAIN k.pending :
        x # y /\ j.pending[x].label # k.pending[y].label

\* A sync writes no manual subscription.
Owns(rows, j) == \A x \in DOMAIN j.pending : rows[x].source # "manual"

\* With nothing next to it, the session's objects are what the table holds.
Fresh(rows, j) == \A x \in DOMAIN j.loaded : j.loaded[x] = Seen(rows, j, x)

\* The row found is one that no detection took, of the exact amount if there is
\* such a row of the merchant; none is found only if none has the label or the
\* exact amount.
Aimed(rows, j) ==
    j.pc \in {"resolve", "write"} =>
        /\ j.target # 0 => j.target \in Others(rows, j)
        /\ \A y \in Others(rows, j) :
              /\ j.target = 0 => Seen(rows, j, y).label # Hand(j).label
              /\ Seen(rows, j, y).key = Hand(j).key /\ Seen(rows, j, y).amount = Hand(j).amount =>
                    j.target # 0 /\ Seen(rows, j, j.target).amount = Hand(j).amount

\* A label that the rest of the job leaves where it is.
Fixed(rows, j, label) ==
    \E x \in Id : /\ Seen(rows, j, x).source # "none"
                  /\ Seen(rows, j, x).label = label
                  /\ x \in ToSet(j.got) \/ Seen(rows, j, x).source = "manual"

Carries(r, d) == r.source = "plaid" /\ r.key = d.key /\ r.amount = d.amount

\* What became of a detection: a row has it, the user's removal was respected,
\* or its labels were taken.
Settled(rows, j, d, g) ==
    \/ g # 0 /\ Carries(Seen(rows, j, g), d)
    \/ /\ g # 0 /\ rows[g].source = "plaid" /\ ~rows[g].active
       /\ rows[g].key = d.key \/ rows[g].label = d.label
    \/ /\ Fixed(rows, j, d.label)
       /\ \/ Fixed(rows, j, Suffixed(d))
          \/ \E x \in Id : rows[x].source = "plaid" /\ rows[x].label = Suffixed(d)

Outcomes(rows, j) == \A i \in DOMAIN j.got : Settled(rows, j, j.detected[i], j.got[i])

Lone(rows, j) == Fresh(rows, j) /\ Aimed(rows, j) /\ Outcomes(rows, j)

IInv ==
    /\ TypeOK
    /\ \A b \in Bank : Orderly(row, job[b]) /\ Owns(row, job[b]) /\ Distinct(row, job[b])
    /\ Distinct(row, NoJob)
    /\ \A b, c \in Bank : b # c => Apart(job[b], job[c])
    /\ \A b, c \in Bank : job[b].alone /\ b # c => job[c].pc = "idle"
    /\ \A b \in Bank : job[b].alone => Lone(row, job[b])

---------------------------------------------------------------------------
(* Twins, and what is known already *)

\* The detections of one merchant have different amounts
\* (detect_subscription_candidates; SiblingsDistinctCorrect, below), unless the model
\* gives a merchant without a name, which has no key, the name that is another's
\* key (_merchant_key).
DistinctPlans ==
    \A ds \in Detections : \A i, j \in DOMAIN ds :
        i # j /\ ds[i].key = ds[j].key => ds[i].amount # ds[j].amount

Taker(rows, j) ==
    \A i \in DOMAIN j.got :
        j.got[i] # 0 => \/ Carries(Seen(rows, j, j.got[i]), j.detected[i])
                        \/ ~Seen(rows, j, j.got[i]).active

TwinFree(rows, j) ==
    \A x, y \in Id :
        /\ x # y
        /\ Seen(rows, j, x).source = "plaid" /\ Seen(rows, j, y).source = "plaid"
        /\ Seen(rows, j, x).key = Seen(rows, j, y).key
        /\ Seen(rows, j, x).amount = Seen(rows, j, y).amount
        /\ Seen(rows, j, x).active /\ Seen(rows, j, y).active
        => rows[x].source = "plaid" /\ rows[y].source = "plaid" /\ rows[x].amount = rows[y].amount

Twins == \A b \in Bank : job[b].alone => Taker(row, job[b]) /\ TwinFree(row, job[b])

Known(rows, j) ==
    /\ \A d \in ToSet(j.detected) : \E id \in Id : Carries(rows[id], d)
    /\ \A x, y \in Id :
          rows[x].source = "plaid" /\ rows[y].source = "plaid" /\ x # y => rows[x].amount # rows[y].amount

Renamed(rows, b, r, s, d) ==
    /\ s = [r EXCEPT !.label = s.label, !.bank = IF @ = NoBank THEN b ELSE @]
    /\ r.label = d.label => s.label = d.label
                            \/ \E m \in Id : rows[m].source = "manual" /\ rows[m].label = d.label

Repeats(rows, b, j) ==
    /\ \A i \in DOMAIN j.got : j.got[i] # 0 /\ Carries(rows[j.got[i]], j.detected[i])
    /\ \A id \in Id : \/ Seen(rows, j, id) = rows[id]
                      \/ \E i \in DOMAIN j.got :
                             j.got[i] = id /\ Renamed(rows, b, rows[id], Seen(rows, j, id), j.detected[i])
    /\ j.pc \in {"resolve", "write"} => j.target # 0 /\ Carries(rows[j.target], Hand(j))
    /\ j.pc = "write" /\ rows[j.target].label = Hand(j).label =>
           \/ j.label = Hand(j).label
           \/ \E m \in Id : rows[m].source = "manual" /\ rows[m].label = Hand(j).label

Repeating == \A b \in Bank : job[b].alone /\ Known(row, job[b]) => Repeats(row, b, job[b])

---------------------------------------------------------------------------
(* Operators *)

\* What a sequence holds after one more element.
LEMMA ToSetAppend ==
    ASSUME NEW S, NEW s \in Seq(S), NEW e \in S
    PROVE  ToSet(Append(s, e)) = ToSet(s) \cup {e}
<1> DEFINE t == Append(s, e)
<1>1. /\ t \in Seq(S) /\ Len(t) = Len(s) + 1 /\ t[Len(s) + 1] = e
      /\ \A i \in 1..Len(s) : t[i] = s[i]
      /\ DOMAIN s = 1..Len(s) /\ DOMAIN t = 1..Len(t) /\ Len(s) \in Nat
  OBVIOUS
<1>2. ASSUME NEW x \in ToSet(t) PROVE x \in ToSet(s) \cup {e}
  <2>1. PICK i \in DOMAIN t : x = t[i]
    BY <1>2 DEF ToSet
  <2>2. i \in 1..Len(s) \/ i = Len(s) + 1
    BY <1>1, <2>1
  <2> HIDE DEF t
  <2> QED
    BY <1>1, <2>1, <2>2 DEF ToSet
<1>3. ASSUME NEW x \in ToSet(s) \cup {e} PROVE x \in ToSet(t)
  <2>1. CASE x = e
    <3>1. Len(s) + 1 \in DOMAIN t
      BY <1>1
    <3> HIDE DEF t
    <3> QED
      BY <1>1, <2>1, <3>1 DEF ToSet
  <2>2. CASE x \in ToSet(s)
    <3>1. PICK i \in DOMAIN s : x = s[i]
      BY <2>2 DEF ToSet
    <3>2. i \in DOMAIN t /\ t[i] = x
      BY <1>1, <3>1
    <3> HIDE DEF t
    <3> QED
      BY <3>2 DEF ToSet
  <2> QED
    BY <1>3, <2>1, <2>2
<1> QED
  BY <1>2, <1>3

\* The objects of a session: a row for each of some ids.
LEMMA ObjectsAre ==
    ASSUME NEW f \in Objects
    PROVE  /\ DOMAIN f \subseteq Id
           /\ f = [x \in DOMAIN f |-> f[x]]
           /\ \A x \in DOMAIN f : f[x] \in PlaidRow
<1>1. PICK D \in SUBSET Id : f \in [D -> PlaidRow]
  BY DEF Objects
<1> QED
  BY <1>1

LEMMA AreObjects ==
    ASSUME NEW D \in SUBSET Id, NEW f \in [D -> PlaidRow]
    PROVE  f \in Objects
  BY DEF Objects

LEMMA PutObject ==
    ASSUME NEW f \in Objects, NEW id \in Id, NEW r \in PlaidRow
    PROVE  /\ Put(f, id, r) \in Objects
           /\ DOMAIN Put(f, id, r) = DOMAIN f \cup {id}
           /\ Put(f, id, r)[id] = r
           /\ \A x \in DOMAIN f : x # id => Put(f, id, r)[x] = f[x]
<1>1. Put(f, id, r) \in [DOMAIN f \cup {id} -> PlaidRow]
  BY ObjectsAre DEF Put
<1>2. DOMAIN f \cup {id} \in SUBSET Id
  BY ObjectsAre
<1>3. Put(f, id, r) \in Objects
  BY <1>1, <1>2, AreObjects
<1> QED
  BY <1>3 DEF Put

\* The amount of a detection is closest to itself, and only to itself.
LEMMA SelfClosest ==
    ASSUME NEW s \in Price, NEW x \in Price
    PROVE  /\ AsClose(s, x, s) /\ WithinTolerance(s, s)
           /\ AsClose(x, s, s) => x = s
<1>1. /\ Far(s, s) = 0 /\ Far(x, s) \in Nat /\ Top(s, s) = s /\ Top(x, s) \in Nat
      /\ s \in Nat /\ s > 0 /\ x \in Nat
  BY DEF Far, Top, Price
<1>2. \A n \in Nat : 0 * n = 0 /\ 0 <= n * s /\ 40 * n >= 0
  BY <1>1
<1>3. AsClose(s, x, s) /\ WithinTolerance(s, s)
  BY <1>1, <1>2 DEF AsClose, WithinTolerance
<1>4. ASSUME AsClose(x, s, s) PROVE x = s
  <2>1. Far(x, s) * s <= 0 * Top(x, s)
    BY <1>1, <1>4 DEF AsClose
  <2>2. Far(x, s) * s <= 0
    BY <1>1, <1>2, <2>1
  <2>3. \A n \in Nat : n >= 1 => n * s >= s
    BY <1>1
  <2>4. Far(x, s) = 0
    BY <1>1, <2>2, <2>3
  <2> QED
    BY <1>1, <2>4 DEF Far
<1> QED
  BY <1>3, <1>4

\* Every detection has a label, a key and an amount of the types.
LEMMA DetectionTypes ==
    ASSUME NEW ds \in Detections \cup {<<>>}
    PROVE  /\ Len(ds) \in Nat /\ DOMAIN ds = 1..Len(ds)
           /\ ToSet(ds) = {ds[i] : i \in 1..Len(ds)}
           /\ \A i \in 1..Len(ds) :
                 /\ ds[i].label \in Labels /\ Suffixed(ds[i]) \in Labels
                 /\ ds[i].key \in Key /\ ds[i].key # NoKey
                 /\ ds[i].amount \in Price
<1>1. CASE ds = <<>>
  BY <1>1 DEF ToSet
<1>2. CASE ds \in Detections
  <2>1. /\ ds \in Seq(ToSet(ds))
        /\ \A d \in ToSet(ds) : d \in Plans /\ d.key # NoKey /\ d.amount \in Nat \ {0}
    BY <1>2, UpsertAssumption DEF Plans
  <2>2. Len(ds) \in Nat /\ DOMAIN ds = 1..Len(ds)
    BY <2>1
  <2>3. ToSet(ds) = {ds[i] : i \in 1..Len(ds)}
    BY <2>2 DEF ToSet
  <2> QED
    BY <2>1, <2>2, <2>3 DEF Labels, Key, Price
<1> QED
  BY <1>1, <1>2

LEMMA NoJobState == NoJob \in JobState
<1> DEFINE none == <<>>
<1>1. none \in Objects
  <2>1. none \in [{} -> PlaidRow]
    OBVIOUS
  <2> QED
    BY <2>1, AreObjects
<1>2. <<>> \in Seq(Id \cup {0})
  OBVIOUS
<1> QED
  BY <1>1, <1>2 DEF NoJob, JobState

---------------------------------------------------------------------------
(* What a transaction sees, and what a detection matches *)

LEMMA RowTypes ==
    /\ \A r \in SubRow : /\ r.label \in Labels /\ r.key \in Key /\ r.amount \in Price
                         /\ r.source \in {"plaid", "manual"} /\ r.active \in BOOLEAN
                         /\ r.bank \in Bank \cup {NoBank}
    /\ \A r \in SubRow : r.source = "plaid" <=> r \in PlaidRow
    /\ PlaidRow \subseteq SubRow
    /\ NoRow.source = "none"
    /\ \A r \in SubRow \cup {NoRow} : r.source = "none" <=> r = NoRow
  BY DEF SubRow, PlaidRow, RowOf, NoRow

LEMMA SeenTypes ==
    ASSUME TypeOK, NEW b \in Bank, NEW id \in Id
    PROVE  /\ Sees(b, id) = Seen(row, job[b], id)
           /\ Sees(b, id) \in SubRow \cup {NoRow}
           /\ Sees(b, id).source = "plaid" => Sees(b, id) \in PlaidRow
           /\ row[id].source = "plaid" => row[id] \in PlaidRow
<1>1. job[b] \in JobState /\ row[id] \in SubRow \cup {NoRow}
  BY DEF TypeOK
<1>2. job[b].pending \in Objects
  BY <1>1 DEF JobState
<1>3. \A x \in DOMAIN job[b].pending : job[b].pending[x] \in PlaidRow
  BY <1>2, ObjectsAre
<1>4. Sees(b, id) = Seen(row, job[b], id)
  BY DEF Sees, Seen
<1>5. Sees(b, id) \in SubRow \cup {NoRow}
  BY <1>1, <1>3, RowTypes DEF Sees
<1> QED
  BY <1>1, <1>4, <1>5, RowTypes

LEMMA CandidateTypes ==
    ASSUME TypeOK, NEW b \in Bank, Orderly(row, job[b]), NEW id \in Candidates(b)
    PROVE  /\ id \in Id /\ id \notin ToSet(job[b].got) /\ id # 0
           /\ Sees(b, id) \in PlaidRow /\ Object(b, id) \in PlaidRow
           /\ id \in Others(row, job[b])
<1>1. id \in Id /\ id \notin ToSet(job[b].got) /\ Sees(b, id).source = "plaid"
  BY DEF Candidates
<1>2. Sees(b, id) \in PlaidRow /\ Sees(b, id) = Seen(row, job[b], id)
  BY <1>1, SeenTypes
<1>3. job[b].loaded \in Objects
  BY DEF TypeOK, JobState
<1>4. Object(b, id) \in PlaidRow
  BY <1>2, <1>3, ObjectsAre DEF Object
<1>5. id # 0
  BY <1>1, UpsertAssumption DEF Id
<1> QED
  BY <1>1, <1>2, <1>4, <1>5 DEF Others

LEMMA HandIsSub ==
    ASSUME TypeOK, NEW b \in Bank
    PROVE  /\ Sub(b) = Hand(job[b])
           /\ Len(job[b].got) \in Nat /\ Len(job[b].detected) \in Nat
           /\ DOMAIN job[b].got = 1..Len(job[b].got)
           /\ DOMAIN job[b].detected = 1..Len(job[b].detected)
           /\ More(b) => /\ Sub(b).label \in Labels /\ Suffixed(Sub(b)) \in Labels
                         /\ Sub(b).key \in Key /\ Sub(b).key # NoKey
                         /\ Sub(b).amount \in Price
                         /\ Sub(b) \in ToSet(job[b].detected)
<1> DEFINE ds == job[b].detected
           n == Len(job[b].got)
<1>1. job[b].got \in Seq(Id \cup {0}) /\ ds \in Detections \cup {<<>>}
  BY DEF TypeOK, JobState
<1>2. n \in Nat /\ DOMAIN job[b].got = 1..n
  BY <1>1
<1>3. Len(ds) \in Nat /\ DOMAIN ds = 1..Len(ds)
  BY <1>1, DetectionTypes
<1>4. ASSUME More(b)
      PROVE  /\ Sub(b).label \in Labels /\ Suffixed(Sub(b)) \in Labels
             /\ Sub(b).key \in Key /\ Sub(b).key # NoKey
             /\ Sub(b).amount \in Price
             /\ Sub(b) \in ToSet(job[b].detected)
  <2>1. n + 1 \in 1..Len(ds)
    BY <1>2, <1>3, <1>4 DEF More
  <2>2. Sub(b) = ds[n + 1]
    BY DEF Sub
  <2> HIDE DEF ds, n
  <2>3. ToSet(ds) = {ds[i] : i \in 1..Len(ds)}
    BY <1>1, DetectionTypes
  <2>4. ds[n + 1] \in ToSet(ds)
    BY <2>1, <2>3
  <2>5. /\ ds[n + 1].label \in Labels /\ Suffixed(ds[n + 1]) \in Labels
        /\ ds[n + 1].key \in Key /\ ds[n + 1].key # NoKey
        /\ ds[n + 1].amount \in Price
    BY <1>1, <2>1, DetectionTypes
  <2> QED
    BY <2>2, <2>4, <2>5 DEF ds
<1> QED
  BY <1>2, <1>3, <1>4 DEF Sub, Hand

LEMMA MatchesAre ==
    ASSUME NEW b \in Bank
    PROVE  Matches(b) \subseteq Candidates(b)
  BY DEF Matches

\* A row of the exact amount is matched, or another one of that amount.
LEMMA ExactMatch ==
    ASSUME TypeOK, NEW b \in Bank, Orderly(row, job[b]), More(b),
           NEW y \in Candidates(b), Sees(b, y).amount = Sub(b).amount
    PROVE  /\ Matches(b) # {}
           /\ \A g \in Matches(b) : Sees(b, g).amount = Sub(b).amount
<1> DEFINE s == Sub(b).amount
           amount(id) == Sees(b, id).amount
           best == {id \in Candidates(b) :
                       \A x \in Candidates(b) : AsClose(amount(id), amount(x), s)}
           near == {id \in best : WithinTolerance(amount(id), s)}
<1>1. s \in Price
  BY HandIsSub
<1>2. \A x \in Candidates(b) : amount(x) \in Price
  BY CandidateTypes, RowTypes
<1>3. y \in near
  BY <1>1, <1>2, SelfClosest
<1>4. Matches(b) = near
  BY <1>3 DEF Matches
<1>5. ASSUME NEW g \in near PROVE amount(g) = s
  <2>1. AsClose(amount(g), amount(y), s) /\ amount(g) \in Price /\ amount(y) = s
    BY <1>2
  <2> QED
    BY <1>1, <2>1, SelfClosest
<1> QED
  BY <1>3, <1>4, <1>5

\* So is a row of the label.
LEMMA LabelMatch ==
    ASSUME NEW b \in Bank, NEW y \in Candidates(b), Sees(b, y).label = Sub(b).label
    PROVE  Matches(b) # {}
  BY DEF Matches

\* What is loaded once the row g is found.
Loading(b, g) == Put(job[b].loaded, g, Sees(b, g))

LEMMA LoadingTypes ==
    ASSUME TypeOK, NEW b \in Bank, Orderly(row, job[b]), NEW g \in Candidates(b)
    PROVE  /\ Loading(b, g) \in Objects
           /\ DOMAIN Loading(b, g) = DOMAIN job[b].loaded \cup {g}
           /\ \A x \in DOMAIN Loading(b, g) : x \in Id /\ Seen(row, job[b], x) \in PlaidRow
<1>1. /\ job[b].loaded \in Objects
      /\ \A x \in DOMAIN job[b].loaded : Seen(row, job[b], x) \in PlaidRow
  BY DEF TypeOK, JobState, Orderly
<1>2. DOMAIN job[b].loaded \subseteq Id
  BY <1>1, ObjectsAre
<1>3. g \in Id /\ Sees(b, g) \in PlaidRow /\ Seen(row, job[b], g) \in PlaidRow
  BY CandidateTypes, SeenTypes
<1>4. Loading(b, g) \in Objects /\ DOMAIN Loading(b, g) = DOMAIN job[b].loaded \cup {g}
  BY <1>1, <1>3, PutObject DEF Loading
<1> QED
  BY <1>1, <1>2, <1>3, <1>4

---------------------------------------------------------------------------
(* The steps of a job, by what they make of it *)

\* A row is found, and is active, or was removed by the user; or none is found.
Hits(b, g, k) ==
    /\ job[b].pc = "find" /\ More(b) /\ g \in Matches(b)
    /\ k = [job[b] EXCEPT !.loaded = Loading(b, g), !.target = g, !.pc = "resolve"]

Passes(b, g, k) ==
    /\ job[b].pc = "find" /\ More(b) /\ g \in Matches(b) /\ ~Sees(b, g).active
    /\ k = [job[b] EXCEPT !.loaded = Loading(b, g), !.got = Append(@, g), !.retry = FALSE]

Misses(b, k) ==
    /\ job[b].pc = "find" /\ More(b) /\ Matches(b) = {}
    /\ k = [job[b] EXCEPT !.target = 0, !.pc = "resolve"]

\* A label is taken; or there is none, and the detection is skipped.
Takes(b, label, k) ==
    /\ job[b].pc = "resolve"
    /\ \/ ~Taken(b, Sub(b).label, job[b].target) /\ label = Sub(b).label
       \/ /\ Taken(b, Sub(b).label, job[b].target)
          /\ ~Taken(b, Suffixed(Sub(b)), job[b].target) /\ label = Suffixed(Sub(b))
       \/ /\ Taken(b, Sub(b).label, job[b].target) /\ job[b].target # 0
          /\ label = Object(b, job[b].target).label
    /\ k = [job[b] EXCEPT !.label = label, !.pc = "write"]

Skips(b, k) ==
    /\ job[b].pc = "resolve" /\ job[b].target = 0
    /\ Taken(b, Sub(b).label, 0) /\ Taken(b, Suffixed(Sub(b)), 0)
    /\ k = [job[b] EXCEPT !.got = Append(@, 0), !.pc = "find"]

\* A row is inserted, or not, because its label was lost; a row is updated.
NewRow(b) == Subscription(job[b].label, Sub(b).key, Sub(b).amount, "plaid", b)

Inserts(b, g, k) ==
    /\ job[b].pc = "write" /\ job[b].target = 0
    /\ WaitsFor(b) = {} /\ ~LabelLost(b)
    /\ g \in Free
    /\ k = [job[b] EXCEPT !.pending = Put(@, g, NewRow(b)), !.loaded = Put(@, g, NewRow(b)),
                          !.got = Append(@, g), !.pc = "find", !.retry = FALSE]

Retries(b, k) ==
    /\ job[b].pc = "write" /\ job[b].target = 0
    /\ k = [job[b] EXCEPT !.pc = "find", !.retry = TRUE]

Written(b) ==
    LET old == Object(b, job[b].target)
    IN  [c \in DOMAIN old |-> IF Updated(b)[c] # old[c] THEN Updated(b)[c]
                              ELSE Sees(b, job[b].target)[c]]

Updates(b, g, k) ==
    /\ job[b].pc = "write" /\ g = job[b].target /\ g # 0
    /\ WaitsFor(b) = {} /\ ~LabelLost(b)
    /\ k = [job[b] EXCEPT !.pending = IF Updated(b) = Object(b, g) THEN @
                                      ELSE Put(@, g, Written(b)),
                          !.loaded = Put(@, g, Updated(b)),
                          !.got = Append(@, g), !.pc = "find", !.retry = FALSE]

Moved(b, k) ==
    \/ \E g \in Matches(b) : Hits(b, g, k) \/ Passes(b, g, k)
    \/ Misses(b, k)
    \/ \E label : Takes(b, label, k)
    \/ Skips(b, k)
    \/ \E g \in Free : Inserts(b, g, k)
    \/ Retries(b, k)
    \/ Updates(b, job[b].target, k)
    \/ k = NoJob

LEMMA JobCases ==
    ASSUME TypeOK, NEW b \in Bank, JobStep(b), ~Commit(b)
    PROVE  /\ UNCHANGED <<row, rounds, edits>>
           /\ job' = [job EXCEPT ![b] = job'[b]]
           /\ Moved(b, job'[b])
<1>1. \A j : Moves(b, j) => /\ UNCHANGED <<row, rounds, edits>>
                            /\ job' = [job EXCEPT ![b] = job'[b]]
                            /\ job'[b] = j
  BY DEF Moves, TypeOK
<1>2. CASE Find(b)
  <2>1. CASE \E g \in Matches(b) :
                 IF Sees(b, g).active
                 THEN Moves(b, [job[b] EXCEPT !.loaded = Loading(b, g), !.target = g,
                                              !.pc = "resolve"])
                 ELSE Moves(b, [job[b] EXCEPT !.loaded = Loading(b, g), !.got = Append(@, g),
                                              !.retry = FALSE])
    <3>1. job[b].pc = "find" /\ More(b)
      BY <1>2 DEF Find
    <3> QED
      BY <1>1, <2>1, <3>1 DEF Moved, Hits, Passes
  <2>2. CASE /\ Matches(b) = {}
             /\ Moves(b, [job[b] EXCEPT !.target = 0, !.pc = "resolve"])
    <3>1. job[b].pc = "find" /\ More(b)
      BY <1>2 DEF Find
    <3> QED
      BY <1>1, <2>2, <3>1 DEF Moved, Misses
  <2> QED
    BY <1>2, <2>1, <2>2 DEF Find, Loading
<1>3. CASE Resolve(b)
  <2> DEFINE id == job[b].target
             takes(label) == Moves(b, [job[b] EXCEPT !.label = label, !.pc = "write"])
  <2>1. job[b].pc = "resolve"
    BY <1>3 DEF Resolve
  <2>2. \/ ~Taken(b, Sub(b).label, id) /\ takes(Sub(b).label)
        \/ /\ Taken(b, Sub(b).label, id) /\ ~Taken(b, Suffixed(Sub(b)), id)
           /\ takes(Suffixed(Sub(b)))
        \/ /\ Taken(b, Sub(b).label, id) /\ id # 0 /\ takes(Object(b, id).label)
        \/ /\ Taken(b, Sub(b).label, 0) /\ Taken(b, Suffixed(Sub(b)), 0) /\ id = 0
           /\ Moves(b, [job[b] EXCEPT !.got = Append(@, 0), !.pc = "find"])
    BY <1>3 DEF Resolve
  <2>3. \A label : takes(label) =>
            /\ UNCHANGED <<row, rounds, edits>> /\ job' = [job EXCEPT ![b] = job'[b]]
            /\ job'[b] = [job[b] EXCEPT !.label = label, !.pc = "write"]
    BY <1>1
  <2>4. Moves(b, [job[b] EXCEPT !.got = Append(@, 0), !.pc = "find"]) =>
            /\ UNCHANGED <<row, rounds, edits>> /\ job' = [job EXCEPT ![b] = job'[b]]
            /\ job'[b] = [job[b] EXCEPT !.got = Append(@, 0), !.pc = "find"]
    BY <1>1
  <2> HIDE DEF takes
  <2>5. CASE \E label : Takes(b, label, job'[b])
    BY <2>2, <2>3, <2>4, <2>5 DEF Moved
  <2>6. CASE Skips(b, job'[b])
    BY <2>2, <2>3, <2>4, <2>6 DEF Moved
  <2> QED
    BY <2>1, <2>2, <2>3, <2>4, <2>5, <2>6 DEF Takes, Skips
<1>4. CASE InsertRow(b)
  <2>1. PICK g \in Free :
           Moves(b, [job[b] EXCEPT !.pending = Put(@, g, NewRow(b)),
                                   !.loaded = Put(@, g, NewRow(b)),
                                   !.got = Append(@, g), !.pc = "find", !.retry = FALSE])
    BY <1>4 DEF InsertRow, NewRow
  <2>2. /\ job[b].pc = "write" /\ job[b].target = 0
        /\ WaitsFor(b) = {} /\ ~LabelLost(b)
    BY <1>4 DEF InsertRow
  <2>3. Inserts(b, g, job'[b])
    BY <1>1, <2>1, <2>2 DEF Inserts
  <2> QED
    BY <1>1, <2>1, <2>3 DEF Moved
<1>5. CASE InsertLost(b)
  BY <1>1, <1>5 DEF InsertLost, Moved, Retries
<1>6. CASE UpdateRow(b)
  <2> DEFINE g == job[b].target
  <2>1. Moves(b, [job[b] EXCEPT !.pending = IF Updated(b) = Object(b, g) THEN @
                                            ELSE Put(@, g, Written(b)),
                                !.loaded = Put(@, g, Updated(b)),
                                !.got = Append(@, g), !.pc = "find", !.retry = FALSE])
    BY <1>6 DEF UpdateRow, Written
  <2>2. /\ job[b].pc = "write" /\ g # 0
        /\ WaitsFor(b) = {} /\ ~LabelLost(b)
    BY <1>6 DEF UpdateRow
  <2>3. Updates(b, g, job'[b])
    BY <1>1, <2>1, <2>2 DEF Updates
  <2> QED
    BY <1>1, <2>1, <2>3 DEF Moved
<1>7. CASE RelabelFails(b) \/ Raise(b) \/ DeadlockVictim(b)
  BY <1>1, <1>7 DEF RelabelFails, Raise, DeadlockVictim, Moved
<1> QED
  BY <1>2, <1>3, <1>4, <1>5, <1>6, <1>7 DEF JobStep

---------------------------------------------------------------------------
(* Types, and what a job writes *)

\* What a transaction sees after one more write, or without one.
LEMMA SeenAfter ==
    ASSUME NEW rows, NEW j \in JobState, NEW k, NEW id \in Id
    PROVE  /\ k.pending = j.pending => Seen(rows, k, id) = Seen(rows, j, id)
           /\ \A g \in Id, r \in PlaidRow :
                 k.pending = Put(j.pending, g, r) =>
                     Seen(rows, k, id) = IF id = g THEN r ELSE Seen(rows, j, id)
<1>1. j.pending \in Objects
  BY DEF JobState
<1>2. ASSUME NEW g \in Id, NEW r \in PlaidRow, k.pending = Put(j.pending, g, r)
      PROVE  Seen(rows, k, id) = IF id = g THEN r ELSE Seen(rows, j, id)
  <2> DEFINE p == Put(j.pending, g, r)
  <2>1. /\ DOMAIN p = DOMAIN j.pending \cup {g}
        /\ p[g] = r
        /\ \A x \in DOMAIN j.pending : x # g => p[x] = j.pending[x]
    BY <1>1, PutObject
  <2>2. k.pending = p
    BY <1>2
  <2> HIDE DEF p
  <2> QED
    BY <2>1, <2>2 DEF Seen
<1> QED
  BY <1>2 DEF Seen

LEMMA NewRowIs ==
    ASSUME TypeOK, NEW b \in Bank, Orderly(row, job[b]), job[b].pc = "write"
    PROVE  /\ NewRow(b) \in PlaidRow
           /\ NewRow(b).label = job[b].label
           /\ NewRow(b).key = Sub(b).key /\ NewRow(b).amount = Sub(b).amount
           /\ NewRow(b).source = "plaid"
<1>1. More(b) /\ job[b].label \in Labels
  BY DEF Orderly, More
<1>2. Sub(b).key \in Key /\ Sub(b).amount \in Price
  BY <1>1, HandIsSub
<1>3. /\ NewRow(b).label = job[b].label
      /\ NewRow(b).key = Sub(b).key /\ NewRow(b).amount = Sub(b).amount
      /\ NewRow(b).source = "plaid"
  BY DEF NewRow, Subscription
<1>4. NewRow(b) \in PlaidRow
  BY <1>1, <1>2 DEF NewRow, Subscription, PlaidRow, RowOf
<1> QED
  BY <1>3, <1>4

\* The columns that an update writes are those it changes.
LEMMA WrittenIs ==
    ASSUME TypeOK, NEW b \in Bank, Orderly(row, job[b]), job[b].pc = "write",
           NEW g, g = job[b].target, g # 0
    PROVE  /\ g \in Id /\ g \in DOMAIN job[b].loaded
           /\ Object(b, g) \in PlaidRow /\ Sees(b, g) \in PlaidRow
           /\ Updated(b) \in PlaidRow
           /\ Updated(b) = [Object(b, g) EXCEPT
                               !.label = job[b].label, !.key = Sub(b).key,
                               !.amount = Sub(b).amount,
                               !.bank = IF @ = NoBank THEN b ELSE @]
           /\ Written(b) \in PlaidRow
           /\ ~Relabels(b) => Written(b).label = Sees(b, g).label
           /\ Relabels(b) => Written(b).label = job[b].label
           /\ Object(b, g) = Sees(b, g) => Written(b) = Updated(b)
<1> DEFINE old == Object(b, g)
           new == Updated(b)
           sees == Sees(b, g)
           written == [c \in DOMAIN old |-> IF new[c] # old[c] THEN new[c] ELSE sees[c]]
<1>1. More(b) /\ job[b].label \in Labels /\ g \in DOMAIN job[b].loaded
  BY DEF Orderly, More
<1>2. job[b].loaded \in Objects
  BY DEF TypeOK, JobState
<1>3. g \in Id /\ old \in PlaidRow /\ old = job[b].loaded[g]
  BY <1>1, <1>2, ObjectsAre DEF Object
<1>4. sees \in PlaidRow
  BY <1>1, <1>3, SeenTypes DEF Orderly
<1>5. Sub(b).key \in Key /\ Sub(b).amount \in Price
  BY <1>1, HandIsSub
<1>6. new = [old EXCEPT !.label = job[b].label, !.key = Sub(b).key,
                        !.amount = Sub(b).amount,
                        !.bank = IF @ = NoBank THEN b ELSE @]
  BY DEF Updated
<1> HIDE DEF old, new, sees
<1>7. new \in PlaidRow
  BY <1>1, <1>3, <1>5, <1>6 DEF PlaidRow, RowOf
<1>8. written \in PlaidRow
  BY <1>3, <1>4, <1>7 DEF PlaidRow, RowOf
<1>9. written.label = IF new.label # old.label THEN new.label ELSE sees.label
  BY <1>3 DEF PlaidRow, RowOf
<1>10. new.label = job[b].label
  BY <1>3, <1>6 DEF PlaidRow, RowOf
<1>11. old = sees => written = new
  BY <1>3, <1>4, <1>7 DEF PlaidRow, RowOf
<1>12. Written(b) = written
  BY DEF Written, old, new, sees
<1>13. Relabels(b) <=> job[b].label # old.label
  BY DEF Relabels, old
<1> QED
  BY <1>1, <1>3, <1>4, <1>6, <1>7, <1>8, <1>9, <1>10, <1>11, <1>12, <1>13 DEF old, new, sees

\* The first free id holds nothing, in any transaction.
LEMMA FreeIs ==
    ASSUME TypeOK, NEW b \in Bank, NEW g \in Free
    PROVE  /\ g \in Id /\ g # 0 /\ row[g] = NoRow
           /\ Sees(b, g) = NoRow /\ Seen(row, job[b], g) = NoRow
           /\ \A c \in Bank : g \notin DOMAIN job[c].pending
<1>1. g \in Id /\ row[g] = NoRow /\ Locked(g) = {}
  BY DEF Free
<1>2. \A c \in Bank : g \notin DOMAIN job[c].pending
  BY <1>1 DEF Locked
<1>3. g # 0
  BY <1>1, UpsertAssumption DEF Id
<1> QED
  BY <1>1, <1>2, <1>3 DEF Sees, Seen

\* One more detection is done, and its row is among those loaded; the writes are Put.
LEMMA DoneOrderly ==
    ASSUME NEW rows, NEW j \in JobState, Orderly(rows, j), NEW k, NEW g \in Id \cup {0},
           k.got = Append(j.got, g), k.detected = j.detected, k.pc = "find",
           Len(j.got) < Len(j.detected), k.target = j.target,
           DOMAIN j.loaded \subseteq DOMAIN k.loaded, g # 0 => g \in DOMAIN k.loaded,
           \A x \in DOMAIN k.loaded : Seen(rows, k, x) \in PlaidRow,
           DOMAIN k.pending \subseteq DOMAIN j.pending \cup {g}
    PROVE  Orderly(rows, k)
<1>1. j.got \in Seq(Id \cup {0}) /\ j.detected \in Detections \cup {<<>>}
  BY DEF JobState
<1>2. Len(k.got) = Len(j.got) + 1 /\ Len(j.got) \in Nat
  BY <1>1
<1>3. Len(j.detected) \in Nat
  BY <1>1, DetectionTypes
<1>4. ToSet(k.got) = ToSet(j.got) \cup {g}
  BY <1>1, ToSetAppend
<1>5. Len(k.got) <= Len(k.detected)
  BY <1>2, <1>3
<1> QED
  BY <1>4, <1>5 DEF Orderly

LEMMA MovedOrderly ==
    ASSUME TypeOK, NEW b \in Bank, Orderly(row, job[b]), NEW k, Moved(b, k)
    PROVE  k \in JobState /\ Orderly(row, k)
<1> DEFINE j == job[b]
<1>1. j \in JobState
  BY DEF TypeOK
<1>2. /\ j.got \in Seq(Id \cup {0}) /\ j.loaded \in Objects /\ j.pending \in Objects
      /\ j.target \in Id \cup {0}
  BY <1>1 DEF JobState
<1>3. DOMAIN j.loaded \subseteq Id /\ DOMAIN j.pending \subseteq Id
  BY <1>2, ObjectsAre
<1>4. \A g \in Matches(b) :
          /\ g \in Id /\ Loading(b, g) \in Objects
          /\ DOMAIN Loading(b, g) = DOMAIN j.loaded \cup {g}
          /\ \A x \in DOMAIN Loading(b, g) : x \in Id /\ Seen(row, j, x) \in PlaidRow
  <2>1. \A g \in Matches(b) : g \in Candidates(b) /\ g \in Id
    BY MatchesAre DEF Candidates
  <2> QED
    BY <2>1, LoadingTypes
<1>6. \A g \in Id \cup {0} : Append(j.got, g) \in Seq(Id \cup {0})
  BY <1>2
<1>7. More(b) <=> Len(j.got) < Len(j.detected)
  BY DEF More
<1>8. ASSUME NEW g \in Matches(b), Hits(b, g, k)
      PROVE  k \in JobState /\ Orderly(row, k)
  <2>1. /\ k = [j EXCEPT !.loaded = Loading(b, g), !.target = g, !.pc = "resolve"]
        /\ j.pc = "find" /\ More(b)
    BY <1>8 DEF Hits
  <2>2. k \in JobState
    BY <1>1, <1>4, <2>1 DEF JobState
  <2>3. /\ k.pc = "resolve" /\ k.got = j.got /\ k.detected = j.detected /\ k.target = g
        /\ k.loaded = Loading(b, g) /\ k.pending = j.pending
    BY <1>1, <2>1 DEF JobState
  <2>4. \A x \in DOMAIN k.loaded : Seen(row, k, x) \in PlaidRow
    <3>1. \A x : Seen(row, k, x) = Seen(row, j, x)
      BY <2>3 DEF Seen
    <3> QED
      BY <1>4, <2>3, <3>1
  <2> HIDE DEF j
  <2> QED
    BY <1>4, <1>7, <2>1, <2>2, <2>3, <2>4 DEF Orderly, j
<1>9. ASSUME Misses(b, k)
      PROVE  k \in JobState /\ Orderly(row, k)
  <2>1. k = [j EXCEPT !.target = 0, !.pc = "resolve"] /\ j.pc = "find" /\ More(b)
    BY <1>9 DEF Misses
  <2>2. k \in JobState
    BY <1>1, <2>1 DEF JobState
  <2>3. /\ k.pc = "resolve" /\ k.got = j.got /\ k.detected = j.detected /\ k.target = 0
        /\ k.loaded = j.loaded /\ k.pending = j.pending
    BY <1>1, <2>1 DEF JobState
  <2>4. \A x \in DOMAIN k.loaded : Seen(row, k, x) \in PlaidRow
    BY <2>3 DEF Orderly, Seen
  <2> HIDE DEF j
  <2> QED
    BY <1>7, <2>1, <2>2, <2>3, <2>4 DEF Orderly, j
<1>10. ASSUME NEW g \in Matches(b), Passes(b, g, k)
       PROVE  k \in JobState /\ Orderly(row, k)
  <2>1. /\ k = [j EXCEPT !.loaded = Loading(b, g), !.got = Append(@, g), !.retry = FALSE]
        /\ j.pc = "find" /\ More(b)
    BY <1>10 DEF Passes
  <2>2. /\ g \in Id \cup {0} /\ g \in DOMAIN Loading(b, g)
        /\ DOMAIN j.loaded \subseteq DOMAIN Loading(b, g)
    BY <1>4
  <2>3. k \in JobState
    BY <1>1, <1>4, <1>6, <2>1, <2>2 DEF JobState
  <2>4. /\ k.pc = "find" /\ k.got = Append(j.got, g) /\ k.detected = j.detected
        /\ k.loaded = Loading(b, g) /\ k.pending = j.pending /\ k.target = j.target
    BY <1>1, <2>1 DEF JobState
  <2>5. \A x \in DOMAIN k.loaded : Seen(row, k, x) \in PlaidRow
    <3>1. \A x : Seen(row, k, x) = Seen(row, j, x)
      BY <2>4 DEF Seen
    <3> QED
      BY <1>4, <2>4, <3>1
  <2>6. Orderly(row, k)
    <3> HIDE DEF j
    <3> QED
      BY <1>1, <1>7, <2>1, <2>2, <2>4, <2>5, DoneOrderly DEF j
  <2> QED
    BY <2>3, <2>6
<1>11. ASSUME NEW label, Takes(b, label, k)
       PROVE  k \in JobState /\ Orderly(row, k)
  <2>1. k = [j EXCEPT !.label = label, !.pc = "write"] /\ j.pc = "resolve"
    BY <1>11 DEF Takes
  <2>2. More(b)
    BY <1>7, <2>1 DEF Orderly
  <2>3. Sub(b).label \in Labels /\ Suffixed(Sub(b)) \in Labels
    BY <2>2, HandIsSub
  <2>4. j.target # 0 => Object(b, j.target).label \in Labels
    <3>1. j.target # 0 => j.target \in DOMAIN j.loaded
      BY DEF Orderly
    <3> QED
      BY <1>2, <3>1, ObjectsAre, RowTypes DEF Object
  <2>5. label \in Labels
    BY <1>11, <2>3, <2>4 DEF Takes
  <2>6. k \in JobState
    BY <1>1, <2>1, <2>5 DEF JobState
  <2>7. /\ k.pc = "write" /\ k.got = j.got /\ k.detected = j.detected /\ k.target = j.target
        /\ k.loaded = j.loaded /\ k.pending = j.pending /\ k.label = label
    BY <1>1, <2>1 DEF JobState
  <2>8. \A x \in DOMAIN k.loaded : Seen(row, k, x) \in PlaidRow
    BY <1>1, <1>3, <2>7, SeenAfter DEF Orderly
  <2>9. ASSUME k.target = 0, NEW x \in DOMAIN j.pending
        PROVE  j.pending[x].label # label
    <3>1. ~Taken(b, label, 0)
      BY <1>11, <2>7, <2>9 DEF Takes
    <3>2. x \in Id /\ x # 0 /\ Sees(b, x) = j.pending[x] /\ j.pending[x] \in PlaidRow
      BY <1>2, <1>3, <2>9, ObjectsAre, UpsertAssumption DEF Sees, Id
    <3>3. j.pending[x].source # "none"
      BY <3>2 DEF PlaidRow, RowOf
    <3> QED
      BY <3>1, <3>2, <3>3 DEF Taken
  <2> HIDE DEF j
  <2> QED
    BY <1>7, <2>1, <2>2, <2>5, <2>6, <2>7, <2>8, <2>9 DEF Orderly, j
<1>12. ASSUME Skips(b, k)
       PROVE  k \in JobState /\ Orderly(row, k)
  <2>1. k = [j EXCEPT !.got = Append(@, 0), !.pc = "find"] /\ j.pc = "resolve"
    BY <1>12 DEF Skips
  <2>2. k \in JobState
    BY <1>1, <1>6, <2>1 DEF JobState
  <2>3. /\ k.pc = "find" /\ k.got = Append(j.got, 0) /\ k.detected = j.detected
        /\ k.loaded = j.loaded /\ k.pending = j.pending /\ k.target = j.target
    BY <1>1, <2>1 DEF JobState
  <2>4. \A x \in DOMAIN k.loaded : Seen(row, k, x) \in PlaidRow
    BY <1>1, <1>3, <2>3, SeenAfter DEF Orderly
  <2>5. Len(j.got) < Len(j.detected)
    BY <2>1 DEF Orderly
  <2>6. Orderly(row, k)
    <3> HIDE DEF j
    <3> QED
      BY <1>1, <2>3, <2>4, <2>5, DoneOrderly DEF j
  <2> QED
    BY <2>2, <2>6
<1>13. ASSUME NEW g \in Free, Inserts(b, g, k)
       PROVE  k \in JobState /\ Orderly(row, k)
  <2> DEFINE r == NewRow(b)
  <2>1. /\ k = [j EXCEPT !.pending = Put(@, g, r), !.loaded = Put(@, g, r),
                         !.got = Append(@, g), !.pc = "find", !.retry = FALSE]
        /\ j.pc = "write"
    BY <1>13 DEF Inserts
  <2>2. g \in Id /\ r \in PlaidRow
    BY <2>1, FreeIs, NewRowIs
  <2> HIDE DEF r
  <2>3. /\ Put(j.pending, g, r) \in Objects /\ DOMAIN Put(j.pending, g, r) = DOMAIN j.pending \cup {g}
        /\ Put(j.loaded, g, r) \in Objects /\ DOMAIN Put(j.loaded, g, r) = DOMAIN j.loaded \cup {g}
    BY <1>2, <2>2, PutObject
  <2>4. k \in JobState
    BY <1>1, <1>6, <2>1, <2>2, <2>3 DEF JobState
  <2>5. /\ k.pc = "find" /\ k.got = Append(j.got, g) /\ k.detected = j.detected
        /\ k.loaded = Put(j.loaded, g, r) /\ k.pending = Put(j.pending, g, r)
        /\ k.target = j.target
    BY <1>1, <2>1 DEF JobState
  <2>6. ASSUME NEW x \in DOMAIN k.loaded
        PROVE  Seen(row, k, x) \in PlaidRow
    <3>1. x \in Id /\ (x = g \/ x \in DOMAIN j.loaded)
      BY <1>3, <2>2, <2>3, <2>5
    <3>2. Seen(row, k, x) = IF x = g THEN r ELSE Seen(row, j, x)
      <4> HIDE DEF j
      <4> QED
        BY <1>1, <2>2, <2>5, <3>1, SeenAfter
    <3> QED
      BY <2>2, <3>1, <3>2 DEF Orderly
  <2>7. Len(j.got) < Len(j.detected)
    BY <2>1 DEF Orderly
  <2>8. Orderly(row, k)
    <3> HIDE DEF j
    <3> QED
      BY <1>1, <2>2, <2>3, <2>5, <2>6, <2>7, DoneOrderly DEF j
  <2> QED
    BY <2>4, <2>8
<1>14. ASSUME Retries(b, k)
       PROVE  k \in JobState /\ Orderly(row, k)
  <2>1. k = [j EXCEPT !.pc = "find", !.retry = TRUE]
    BY <1>14 DEF Retries
  <2>2. k \in JobState
    BY <1>1, <2>1 DEF JobState
  <2>3. /\ k.pc = "find" /\ k.got = j.got /\ k.detected = j.detected /\ k.target = j.target
        /\ k.loaded = j.loaded /\ k.pending = j.pending
    BY <1>1, <2>1 DEF JobState
  <2>4. \A x \in DOMAIN k.loaded : Seen(row, k, x) \in PlaidRow
    BY <1>1, <1>3, <2>3, SeenAfter DEF Orderly
  <2> HIDE DEF j
  <2> QED
    BY <2>2, <2>3, <2>4 DEF Orderly, j
<1>15. ASSUME Updates(b, job[b].target, k)
       PROVE  k \in JobState /\ Orderly(row, k)
  <2> DEFINE g == j.target
             r == Written(b)
             new == Updated(b)
  <2>1. /\ k = [j EXCEPT !.pending = IF new = Object(b, g) THEN @ ELSE Put(@, g, r),
                         !.loaded = Put(@, g, new),
                         !.got = Append(@, g), !.pc = "find", !.retry = FALSE]
        /\ j.pc = "write" /\ g # 0
    BY <1>15 DEF Updates
  <2>2. g \in Id /\ g \in DOMAIN j.loaded /\ r \in PlaidRow /\ new \in PlaidRow
    BY <2>1, WrittenIs
  <2> HIDE DEF r, new
  <2>3. /\ Put(j.pending, g, r) \in Objects /\ DOMAIN Put(j.pending, g, r) = DOMAIN j.pending \cup {g}
        /\ Put(j.loaded, g, new) \in Objects /\ DOMAIN Put(j.loaded, g, new) = DOMAIN j.loaded
    <3> HIDE DEF g
    <3>1. /\ Put(j.pending, g, r) \in Objects
          /\ DOMAIN Put(j.pending, g, r) = DOMAIN j.pending \cup {g}
      BY <1>2, <2>2, PutObject
    <3>2. /\ Put(j.loaded, g, new) \in Objects
          /\ DOMAIN Put(j.loaded, g, new) = DOMAIN j.loaded \cup {g}
      BY <1>2, <2>2, PutObject
    <3> QED
      BY <2>2, <3>1, <3>2
  <2>4. k \in JobState
    BY <1>1, <1>6, <2>1, <2>2, <2>3 DEF JobState
  <2>5. /\ k.pc = "find" /\ k.got = Append(j.got, g) /\ k.detected = j.detected
        /\ k.loaded = Put(j.loaded, g, new)
        /\ k.pending = j.pending \/ k.pending = Put(j.pending, g, r)
        /\ k.target = j.target
    BY <1>1, <2>1 DEF JobState
  <2>6. \A x \in DOMAIN k.loaded : Seen(row, k, x) \in PlaidRow
    BY <1>1, <1>3, <2>2, <2>3, <2>5, SeenAfter DEF Orderly
  <2>7. Len(j.got) < Len(j.detected)
    BY <2>1 DEF Orderly
  <2>8. DOMAIN k.pending \subseteq DOMAIN j.pending \cup {g}
    BY <2>3, <2>5
  <2>9. Orderly(row, k)
    <3> HIDE DEF j, g
    <3> QED
      BY <1>1, <2>2, <2>3, <2>5, <2>6, <2>7, <2>8, DoneOrderly DEF j, g
  <2> QED
    BY <2>4, <2>9
<1>16. ASSUME k = NoJob
       PROVE  k \in JobState /\ Orderly(row, k)
  <2>1. /\ k.pc = "idle" /\ k.got = <<>> /\ k.detected = <<>> /\ k.target = 0
        /\ k.loaded = <<>> /\ k.pending = <<>>
    BY <1>16 DEF NoJob
  <2>2. /\ ToSet(k.got) = {} /\ Len(k.got) = 0 /\ Len(k.detected) = 0
        /\ DOMAIN k.loaded = {} /\ DOMAIN k.pending = {}
    BY <2>1 DEF ToSet
  <2> QED
    BY <1>16, <2>1, <2>2, NoJobState DEF Orderly
<1> QED
  BY <1>8, <1>9, <1>10, <1>11, <1>12, <1>13, <1>14, <1>15, <1>16 DEF Moved

---------------------------------------------------------------------------
(* The unique index *)

\* A write keeps the label, or no other row that anyone can see has the new one.
Allowed(b, g, r) ==
    /\ \A c \in Bank \ {b} : g \notin DOMAIN job[c].pending
    /\ Seen(row, job[b], g).source # "manual"
    /\ \/ Seen(row, job[b], g).source = "plaid" /\ r.label = Seen(row, job[b], g).label
       \/ /\ \A x \in Id \ {g} : Seen(row, job[b], x).source = "plaid" =>
                                     Seen(row, job[b], x).label # r.label
          /\ \A c \in Bank \ {b} : \A y \in DOMAIN job[c].pending :
                 job[c].pending[y].label # r.label

LEMMA PendingPlaid ==
    ASSUME TypeOK, NEW c \in Bank, NEW y \in DOMAIN job[c].pending
    PROVE  /\ y \in Id /\ y # 0 /\ job[c].pending[y] \in PlaidRow
           /\ job[c].pending[y].source = "plaid"
           /\ Seen(row, job[c], y) = job[c].pending[y]
<1>1. job[c].pending \in Objects
  BY DEF TypeOK, JobState
<1>2. y \in Id /\ job[c].pending[y] \in PlaidRow
  BY <1>1, ObjectsAre
<1>3. y # 0
  BY <1>2, UpsertAssumption DEF Id
<1> QED
  BY <1>2, <1>3 DEF PlaidRow, RowOf, Seen

\* The label of a write that waits for nobody and is not lost.
LEMMA LabelFree ==
    ASSUME TypeOK, NEW b \in Bank, job[b].pc = "write", Relabels(b),
           WaitsFor(b) = {}, ~LabelLost(b)
    PROVE  /\ \A x \in Id \ {job[b].target} :
                 Seen(row, job[b], x).source = "plaid" => Seen(row, job[b], x).label # job[b].label
           /\ \A c \in Bank \ {b} : \A y \in DOMAIN job[c].pending :
                 job[c].pending[y].label # job[b].label
<1>1. \A x \in Id \ {job[b].target} :
          Seen(row, job[b], x).source = "plaid" => Seen(row, job[b], x).label # job[b].label
  BY SeenTypes DEF LabelLost, Violates
<1>2. Holders(job[b].label, "plaid") \subseteq {b}
  BY DEF WaitsFor
<1>3. ASSUME NEW c \in Bank \ {b}, NEW y \in DOMAIN job[c].pending
      PROVE  job[c].pending[y].label # job[b].label
  <2>1. job[c].pending[y].source = "plaid"
    BY PendingPlaid
  <2>2. c \notin Holders(job[b].label, "plaid")
    BY <1>2
  <2> QED
    BY <2>1, <2>2 DEF Holders
<1> QED
  BY <1>1, <1>3

LEMMA WritesAllowed ==
    ASSUME TypeOK, NEW b \in Bank, Orderly(row, job[b]), NEW k, Moved(b, k)
    PROVE  \/ k.pending = job[b].pending
           \/ k = NoJob
           \/ \E g \in Id, r \in PlaidRow :
                 k.pending = Put(job[b].pending, g, r) /\ Allowed(b, g, r)
<1>1. job[b] \in JobState
  BY DEF TypeOK
<1>2. ASSUME NEW g \in Matches(b), Hits(b, g, k) \/ Passes(b, g, k)
      PROVE  k.pending = job[b].pending
  BY <1>1, <1>2 DEF Hits, Passes, JobState
<1>3. ASSUME Misses(b, k) \/ Skips(b, k) \/ Retries(b, k)
      PROVE  k.pending = job[b].pending
  BY <1>1, <1>3 DEF Misses, Skips, Retries, JobState
<1>4. ASSUME NEW label, Takes(b, label, k)
      PROVE  k.pending = job[b].pending
  BY <1>1, <1>4 DEF Takes, JobState
<1>5. ASSUME NEW g \in Free, Inserts(b, g, k)
      PROVE  /\ g \in Id /\ NewRow(b) \in PlaidRow
             /\ k.pending = Put(job[b].pending, g, NewRow(b)) /\ Allowed(b, g, NewRow(b))
  <2>1. /\ job[b].pc = "write" /\ job[b].target = 0
        /\ WaitsFor(b) = {} /\ ~LabelLost(b)
    BY <1>5 DEF Inserts
  <2>2. k.pending = Put(job[b].pending, g, NewRow(b))
    BY <1>1, <1>5 DEF Inserts, JobState
  <2>3. NewRow(b) \in PlaidRow /\ NewRow(b).label = job[b].label
    BY <2>1, NewRowIs
  <2>4. Relabels(b)
    BY <2>1 DEF Relabels
  <2>5. 0 \notin Id
    BY UpsertAssumption DEF Id
  <2> QED
    BY <2>1, <2>2, <2>3, <2>4, <2>5, LabelFree, FreeIs, RowTypes DEF Allowed
<1>6. ASSUME Updates(b, job[b].target, k), k.pending # job[b].pending
      PROVE  /\ job[b].target \in Id /\ Written(b) \in PlaidRow
             /\ k.pending = Put(job[b].pending, job[b].target, Written(b))
             /\ Allowed(b, job[b].target, Written(b))
  <2> DEFINE g == job[b].target
  <2>1. /\ job[b].pc = "write" /\ g # 0
        /\ WaitsFor(b) = {} /\ ~LabelLost(b)
    BY <1>6 DEF Updates
  <2>2. k.pending = Put(job[b].pending, g, Written(b))
    BY <1>1, <1>6 DEF Updates, JobState
  <2>3. /\ g \in Id /\ Written(b) \in PlaidRow /\ Sees(b, g) \in PlaidRow
        /\ ~Relabels(b) => Written(b).label = Sees(b, g).label
        /\ Relabels(b) => Written(b).label = job[b].label
    BY <2>1, WrittenIs
  <2>4. \A c \in Bank \ {b} : g \notin DOMAIN job[c].pending
    BY <2>1 DEF WaitsFor, Locked
  <2>5. Sees(b, g) = Seen(row, job[b], g) /\ Sees(b, g).source = "plaid"
    BY <2>3, SeenTypes DEF PlaidRow, RowOf
  <2>6. CASE Relabels(b)
    BY <2>1, <2>2, <2>3, <2>4, <2>5, <2>6, LabelFree DEF Allowed
  <2>7. CASE ~Relabels(b)
    BY <2>2, <2>3, <2>4, <2>5, <2>7 DEF Allowed
  <2> QED
    BY <2>6, <2>7
<1> QED
  BY <1>2, <1>3, <1>4, <1>5, <1>6 DEF Moved

LEMMA SeenIdle ==
    ASSUME NEW rows, NEW id
    PROVE  Seen(rows, NoJob, id) = rows[id]
  BY DEF Seen, NoJob

LEMMA MovedDistinct ==
    ASSUME TypeOK, NEW b \in Bank, Orderly(row, job[b]), Distinct(row, job[b]),
           Distinct(row, NoJob), NEW k, Moved(b, k)
    PROVE  Distinct(row, k)
<1>1. job[b] \in JobState
  BY DEF TypeOK
<1>2. CASE k.pending = job[b].pending
  BY <1>2 DEF Distinct, Seen
<1>3. ASSUME NEW g \in Id, NEW r \in PlaidRow,
             k.pending = Put(job[b].pending, g, r), Allowed(b, g, r)
      PROVE  Distinct(row, k)
  <2>1. \A id \in Id : Seen(row, k, id) = IF id = g THEN r ELSE Seen(row, job[b], id)
    BY <1>1, <1>3, SeenAfter
  <2>2. r.source = "plaid"
    BY DEF PlaidRow, RowOf
  <2>3. ASSUME NEW y \in Id, y # g, Seen(row, job[b], y).source = "plaid"
        PROVE  Seen(row, job[b], y).label # r.label
    BY <1>3, <2>3 DEF Allowed, Distinct
  <2> QED
    BY <2>1, <2>2, <2>3 DEF Distinct
<1> QED
  BY <1>2, <1>3, WritesAllowed

LEMMA MovedOwns ==
    ASSUME TypeOK, NEW b \in Bank, Orderly(row, job[b]), Owns(row, job[b]), NEW k, Moved(b, k)
    PROVE  Owns(row, k)
<1>1. CASE k.pending = job[b].pending
  BY <1>1 DEF Owns
<1>2. CASE k = NoJob
  BY <1>2 DEF Owns, NoJob
<1>3. ASSUME NEW g \in Id, NEW r \in PlaidRow,
             k.pending = Put(job[b].pending, g, r), Allowed(b, g, r)
      PROVE  Owns(row, k)
  <2>1. job[b].pending \in Objects
    BY DEF TypeOK, JobState
  <2>2. DOMAIN k.pending = DOMAIN job[b].pending \cup {g}
    BY <1>3, <2>1 DEF Put
  <2>3. row[g].source # "manual"
    BY <1>3 DEF Allowed, Owns, Seen
  <2> QED
    BY <2>2, <2>3 DEF Owns
<1> QED
  BY <1>1, <1>2, <1>3, WritesAllowed

LEMMA MovedApart ==
    ASSUME TypeOK, NEW b \in Bank, Orderly(row, job[b]), NEW k, Moved(b, k),
           NEW c \in Bank \ {b}, Apart(job[b], job[c]), Distinct(row, job[c])
    PROVE  Apart(k, job[c]) /\ Apart(job[c], k)
<1>1. job[b] \in JobState
  BY DEF TypeOK
<1>2. CASE k.pending = job[b].pending
  BY <1>2 DEF Apart
<1>3. CASE k = NoJob
  BY <1>3 DEF Apart, NoJob
<1>4. ASSUME NEW g \in Id, NEW r \in PlaidRow,
             k.pending = Put(job[b].pending, g, r), Allowed(b, g, r)
      PROVE  Apart(k, job[c]) /\ Apart(job[c], k)
  <2> DEFINE p == Put(job[b].pending, g, r)
  <2>1. job[b].pending \in Objects
    BY <1>1 DEF JobState
  <2>2. /\ DOMAIN p = DOMAIN job[b].pending \cup {g} /\ p[g] = r
        /\ \A x \in DOMAIN job[b].pending : x # g => p[x] = job[b].pending[x]
    BY <2>1, PutObject, ZenonT(30)
  <2> HIDE DEF p
  <2>3. ASSUME NEW y \in DOMAIN job[c].pending
        PROVE  y # g /\ job[c].pending[y].label # r.label
    <3>1. y # g /\ g \notin DOMAIN job[c].pending
      BY <1>4, <2>3 DEF Allowed
    <3>2. CASE Seen(row, job[b], g).source = "plaid" /\ r.label = Seen(row, job[b], g).label
      <4>1. CASE g \in DOMAIN job[b].pending
        BY <2>3, <3>1, <3>2, <4>1 DEF Apart, Seen
      <4>2. CASE g \notin DOMAIN job[b].pending
        <5>1. Seen(row, job[b], g) = row[g] /\ Seen(row, job[c], g) = row[g]
          BY <3>1, <4>2 DEF Seen
        <5>2. /\ Seen(row, job[c], y) = job[c].pending[y] /\ y \in Id
              /\ job[c].pending[y].source = "plaid"
          BY <2>3, PendingPlaid
        <5> QED
          BY <3>1, <3>2, <5>1, <5>2 DEF Distinct
      <4> QED
        BY <4>1, <4>2
    <3> QED
      BY <1>4, <2>3, <3>1, <3>2 DEF Allowed
  <2>4. \A x \in DOMAIN p, y \in DOMAIN job[c].pending :
            x # y /\ p[x].label # job[c].pending[y].label
    BY <2>2, <2>3 DEF Apart
  <2>5. k.pending = p
    BY <1>4 DEF p
  <2> QED
    BY <2>4, <2>5 DEF Apart
<1> QED
  BY <1>2, <1>3, <1>4, WritesAllowed

---------------------------------------------------------------------------
(* A job that nothing came between *)

LEMMA FreshObject ==
    ASSUME TypeOK, NEW b \in Bank, Fresh(row, job[b]), NEW id \in Id
    PROVE  Object(b, id) = Seen(row, job[b], id) /\ Sees(b, id) = Seen(row, job[b], id)
  BY SeenTypes DEF Object, Fresh

LEMMA OthersMatch ==
    ASSUME TypeOK, NEW b \in Bank, NEW y \in Others(row, job[b]),
           \/ Seen(row, job[b], y).key = Sub(b).key
           \/ Seen(row, job[b], y).label = Sub(b).label
    PROVE  y \in Candidates(b)
  BY SeenTypes DEF Others, Candidates

\* What no detection took is as it was.
LEMMA OthersUnwritten ==
    ASSUME NEW rows, NEW j, Orderly(rows, j), NEW y \in Id, y \notin ToSet(j.got)
    PROVE  Seen(rows, j, y) = rows[y]
  BY DEF Orderly, Seen

LEMMA MovedFresh ==
    ASSUME TypeOK, NEW b \in Bank, Orderly(row, job[b]), Fresh(row, job[b]), NEW k, Moved(b, k)
    PROVE  Fresh(row, k)
<1> DEFINE j == job[b]
<1>1. /\ j \in JobState /\ j.loaded \in Objects /\ j.pending \in Objects
      /\ DOMAIN j.loaded \subseteq Id
  <2>1. j \in JobState
    BY DEF TypeOK
  <2>2. j.loaded \in Objects /\ j.pending \in Objects
    BY <2>1 DEF JobState
  <2> QED
    BY <2>1, <2>2, ObjectsAre
<1>2. \A g \in Matches(b) : g \in Id /\ Seen(row, j, g) \in PlaidRow /\ Sees(b, g) = Seen(row, j, g)
  <2>1. \A g \in Matches(b) : g \in Candidates(b)
    BY MatchesAre
  <2> QED
    BY <2>1, CandidateTypes, SeenTypes
<1>4. ASSUME k.loaded = j.loaded, k.pending = j.pending
      PROVE  Fresh(row, k)
  BY <1>4 DEF Fresh, Seen
<1>5. ASSUME NEW g \in Id, NEW r \in PlaidRow, k.loaded = Put(j.loaded, g, r),
             \/ k.pending = Put(j.pending, g, r)
             \/ k.pending = j.pending /\ r = Seen(row, j, g)
      PROVE  Fresh(row, k)
  <2>1. ASSUME NEW x \in DOMAIN k.loaded PROVE k.loaded[x] = Seen(row, k, x)
    <3> DEFINE l == Put(j.loaded, g, r)
    <3>1. /\ DOMAIN l = DOMAIN j.loaded \cup {g} /\ l[g] = r
          /\ \A z \in DOMAIN j.loaded : z # g => l[z] = j.loaded[z]
      BY <1>1, PutObject, ZenonT(30)
    <3>2. k.loaded = l
      BY <1>5
    <3> HIDE DEF l
    <3>3. x \in Id
      BY <1>1, <2>1, <3>1, <3>2
    <3>4. Seen(row, k, x) = IF x = g THEN r ELSE Seen(row, j, x)
      <4>1. CASE k.pending = Put(j.pending, g, r)
        BY <1>1, <3>3, <4>1, SeenAfter
      <4>2. CASE k.pending = j.pending /\ r = Seen(row, j, g)
        BY <4>2 DEF Seen
      <4> QED
        BY <1>5, <4>1, <4>2
    <3> QED
      BY <2>1, <3>1, <3>2, <3>4 DEF Fresh
  <2> QED
    BY <2>1 DEF Fresh
<1>6. ASSUME NEW g \in Matches(b), Hits(b, g, k) \/ Passes(b, g, k)
      PROVE  Fresh(row, k)
  <2>1. k.loaded = Put(j.loaded, g, Seen(row, j, g)) /\ k.pending = j.pending
    BY <1>1, <1>2, <1>6, ZenonT(30) DEF Hits, Passes, Loading, JobState
  <2> QED
    BY <1>2, <1>5, <2>1
<1>7. ASSUME Misses(b, k)
      PROVE  Fresh(row, k)
  <2>1. k.loaded = j.loaded /\ k.pending = j.pending
    BY <1>1, <1>7 DEF Misses, JobState
  <2> QED
    BY <1>4, <2>1
<1>8. ASSUME Skips(b, k) \/ Retries(b, k) \/ \E label : Takes(b, label, k)
      PROVE  Fresh(row, k)
  <2>1. k.loaded = j.loaded /\ k.pending = j.pending
    BY <1>1, <1>8 DEF Skips, Retries, Takes, JobState
  <2> QED
    BY <1>4, <2>1
<1>9. ASSUME NEW g \in Free, Inserts(b, g, k)
      PROVE  Fresh(row, k)
  <2>1. k.loaded = Put(j.loaded, g, NewRow(b)) /\ k.pending = Put(j.pending, g, NewRow(b))
    BY <1>1, <1>9 DEF Inserts, JobState
  <2>2. g \in Id /\ NewRow(b) \in PlaidRow
    BY <1>9, FreeIs, NewRowIs DEF Inserts
  <2> QED
    BY <1>5, <2>1, <2>2
<1>10. ASSUME Updates(b, job[b].target, k)
       PROVE  Fresh(row, k)
  <2> DEFINE g == j.target
             new == Updated(b)
  <2>1. j.pc = "write" /\ g # 0
    BY <1>10 DEF Updates
  <2>2. g \in Id /\ new \in PlaidRow /\ (Object(b, g) = Sees(b, g) => Written(b) = new)
    BY <2>1, WrittenIs
  <2>3. Object(b, g) = Sees(b, g) /\ Object(b, g) = Seen(row, j, g)
    BY <2>2, FreshObject
  <2>4. Written(b) = new
    BY <2>2, <2>3
  <2>5. /\ k.loaded = Put(j.loaded, g, new)
        /\ k.pending = IF new = Object(b, g) THEN j.pending ELSE Put(j.pending, g, Written(b))
    BY <1>1, <1>10 DEF Updates, JobState
  <2> HIDE DEF g, new, j
  <2> QED
    BY <1>5, <2>2, <2>3, <2>4, <2>5
<1>11. ASSUME k = NoJob
       PROVE  Fresh(row, k)
  BY <1>11 DEF Fresh, NoJob
<1> QED
  BY <1>6, <1>7, <1>8, <1>9, <1>10, <1>11 DEF Moved

LEMMA MovedAimed ==
    ASSUME TypeOK, NEW b \in Bank, Orderly(row, job[b]), Fresh(row, job[b]),
           Aimed(row, job[b]), NEW k, Moved(b, k)
    PROVE  Aimed(row, k)
<1> DEFINE j == job[b]
<1>1. j \in JobState
  BY DEF TypeOK
<1>2. \A y \in Others(row, j) : y \in Id /\ y # 0
  BY UpsertAssumption DEF Others, Id
<1>3. ASSUME k.got = j.got, k.pending = j.pending, k.detected = j.detected
      PROVE  /\ Others(row, k) = Others(row, j) /\ Hand(k) = Hand(j)
             /\ \A y : Seen(row, k, y) = Seen(row, j, y)
  BY <1>3 DEF Others, Hand, Seen
<1>4. ASSUME NEW g \in Matches(b), Hits(b, g, k)
      PROVE  Aimed(row, k)
  <2>1. /\ k.got = j.got /\ k.pending = j.pending /\ k.detected = j.detected
        /\ k.target = g /\ More(b)
    BY <1>1, <1>4 DEF Hits, JobState
  <2>2. g \in Others(row, j) /\ g # 0 /\ g \in Id
    BY <1>2, <1>4, MatchesAre, CandidateTypes
  <2>3. ASSUME NEW y \in Others(row, j), Seen(row, j, y).key = Hand(j).key,
               Seen(row, j, y).amount = Hand(j).amount
        PROVE  Seen(row, j, g).amount = Hand(j).amount
    <3>1. y \in Candidates(b) /\ Sub(b) = Hand(j)
      BY <2>3, OthersMatch, HandIsSub
    <3>2. Sees(b, y) = Seen(row, j, y) /\ Sees(b, g) = Seen(row, j, g)
      BY <1>2, <2>2, <2>3, FreshObject
    <3> QED
      BY <1>4, <2>1, <2>3, <3>1, <3>2, ExactMatch
  <2> QED
    BY <1>3, <2>1, <2>2, <2>3 DEF Aimed
<1>5. ASSUME Misses(b, k)
      PROVE  Aimed(row, k)
  <2>1. /\ k.got = j.got /\ k.pending = j.pending /\ k.detected = j.detected
        /\ k.target = 0 /\ More(b) /\ Matches(b) = {}
    BY <1>1, <1>5 DEF Misses, JobState
  <2>2. ASSUME NEW y \in Others(row, j)
        PROVE  /\ Seen(row, j, y).label # Hand(j).label
               /\ ~(Seen(row, j, y).key = Hand(j).key /\ Seen(row, j, y).amount = Hand(j).amount)
    <3>1. Sub(b) = Hand(j) /\ Sees(b, y) = Seen(row, j, y)
      BY <1>2, <2>2, FreshObject, HandIsSub
    <3> QED
      BY <2>1, <2>2, <3>1, OthersMatch, ExactMatch, LabelMatch
  <2> QED
    BY <1>3, <2>1, <2>2 DEF Aimed
<1>6. ASSUME NEW label, Takes(b, label, k)
      PROVE  Aimed(row, k)
  <2>1. /\ k.got = j.got /\ k.pending = j.pending /\ k.detected = j.detected
        /\ k.target = j.target /\ j.pc = "resolve"
    BY <1>1, <1>6 DEF Takes, JobState
  <2> QED
    BY <1>3, <2>1 DEF Aimed
<1>7. ASSUME \/ \E g \in Matches(b) : Passes(b, g, k)
             \/ Skips(b, k) \/ Retries(b, k) \/ k = NoJob
             \/ \E g \in Free : Inserts(b, g, k)
             \/ Updates(b, job[b].target, k)
      PROVE  Aimed(row, k)
  <2>1. CASE \E g \in Matches(b) : Passes(b, g, k)
    BY <1>1, <2>1 DEF Passes, JobState, Aimed
  <2>2. CASE Skips(b, k)
    BY <1>1, <2>2 DEF Skips, JobState, Aimed
  <2>5. CASE Retries(b, k)
    BY <1>1, <2>5 DEF Retries, JobState, Aimed
  <2>6. CASE k = NoJob
    BY <2>6 DEF NoJob, Aimed
  <2>3. CASE \E g \in Free : Inserts(b, g, k)
    BY <1>1, <2>3 DEF Inserts, JobState, Aimed
  <2>4. CASE Updates(b, job[b].target, k)
    BY <1>1, <2>4 DEF Updates, JobState, Aimed
  <2> QED
    BY <1>7, <2>1, <2>2, <2>3, <2>4, <2>5, <2>6
<1> QED
  BY <1>4, <1>5, <1>6, <1>7 DEF Moved

\* What became of a detection stays, whatever becomes of a later one.
LEMMA OutcomesStay ==
    ASSUME NEW rows, NEW j \in JobState, Outcomes(rows, j), NEW k,
           k.detected = j.detected, NEW g \in Id \cup {0},
           k.got = j.got \/ k.got = Append(j.got, g),
           \A x \in Id : x # g => Seen(rows, k, x) = Seen(rows, j, x),
           \/ g = 0
           \/ Seen(rows, k, g) = Seen(rows, j, g)
           \/ g \notin ToSet(j.got) /\ Seen(rows, j, g).source # "manual"
    PROVE  \A i \in DOMAIN j.got : Settled(rows, k, k.detected[i], k.got[i])
<1>1. j.got \in Seq(Id \cup {0}) /\ Len(j.got) \in Nat
  BY DEF JobState
<1>2. SUFFICES ASSUME NEW i \in DOMAIN j.got
               PROVE  Settled(rows, k, k.detected[i], k.got[i])
  OBVIOUS
<1> DEFINE d == j.detected[i]
           h == j.got[i]
<1>3. h \in ToSet(j.got) /\ h \in Id \cup {0}
  BY <1>1 DEF ToSet
<1>4. k.got[i] = h /\ k.detected[i] = d
  BY <1>1
<1>5. ToSet(j.got) \subseteq ToSet(k.got)
  <2>1. ToSet(Append(j.got, g)) = ToSet(j.got) \cup {g}
    BY <1>1, ToSetAppend
  <2> QED
    BY <2>1
<1>6. h # 0 => Seen(rows, k, h) = Seen(rows, j, h)
  BY <1>3
<1>7. ASSUME NEW label, Fixed(rows, j, label)
      PROVE  Fixed(rows, k, label)
  <2>1. PICK x \in Id : /\ Seen(rows, j, x).source # "none"
                        /\ Seen(rows, j, x).label = label
                        /\ x \in ToSet(j.got) \/ Seen(rows, j, x).source = "manual"
    BY <1>7 DEF Fixed
  <2>2. x # 0
    BY UpsertAssumption DEF Id
  <2>3. x = g => Seen(rows, k, g) = Seen(rows, j, g)
    BY <2>1, <2>2
  <2>4. Seen(rows, k, x) = Seen(rows, j, x)
    BY <2>3
  <2> QED
    BY <1>5, <2>1, <2>4 DEF Fixed
<1>8. Settled(rows, j, d, h)
  BY DEF Outcomes
<1> HIDE DEF d, h
<1>9. Settled(rows, k, d, h)
  BY <1>6, <1>7, <1>8 DEF Settled
<1> QED
  BY <1>4, <1>9

\* A label that is taken for a detection without a row stays so, unless it is
\* its second choice and the row that had it when the job began.
LEMMA TakenFixed ==
    ASSUME TypeOK, NEW b \in Bank, Orderly(row, job[b]), NEW label, Taken(b, label, 0)
    PROVE  \/ Fixed(row, job[b], label)
           \/ \E x \in Others(row, job[b]) : /\ Seen(row, job[b], x).label = label
                                             /\ row[x].source = "plaid" /\ row[x].label = label
<1>1. PICK x \in Id : Sees(b, x).source # "none" /\ Sees(b, x).label = label
  BY DEF Taken
<1>2. /\ Sees(b, x) = Seen(row, job[b], x)
      /\ Sees(b, x).source = "plaid" \/ Sees(b, x).source = "manual"
  BY <1>1, SeenTypes, RowTypes
<1>3. CASE x \in ToSet(job[b].got) \/ Sees(b, x).source = "manual"
  BY <1>1, <1>2, <1>3 DEF Fixed
<1>4. CASE x \notin ToSet(job[b].got) /\ Sees(b, x).source = "plaid"
  <2>1. x \in Others(row, job[b]) /\ Seen(row, job[b], x) = row[x]
    BY <1>2, <1>4, OthersUnwritten DEF Others
  <2> QED
    BY <1>1, <1>2, <1>4, <2>1
<1> QED
  BY <1>2, <1>3, <1>4

\* What the transaction sees after an insert, and after an update.
LEMMA InsertsIs ==
    ASSUME TypeOK, NEW b \in Bank, Orderly(row, job[b]), NEW g \in Free, NEW k, Inserts(b, g, k)
    PROVE  /\ k.got = Append(job[b].got, g) /\ k.detected = job[b].detected
           /\ k.pc = "find" /\ job[b].pc = "write" /\ job[b].target = 0
           /\ g \in Id /\ g # 0 /\ g \notin ToSet(job[b].got) /\ Seen(row, job[b], g) = NoRow
           /\ Carries(NewRow(b), Hand(job[b]))
           /\ \A x \in Id : Seen(row, k, x) = IF x = g THEN NewRow(b) ELSE Seen(row, job[b], x)
<1> DEFINE j == job[b]
<1>1. j \in JobState /\ Sub(b) = Hand(j)
  BY HandIsSub DEF TypeOK
<1>2. /\ k.got = Append(j.got, g) /\ k.detected = j.detected /\ k.pc = "find"
      /\ k.pending = Put(j.pending, g, NewRow(b)) /\ j.pc = "write" /\ j.target = 0
  BY <1>1 DEF Inserts, JobState
<1>3. /\ g \in Id /\ g # 0 /\ Seen(row, j, g) = NoRow
      /\ NewRow(b) \in PlaidRow /\ Carries(NewRow(b), Hand(j))
  BY <1>1, <1>2, FreeIs, NewRowIs DEF Carries
<1>4. \A x \in Id : Seen(row, k, x) = IF x = g THEN NewRow(b) ELSE Seen(row, j, x)
  BY <1>1, <1>2, <1>3, SeenAfter
<1>5. g \notin ToSet(j.got)
  <2>1. g \in DOMAIN j.loaded => Seen(row, j, g) \in PlaidRow
    BY DEF Orderly
  <2>2. NoRow \notin PlaidRow
    BY RowTypes
  <2> QED
    BY <1>3, <2>1, <2>2 DEF Orderly
<1> QED
  BY <1>2, <1>3, <1>4, <1>5

LEMMA UpdatesIs ==
    ASSUME TypeOK, NEW b \in Bank, Orderly(row, job[b]), Fresh(row, job[b]), Aimed(row, job[b]),
           NEW k, Updates(b, job[b].target, k)
    PROVE  /\ k.got = Append(job[b].got, job[b].target) /\ k.detected = job[b].detected
           /\ k.pc = "find" /\ job[b].pc = "write"
           /\ job[b].target \in Id /\ job[b].target # 0
           /\ job[b].target \in Others(row, job[b])
           /\ Seen(row, job[b], job[b].target) \in PlaidRow
           /\ Carries(Updated(b), Hand(job[b]))
           /\ \A x \in Id : Seen(row, k, x) = IF x = job[b].target THEN Updated(b)
                                            ELSE Seen(row, job[b], x)
<1> DEFINE j == job[b]
           g == j.target
           new == Updated(b)
<1>1. j \in JobState /\ Sub(b) = Hand(j)
  BY HandIsSub DEF TypeOK
<1>2. /\ k.got = Append(j.got, g) /\ k.detected = j.detected /\ k.pc = "find"
      /\ k.pending = IF new = Object(b, g) THEN j.pending ELSE Put(j.pending, g, Written(b))
      /\ j.pc = "write" /\ g # 0
  BY <1>1 DEF Updates, JobState
<1>3. /\ g \in Id /\ new \in PlaidRow /\ Object(b, g) \in PlaidRow
      /\ new = [Object(b, g) EXCEPT !.label = j.label, !.key = Sub(b).key,
                                    !.amount = Sub(b).amount,
                                    !.bank = IF @ = NoBank THEN b ELSE @]
      /\ Object(b, g) = Sees(b, g) => Written(b) = new
  BY <1>2, WrittenIs
<1>4. Object(b, g) = Seen(row, j, g) /\ Object(b, g) = Sees(b, g)
  BY <1>3, FreshObject
<1>5. g \in Others(row, j)
  BY <1>2 DEF Aimed
<1>6. Carries(new, Hand(j))
  BY <1>1, <1>3 DEF Carries, PlaidRow, RowOf
<1> HIDE DEF new, j, g
<1>7. ASSUME NEW x \in Id
      PROVE  Seen(row, k, x) = IF x = g THEN new ELSE Seen(row, j, x)
  <2>1. CASE new = Object(b, g)
    BY <1>2, <1>4, <2>1 DEF Seen
  <2>2. CASE new # Object(b, g)
    <3>1. k.pending = Put(j.pending, g, new)
      BY <1>2, <1>3, <1>4, <2>2
    <3> QED
      BY <1>1, <1>3, <3>1, SeenAfter
  <2> QED
    BY <2>1, <2>2
<1> QED
  BY <1>1, <1>2, <1>3, <1>4, <1>5, <1>6, <1>7 DEF new, j, g

LEMMA MovedOutcomes ==
    ASSUME TypeOK, NEW b \in Bank, Orderly(row, job[b]), Lone(row, job[b]),
           NEW k, Moved(b, k)
    PROVE  Outcomes(row, k)
<1> DEFINE j == job[b]
           n == Len(j.got)
<1>1. /\ j \in JobState /\ j.got \in Seq(Id \cup {0}) /\ n \in Nat
      /\ DOMAIN j.got = 1..n
  BY DEF TypeOK, JobState
<1>2. Outcomes(row, j) /\ Fresh(row, j) /\ Aimed(row, j)
  BY DEF Lone
<1>3. Sub(b) = Hand(j) /\ Hand(j) = j.detected[n + 1]
  BY HandIsSub DEF Hand
<1> HIDE DEF j, n
<1>4. ASSUME k.got = j.got, k.detected = j.detected, k.pending = j.pending
      PROVE  Outcomes(row, k)
  <2>1. \A x : Seen(row, k, x) = Seen(row, j, x)
    BY <1>4 DEF Seen
  <2>2. \A i \in DOMAIN j.got : Settled(row, k, k.detected[i], k.got[i])
    BY <1>1, <1>2, <1>4, <2>1, OutcomesStay
  <2> QED
    BY <1>4, <2>2 DEF Outcomes
<1>5. ASSUME NEW g \in Id \cup {0}, k.got = Append(j.got, g), k.detected = j.detected,
             \A x \in Id : x # g => Seen(row, k, x) = Seen(row, j, x),
             \/ g = 0
             \/ Seen(row, k, g) = Seen(row, j, g)
             \/ g \notin ToSet(j.got) /\ Seen(row, j, g).source # "manual",
             Settled(row, k, Hand(j), g)
      PROVE  Outcomes(row, k)
  <2>1. \A i \in DOMAIN j.got : Settled(row, k, k.detected[i], k.got[i])
    BY <1>1, <1>2, <1>5, OutcomesStay
  <2>2. k.got[n + 1] = g /\ DOMAIN k.got = DOMAIN j.got \cup {n + 1}
    BY <1>1, <1>5 DEF n
  <2> QED
    BY <1>3, <1>5, <2>1, <2>2 DEF Outcomes
<1>6. ASSUME NEW g \in Matches(b), Hits(b, g, k)
      PROVE  Outcomes(row, k)
  <2>1. k.got = j.got /\ k.detected = j.detected /\ k.pending = j.pending
    BY <1>1, <1>6 DEF Hits, JobState, j
  <2> QED
    BY <1>4, <2>1
<1>7. ASSUME Misses(b, k) \/ Retries(b, k) \/ \E label : Takes(b, label, k)
      PROVE  Outcomes(row, k)
  <2>1. k.got = j.got /\ k.detected = j.detected /\ k.pending = j.pending
    BY <1>1, <1>7, ZenonT(30) DEF Misses, Retries, Takes, JobState, j
  <2> QED
    BY <1>4, <2>1
<1>8. ASSUME NEW g \in Matches(b), Passes(b, g, k)
      PROVE  Outcomes(row, k)
  <2>1. /\ k.got = Append(j.got, g) /\ k.detected = j.detected /\ k.pending = j.pending
        /\ ~Sees(b, g).active
    BY <1>1, <1>8 DEF Passes, JobState, j
  <2>2. \A x : Seen(row, k, x) = Seen(row, j, x)
    BY <2>1 DEF Seen
  <2>3. g \in Candidates(b) /\ g \in Id /\ g # 0 /\ g \notin ToSet(j.got)
    BY <1>8, MatchesAre, CandidateTypes DEF j
  <2>4. Seen(row, j, g) = row[g] /\ Object(b, g) = row[g] /\ Sees(b, g) = row[g]
    BY <1>2, <2>3, OthersUnwritten, FreshObject DEF j
  <2>5. /\ row[g].source = "plaid" /\ ~row[g].active
        /\ row[g].key = Hand(j).key \/ row[g].label = Hand(j).label
    BY <1>3, <2>1, <2>3, <2>4 DEF Candidates
  <2>6. Settled(row, k, Hand(j), g)
    BY <2>3, <2>5 DEF Settled
  <2> QED
    BY <1>5, <2>1, <2>2, <2>3, <2>6
<1>9. ASSUME Skips(b, k)
      PROVE  Outcomes(row, k)
  <2>1. /\ k.got = Append(j.got, 0) /\ k.detected = j.detected /\ k.pending = j.pending
        /\ j.pc = "resolve" /\ j.target = 0
        /\ Taken(b, Hand(j).label, 0) /\ Taken(b, Suffixed(Hand(j)), 0)
    BY <1>1, <1>3, <1>9 DEF Skips, JobState, j
  <2>2. \A x : Seen(row, k, x) = Seen(row, j, x)
    BY <2>1 DEF Seen
  <2>3. ToSet(j.got) \subseteq ToSet(k.got)
    BY <1>1, <2>1, ToSetAppend
  <2>4. \A label : Fixed(row, j, label) => Fixed(row, k, label)
    BY <2>2, <2>3 DEF Fixed
  <2>5. Fixed(row, j, Hand(j).label)
    BY <1>2, <2>1, TakenFixed DEF Aimed, j
  <2>6. \/ Fixed(row, j, Suffixed(Hand(j)))
        \/ \E x \in Id : row[x].source = "plaid" /\ row[x].label = Suffixed(Hand(j))
    BY <2>1, TakenFixed DEF j, Others
  <2>7. Settled(row, k, Hand(j), 0)
    BY <2>4, <2>5, <2>6 DEF Settled
  <2> QED
    BY <1>5, <2>1, <2>2, <2>7
<1>10. ASSUME NEW g \in Free, Inserts(b, g, k)
       PROVE  Outcomes(row, k)
  <2>1. /\ k.got = Append(j.got, g) /\ k.detected = j.detected
        /\ g \in Id /\ g # 0 /\ g \notin ToSet(j.got) /\ Seen(row, j, g) = NoRow
        /\ Carries(NewRow(b), Hand(j))
        /\ \A x \in Id : Seen(row, k, x) = IF x = g THEN NewRow(b) ELSE Seen(row, j, x)
    BY <1>10, InsertsIs DEF j
  <2>2. Seen(row, j, g).source # "manual"
    BY <2>1, RowTypes
  <2>3. Settled(row, k, Hand(j), g)
    BY <2>1 DEF Settled
  <2> QED
    BY <1>5, <2>1, <2>2, <2>3
<1>11. ASSUME Updates(b, job[b].target, k)
       PROVE  Outcomes(row, k)
  <2> DEFINE g == job[b].target
  <2>1. /\ k.got = Append(j.got, g) /\ k.detected = j.detected
        /\ g \in Id /\ g # 0 /\ g \in Others(row, j)
        /\ Carries(Updated(b), Hand(j))
        /\ \A x \in Id : Seen(row, k, x) = IF x = g THEN Updated(b) ELSE Seen(row, j, x)
    BY <1>2, <1>11, UpdatesIs DEF j
  <2> HIDE DEF g
  <2>2. g \notin ToSet(j.got) /\ Seen(row, j, g).source # "manual"
    BY <2>1 DEF Others
  <2>3. Settled(row, k, Hand(j), g)
    BY <2>1 DEF Settled
  <2> QED
    BY <1>5, <2>1, <2>2, <2>3
<1>12. ASSUME k = NoJob
       PROVE  Outcomes(row, k)
  BY <1>12 DEF Outcomes, NoJob
<1> QED
  BY <1>6, <1>7, <1>8, <1>9, <1>10, <1>11, <1>12 DEF Moved

\* A row written for a detection makes no twin: a row of its merchant and amount
\* that no detection took would have been the match, and no other detection has both.
LEMMA WriteTwins ==
    ASSUME DistinctPlans, NEW rows, NEW j \in JobState, Orderly(rows, j),
           Taker(rows, j), TwinFree(rows, j), Len(j.got) < Len(j.detected),
           NEW k, NEW g \in Id, g # 0, g \notin ToSet(j.got), NEW r,
           k.got = Append(j.got, g), k.detected = j.detected, Carries(r, Hand(j)),
           \A x \in Id : Seen(rows, k, x) = IF x = g THEN r ELSE Seen(rows, j, x),
           \A y \in Others(rows, j) :
               Seen(rows, j, y).key = Hand(j).key /\ Seen(rows, j, y).amount = Hand(j).amount =>
                   rows[g].source = "plaid" /\ rows[g].amount = Hand(j).amount
    PROVE  Taker(rows, k) /\ TwinFree(rows, k)
<1> DEFINE n == Len(j.got)
           d == Hand(j)
<1>1. /\ j.got \in Seq(Id \cup {0}) /\ n \in Nat /\ DOMAIN j.got = 1..n
      /\ j.detected \in Detections \cup {<<>>}
  BY DEF JobState
<1>2. Len(j.detected) \in Nat /\ DOMAIN j.detected = 1..Len(j.detected)
  BY <1>1, DetectionTypes
<1>3. /\ DOMAIN k.got = 1..(n + 1) /\ k.got[n + 1] = g
      /\ \A i \in 1..n : k.got[i] = j.got[i] /\ j.got[i] \in ToSet(j.got)
                         /\ j.got[i] \in Id \cup {0}
  BY <1>1 DEF ToSet
<1>4. d = j.detected[n + 1]
  BY DEF Hand
<1>5. ASSUME NEW i \in 1..n
      PROVE  ~(j.detected[i].key = d.key /\ j.detected[i].amount = d.amount)
  <2>1. i \in DOMAIN j.detected /\ n + 1 \in DOMAIN j.detected /\ i # n + 1
    BY <1>1, <1>2
  <2>2. j.detected \in Detections
    BY <1>1, <2>1
  <2> QED
    BY <1>4, <2>1, <2>2 DEF DistinctPlans
<1> HIDE DEF n, d
<1>6. Taker(rows, k)
  <2>1. ASSUME NEW i \in DOMAIN k.got, k.got[i] # 0
        PROVE  \/ Carries(Seen(rows, k, k.got[i]), k.detected[i])
               \/ ~Seen(rows, k, k.got[i]).active
    <3>1. CASE i = n + 1
      BY <1>3, <1>4, <3>1 DEF d
    <3>2. CASE i \in 1..n
      <4>1. /\ k.got[i] = j.got[i] /\ j.got[i] \in Id /\ j.got[i] # g
            /\ i \in DOMAIN j.got
        BY <1>1, <1>3, <2>1, <3>2
      <4>2. Seen(rows, k, j.got[i]) = Seen(rows, j, j.got[i])
        BY <4>1
      <4> QED
        BY <2>1, <4>1, <4>2 DEF Taker
    <3> QED
      BY <1>1, <1>3, <3>1, <3>2
  <2> QED
    BY <2>1 DEF Taker
<1>7. ASSUME NEW y \in Id, y # g, Seen(rows, j, y).source = "plaid",
             Seen(rows, j, y).key = d.key, Seen(rows, j, y).amount = d.amount,
             Seen(rows, j, y).active
      PROVE  /\ rows[g].source = "plaid" /\ rows[g].amount = d.amount
             /\ rows[y].source = "plaid" /\ rows[y].amount = d.amount
  <2>1. y # 0
    BY UpsertAssumption DEF Id
  <2>2. y \notin ToSet(j.got)
    <3>1. SUFFICES ASSUME y \in ToSet(j.got) PROVE FALSE
      OBVIOUS
    <3>2. PICK i \in 1..n : y = j.got[i]
      BY <1>1, <3>1 DEF ToSet
    <3>3. Carries(Seen(rows, j, y), j.detected[i])
      BY <1>1, <1>7, <2>1, <3>2 DEF Taker
    <3> QED
      BY <1>5, <1>7, <3>3 DEF Carries
  <2>3. y \in Others(rows, j) /\ Seen(rows, j, y) = rows[y]
    BY <1>7, <2>2, OthersUnwritten DEF Others
  <2> QED
    BY <1>7, <2>3 DEF d
<1>8. TwinFree(rows, k)
  <2>1. r.source = "plaid" /\ r.key = d.key /\ r.amount = d.amount
    BY DEF Carries, d
  <2> QED
    BY <1>7, <2>1 DEF TwinFree
<1> QED
  BY <1>6, <1>8

LEMMA MovedTwins ==
    ASSUME DistinctPlans, TypeOK, NEW b \in Bank, Orderly(row, job[b]), Lone(row, job[b]),
           Taker(row, job[b]), TwinFree(row, job[b]), NEW k, Moved(b, k)
    PROVE  Taker(row, k) /\ TwinFree(row, k)
<1> DEFINE j == job[b]
           n == Len(j.got)
<1>1. /\ j \in JobState /\ j.got \in Seq(Id \cup {0}) /\ n \in Nat
      /\ DOMAIN j.got = 1..n
  BY DEF TypeOK, JobState
<1>2. /\ Orderly(row, j) /\ Taker(row, j) /\ TwinFree(row, j)
      /\ Fresh(row, j) /\ Aimed(row, j)
  BY DEF Lone
<1>3. \A y \in Others(row, j) : y \in Id /\ y \notin ToSet(j.got) /\ Seen(row, j, y) = row[y]
  BY OthersUnwritten DEF Others
<1>4. j.pc \in {"resolve", "write"} => n < Len(j.detected)
  BY DEF Orderly
<1> HIDE DEF j, n
<1>5. ASSUME k.got = j.got, k.detected = j.detected, k.pending = j.pending
      PROVE  Taker(row, k) /\ TwinFree(row, k)
  BY <1>2, <1>5 DEF Taker, TwinFree, Seen
<1>6. ASSUME NEW g \in Id \cup {0}, k.got = Append(j.got, g), k.detected = j.detected,
             k.pending = j.pending, g # 0 => ~Seen(row, j, g).active
      PROVE  Taker(row, k) /\ TwinFree(row, k)
  <2>1. \A x : Seen(row, k, x) = Seen(row, j, x)
    BY <1>6 DEF Seen
  <2>2. /\ DOMAIN k.got = 1..(n + 1) /\ k.got[n + 1] = g
        /\ \A i \in 1..n : k.got[i] = j.got[i]
        /\ \A i \in 1..(n + 1) : i \in 1..n \/ i = n + 1
    BY <1>1, <1>6 DEF n
  <2>3. Taker(row, k)
    BY <1>1, <1>2, <1>6, <2>1, <2>2 DEF Taker
  <2>4. TwinFree(row, k)
    BY <1>2, <2>1 DEF TwinFree
  <2> QED
    BY <2>3, <2>4
<1>7. ASSUME NEW g \in Matches(b), Hits(b, g, k)
      PROVE  Taker(row, k) /\ TwinFree(row, k)
  <2>1. k.got = j.got /\ k.detected = j.detected /\ k.pending = j.pending
    BY <1>1, <1>7 DEF Hits, JobState, j
  <2> QED
    BY <1>5, <2>1
<1>8. ASSUME Misses(b, k) \/ Retries(b, k) \/ \E label : Takes(b, label, k)
      PROVE  Taker(row, k) /\ TwinFree(row, k)
  <2>1. k.got = j.got /\ k.detected = j.detected /\ k.pending = j.pending
    BY <1>1, <1>8, ZenonT(30) DEF Misses, Retries, Takes, JobState, j
  <2> QED
    BY <1>5, <2>1
<1>9. ASSUME NEW g \in Matches(b), Passes(b, g, k)
      PROVE  Taker(row, k) /\ TwinFree(row, k)
  <2>1. /\ k.got = Append(j.got, g) /\ k.detected = j.detected /\ k.pending = j.pending
        /\ ~Sees(b, g).active
    BY <1>1, <1>9 DEF Passes, JobState, j
  <2>2. g \in Id
    BY <1>9, MatchesAre DEF Candidates
  <2>3. Sees(b, g) = Seen(row, j, g)
    BY <1>2, <2>2, FreshObject DEF j
  <2> QED
    BY <1>6, <2>1, <2>2, <2>3
<1>10. ASSUME Skips(b, k)
       PROVE  Taker(row, k) /\ TwinFree(row, k)
  <2>1. k.got = Append(j.got, 0) /\ k.detected = j.detected /\ k.pending = j.pending
    BY <1>1, <1>10 DEF Skips, JobState, j
  <2> QED
    BY <1>6, <2>1
<1>11. ASSUME NEW g \in Free, Inserts(b, g, k)
       PROVE  Taker(row, k) /\ TwinFree(row, k)
  <2>1. /\ k.got = Append(j.got, g) /\ k.detected = j.detected
        /\ j.pc = "write" /\ j.target = 0
        /\ g \in Id /\ g # 0 /\ g \notin ToSet(j.got)
        /\ Carries(NewRow(b), Hand(j))
        /\ \A x \in Id : Seen(row, k, x) = IF x = g THEN NewRow(b) ELSE Seen(row, j, x)
    BY <1>11, InsertsIs DEF j
  <2>2. \A y \in Others(row, j) :
            ~(Seen(row, j, y).key = Hand(j).key /\ Seen(row, j, y).amount = Hand(j).amount)
    BY <1>2, <2>1 DEF Aimed
  <2>3. n < Len(j.detected)
    BY <1>4, <2>1
  <2> QED
    BY <1>1, <1>2, <2>1, <2>2, <2>3, WriteTwins DEF n
<1>12. ASSUME Updates(b, job[b].target, k)
       PROVE  Taker(row, k) /\ TwinFree(row, k)
  <2> DEFINE g == job[b].target
             r == Updated(b)
  <2>1. /\ k.got = Append(j.got, g) /\ k.detected = j.detected
        /\ j.pc = "write" /\ g = j.target
        /\ g \in Id /\ g # 0 /\ g \in Others(row, j)
        /\ Carries(r, Hand(j))
        /\ \A x \in Id : Seen(row, k, x) = IF x = g THEN r ELSE Seen(row, j, x)
    BY <1>2, <1>12, UpdatesIs DEF j
  <2> HIDE DEF g, r
  <2>2. g \notin ToSet(j.got) /\ row[g].source = "plaid" /\ Seen(row, j, g) = row[g]
    BY <1>3, <2>1 DEF Others
  <2>3. \A y \in Others(row, j) :
            Seen(row, j, y).key = Hand(j).key /\ Seen(row, j, y).amount = Hand(j).amount =>
                row[g].source = "plaid" /\ row[g].amount = Hand(j).amount
    BY <1>2, <2>1, <2>2 DEF Aimed
  <2>4. Len(j.got) < Len(j.detected)
    BY <1>4, <2>1 DEF n
  <2>5. /\ g \in Id /\ g # 0 /\ k.got = Append(j.got, g) /\ k.detected = j.detected
        /\ Carries(r, Hand(j))
        /\ \A x \in Id : Seen(row, k, x) = IF x = g THEN r ELSE Seen(row, j, x)
    BY <2>1
  <2> QED
    BY <1>1, <1>2, <2>2, <2>3, <2>4, <2>5, WriteTwins, SMTT(30)
<1>13. ASSUME k = NoJob
       PROVE  Taker(row, k) /\ (TwinFree(row, NoJob) => TwinFree(row, k))
  BY <1>13 DEF Taker, NoJob
<1>14. TwinFree(row, NoJob)
  BY SeenIdle DEF TwinFree
<1> QED
  BY <1>7, <1>8, <1>9, <1>10, <1>11, <1>12, <1>13, <1>14 DEF Moved

\* When every detection has its row, that row is the match.
LEMMA KnownMatch ==
    ASSUME DistinctPlans, TypeOK, NEW b \in Bank, Orderly(row, job[b]), Lone(row, job[b]),
           Known(row, job[b]), Repeats(row, b, job[b]), More(b)
    PROVE  /\ Matches(b) # {}
           /\ \A g \in Matches(b) : g \in Id /\ g # 0 /\ Carries(row[g], Hand(job[b]))
<1> DEFINE j == job[b]
           n == Len(j.got)
           d == Hand(j)
<1>1. /\ j.got \in Seq(Id \cup {0}) /\ n \in Nat /\ DOMAIN j.got = 1..n
      /\ j.detected \in Detections \cup {<<>>}
  BY DEF TypeOK, JobState
<1>2. /\ Sub(b) = d /\ d \in ToSet(j.detected) /\ d = j.detected[n + 1]
      /\ DOMAIN j.detected = 1..Len(j.detected) /\ Len(j.detected) \in Nat
  BY HandIsSub DEF Hand
<1>3. n + 1 \in DOMAIN j.detected
  BY <1>1, <1>2 DEF More
<1>4. j.detected \in Detections
  BY <1>1, <1>3
<1>5. PICK y \in Id : Carries(row[y], d)
  BY <1>2 DEF Known
<1> HIDE DEF n, d
<1>6. y \notin ToSet(j.got)
  <2>1. SUFFICES ASSUME y \in ToSet(j.got) PROVE FALSE
    OBVIOUS
  <2>2. PICK i \in DOMAIN j.got : y = j.got[i]
    BY <2>1 DEF ToSet
  <2>3. Carries(row[y], j.detected[i])
    BY <2>2 DEF Repeats
  <2>4. i # n + 1 /\ i \in DOMAIN j.detected
    BY <1>1, <1>2, <1>3, <2>2
  <2> QED
    BY <1>2, <1>3, <1>4, <1>5, <2>3, <2>4 DEF Carries, DistinctPlans
<1>7. Seen(row, j, y) = row[y] /\ y \in Others(row, j)
  BY <1>5, <1>6, OthersUnwritten DEF Others, Carries
<1>8. Sees(b, y) = row[y] /\ y \in Candidates(b)
  BY <1>2, <1>5, <1>7, FreshObject, OthersMatch DEF Lone, Carries
<1>9. /\ Matches(b) # {}
      /\ \A g \in Matches(b) : Sees(b, g).amount = d.amount
  BY <1>2, <1>5, <1>8, ExactMatch DEF Carries
<1>10. ASSUME NEW g \in Matches(b)
       PROVE  g \in Id /\ g # 0 /\ Carries(row[g], d)
  <2>1. /\ g \in Id /\ g # 0 /\ g \notin ToSet(j.got) /\ g \in Others(row, j)
    BY MatchesAre, CandidateTypes
  <2>2. Seen(row, j, g) = row[g] /\ Sees(b, g) = row[g] /\ row[g].source = "plaid"
    BY <2>1, OthersUnwritten, FreshObject DEF Lone, Others
  <2>3. row[g].amount = row[y].amount /\ row[y].source = "plaid"
    BY <1>5, <1>9, <2>2 DEF Carries
  <2>4. g = y
    BY <2>1, <2>2, <2>3 DEF Known
  <2> QED
    BY <1>5, <2>1, <2>4
<1> QED
  BY <1>9, <1>10 DEF d

\* A label that another row has and that a detected row has as well is the
\* label of a manual subscription.
LEMMA TakenByManual ==
    ASSUME TypeOK, NEW b \in Bank, Distinct(row, job[b]), NEW g \in Id, NEW label,
           Seen(row, job[b], g).source = "plaid", Seen(row, job[b], g).label = label,
           Taken(b, label, g)
    PROVE  \E m \in Id : row[m].source = "manual" /\ row[m].label = label
<1>1. PICK m \in Id \ {g} : Sees(b, m).source # "none" /\ Sees(b, m).label = label
  BY DEF Taken
<1>2. Sees(b, m) = Seen(row, job[b], m) /\ Sees(b, m).source \in {"plaid", "manual"}
  BY <1>1, SeenTypes, RowTypes
<1>3. Seen(row, job[b], m).source = "manual"
  BY <1>1, <1>2 DEF Distinct
<1>4. m \notin DOMAIN job[b].pending
  BY <1>3, PendingPlaid
<1> QED
  BY <1>1, <1>2, <1>3, <1>4 DEF Seen

LEMMA MovedRepeats ==
    ASSUME DistinctPlans, TypeOK, NEW b \in Bank, Orderly(row, job[b]), Distinct(row, job[b]),
           Lone(row, job[b]), Known(row, job[b]), Repeats(row, b, job[b]), NEW k, Moved(b, k)
    PROVE  Repeats(row, b, k)
<1> DEFINE j == job[b]
           n == Len(j.got)
<1>1. /\ j \in JobState /\ j.got \in Seq(Id \cup {0}) /\ n \in Nat
      /\ DOMAIN j.got = 1..n
  BY DEF TypeOK, JobState
<1>2. /\ Orderly(row, j) /\ Fresh(row, j) /\ Aimed(row, j) /\ Repeats(row, b, j)
      /\ Sub(b) = Hand(j) /\ Hand(j) = j.detected[n + 1]
  BY HandIsSub DEF Lone, Hand
<1>3. More(b) => /\ Matches(b) # {}
                 /\ \A g \in Matches(b) : g \in Id /\ g # 0 /\ Carries(row[g], Hand(j))
  BY KnownMatch
<1>4. j.pc \in {"resolve", "write"} => j.target # 0 /\ Carries(row[j.target], Hand(j))
  BY <1>2 DEF Repeats
<1>5. ~Misses(b, k) /\ ~Skips(b, k) /\ ~Retries(b, k) /\ \A g \in Free : ~Inserts(b, g, k)
  BY <1>3, <1>4 DEF Misses, Skips, Retries, Inserts
<1> HIDE DEF j, n
<1>6. ASSUME NEW g \in Matches(b), Hits(b, g, k)
      PROVE  Repeats(row, b, k)
  <2>1. /\ k.got = j.got /\ k.detected = j.detected /\ k.pending = j.pending
        /\ k.target = g /\ k.pc = "resolve" /\ More(b)
    BY <1>1, <1>6 DEF Hits, JobState, j
  <2>2. Hand(k) = Hand(j) /\ \A x : Seen(row, k, x) = Seen(row, j, x)
    BY <2>1 DEF Hand, Seen
  <2> QED
    BY <1>2, <1>3, <1>6, <2>1, <2>2 DEF Repeats
<1>7. ASSUME NEW g \in Matches(b), Passes(b, g, k)
      PROVE  Repeats(row, b, k)
  <2>1. /\ k.got = Append(j.got, g) /\ k.detected = j.detected /\ k.pending = j.pending
        /\ k.pc = "find" /\ More(b)
    BY <1>1, <1>7 DEF Passes, JobState, j
  <2>2. \A x : Seen(row, k, x) = Seen(row, j, x)
    BY <2>1 DEF Seen
  <2>3. /\ DOMAIN k.got = 1..(n + 1) /\ k.got[n + 1] = g
        /\ \A i \in 1..n : k.got[i] = j.got[i]
        /\ \A i \in 1..(n + 1) : i \in 1..n \/ i = n + 1
        /\ \A i \in 1..n : i \in 1..(n + 1)
    <3>1. g \in Id \cup {0}
      BY <1>3, <1>7, <2>1
    <3> QED
      BY <1>1, <2>1, <3>1 DEF n
  <2>4. g # 0 /\ Carries(row[g], Hand(j))
    BY <1>3, <1>7, <2>1
  <2> QED
    BY <1>1, <1>2, <2>1, <2>2, <2>3, <2>4 DEF Repeats
<1>8. ASSUME NEW label, Takes(b, label, k)
      PROVE  Repeats(row, b, k)
  <2>1. /\ k.got = j.got /\ k.detected = j.detected /\ k.pending = j.pending
        /\ k.target = j.target /\ k.pc = "write" /\ k.label = label /\ j.pc = "resolve"
    BY <1>1, <1>8 DEF Takes, JobState, j
  <2>2. Hand(k) = Hand(j) /\ \A x : Seen(row, k, x) = Seen(row, j, x)
    BY <2>1 DEF Hand, Seen
  <2>3. ASSUME row[j.target].label = Hand(j).label
        PROVE  \/ label = Hand(j).label
               \/ \E m \in Id : row[m].source = "manual" /\ row[m].label = Hand(j).label
    <3>1. j.target # 0 /\ j.target \in Others(row, j)
      BY <1>2, <1>4, <2>1 DEF Aimed
    <3>2. /\ j.target \in Id /\ Seen(row, j, j.target) = row[j.target]
          /\ Seen(row, j, j.target).source = "plaid"
      BY <1>2, <3>1, OthersUnwritten DEF Others
    <3>3. label = Hand(j).label \/ Taken(b, Hand(j).label, j.target)
      BY <1>2, <1>8 DEF Takes, j
    <3> QED
      BY <2>3, <3>2, <3>3, TakenByManual DEF j
  <2>4. k.target # 0 /\ Carries(row[k.target], Hand(k))
    BY <1>4, <2>1, <2>2
  <2> QED
    BY <1>2, <2>1, <2>2, <2>3, <2>4 DEF Repeats
<1>9. ASSUME Updates(b, job[b].target, k)
      PROVE  Repeats(row, b, k)
  <2> DEFINE g == j.target
             new == Updated(b)
  <2>1. /\ k.got = Append(j.got, g) /\ k.detected = j.detected
        /\ k.pc = "find" /\ j.pc = "write"
        /\ g \in Id /\ g # 0 /\ g \in Others(row, j) /\ Seen(row, j, g) \in PlaidRow
        /\ \A x \in Id : Seen(row, k, x) = IF x = g THEN new ELSE Seen(row, j, x)
    BY <1>2, <1>9, UpdatesIs DEF j
  <2>2. new = [Object(b, g) EXCEPT !.label = j.label, !.key = Sub(b).key, !.amount = Sub(b).amount,
                                   !.bank = IF @ = NoBank THEN b ELSE @]
    BY <2>1, WrittenIs DEF j
  <2> HIDE DEF g, new
  <2>3. Object(b, g) = row[g] /\ Seen(row, j, g) = row[g] /\ row[g] \in PlaidRow
    BY <1>2, <2>1, OthersUnwritten, FreshObject DEF j, Others
  <2>4. Carries(row[g], Hand(j))
    BY <1>4, <2>1 DEF g
  <2>5. j.label \in Labels
    BY <1>2, <2>1 DEF Orderly
  <2>6. new = [row[g] EXCEPT !.label = j.label, !.key = row[g].key, !.amount = row[g].amount,
                             !.bank = IF @ = NoBank THEN b ELSE @]
    BY <1>2, <2>2, <2>3, <2>4 DEF Carries
  <2>7. /\ new = [row[g] EXCEPT !.label = new.label, !.bank = IF @ = NoBank THEN b ELSE @]
        /\ new.label = j.label
    <3> DEFINE r == row[g]
               label == j.label
    <3>1. /\ r \in PlaidRow /\ label \in Labels
          /\ new = [r EXCEPT !.label = label, !.key = r.key, !.amount = r.amount,
                             !.bank = IF @ = NoBank THEN b ELSE @]
      BY <2>3, <2>5, <2>6
    <3> HIDE DEF r, label
    <3>2. /\ new = [r EXCEPT !.label = new.label, !.bank = IF @ = NoBank THEN b ELSE @]
          /\ new.label = label
      BY <3>1 DEF PlaidRow, RowOf
    <3> QED
      BY <3>2 DEF r, label
  <2>8. row[g].label = Hand(j).label =>
            \/ j.label = Hand(j).label
            \/ \E m \in Id : row[m].source = "manual" /\ row[m].label = Hand(j).label
    BY <1>2, <2>1 DEF Repeats, g
  <2>9. Renamed(row, b, row[g], new, Hand(j))
    BY <2>7, <2>8 DEF Renamed
  <2>10. /\ DOMAIN k.got = 1..(n + 1) /\ k.got[n + 1] = g
         /\ \A i \in 1..n : k.got[i] = j.got[i]
         /\ \A i \in 1..(n + 1) : i \in 1..n \/ i = n + 1
         /\ \A i \in 1..n : i \in 1..(n + 1)
         /\ n + 1 \in 1..(n + 1)
    BY <1>1, <2>1 DEF n
  <2>11. \A i \in DOMAIN k.got : k.got[i] # 0 /\ Carries(row[k.got[i]], k.detected[i])
    BY <1>1, <1>2, <2>1, <2>4, <2>10 DEF Repeats
  <2>12. ASSUME NEW id \in Id
         PROVE  \/ Seen(row, k, id) = row[id]
                \/ \E i \in DOMAIN k.got :
                       k.got[i] = id /\ Renamed(row, b, row[id], Seen(row, k, id), k.detected[i])
    <3>1. CASE id = g
      BY <1>2, <2>1, <2>9, <2>10, <3>1
    <3>2. CASE id # g
      <4>1. Seen(row, k, id) = Seen(row, j, id)
        BY <2>1, <3>2
      <4> QED
        BY <1>1, <1>2, <2>1, <2>10, <4>1 DEF Repeats
    <3> QED
      BY <3>1, <3>2
  <2> QED
    BY <2>1, <2>11, <2>12 DEF Repeats
<1>10. ASSUME k = NoJob
       PROVE  Repeats(row, b, k)
  BY <1>10, SeenIdle DEF Repeats, NoJob
<1> QED
  BY <1>5, <1>6, <1>7, <1>8, <1>9, <1>10 DEF Moved

---------------------------------------------------------------------------
(* The invariant: initially, and in a step of a job *)

LEMMA MovedAlone ==
    ASSUME TypeOK, NEW b \in Bank, NEW k, Moved(b, k)
    PROVE  /\ k = NoJob \/ (k.detected = job[b].detected /\ k.alone = job[b].alone)
           /\ job[b].pc = "idle" => k = NoJob
<1>1. job[b] \in JobState
  BY DEF TypeOK
<1>2. CASE \E g \in Matches(b) : Hits(b, g, k) \/ Passes(b, g, k)
  BY <1>1, <1>2 DEF Hits, Passes, JobState
<1>3. CASE Misses(b, k) \/ Skips(b, k) \/ Retries(b, k)
  BY <1>1, <1>3 DEF Misses, Skips, Retries, JobState
<1>4. CASE \E label : Takes(b, label, k)
  BY <1>1, <1>4 DEF Takes, JobState
<1>5. CASE \E g \in Free : Inserts(b, g, k)
  BY <1>1, <1>5 DEF Inserts, JobState
<1>6. CASE Updates(b, job[b].target, k)
  BY <1>1, <1>6 DEF Updates, JobState
<1> QED
  BY <1>2, <1>3, <1>4, <1>5, <1>6 DEF Moved

LEMMA IdleOrderly ==
    ASSUME NEW rows
    PROVE  /\ Orderly(rows, NoJob) /\ Owns(rows, NoJob) /\ NoJob.alone = FALSE /\ NoJob.pc = "idle"
           /\ \A k : Apart(NoJob, k) /\ Apart(k, NoJob)
<1>1. ToSet(<<>>) = {}
  BY DEF ToSet
<1> QED
  BY <1>1 DEF Orderly, Owns, Apart, NoJob

LEMMA InitIInv == Init => IInv
<1> SUFFICES ASSUME Init PROVE IInv
  OBVIOUS
<1>1. PICK l \in UserLabels \cup {<<>>}, a \in UserAmounts \cup {0} :
          \/ row = [id \in Id |-> NoRow]
          \/ /\ l \in UserLabels /\ a \in UserAmounts
             /\ row = [[id \in Id |-> NoRow] EXCEPT ![1] = Subscription(l, NoKey, a, "plaid", NoBank)]
  BY DEF Init
<1>2. l \in UserLabels /\ a \in UserAmounts => Subscription(l, NoKey, a, "plaid", NoBank) \in SubRow
  BY UpsertAssumption DEF Subscription, SubRow, RowOf, Labels, Key, Price
<1> DEFINE s == Subscription(l, NoKey, a, "plaid", NoBank)
<1>3. row \in [Id -> SubRow \cup {NoRow}]
  <2> HIDE DEF s
  <2> QED
    BY <1>1, <1>2 DEF s
<1>4. \A x \in Id : x # 1 => row[x] = NoRow
  <2> HIDE DEF s
  <2> QED
    BY <1>1 DEF s
<1>5. /\ job \in [Bank -> JobState] /\ \A b \in Bank : job[b] = NoJob
      /\ rounds \in Nat /\ edits \in Nat
  BY NoJobState DEF Init
<1>6. Distinct(row, NoJob)
  BY <1>3, <1>4, SeenIdle, RowTypes DEF Distinct
<1> QED
  BY <1>3, <1>5, <1>6, IdleOrderly DEF IInv, TypeOK

LEMMA MoveIInv ==
    ASSUME IInv, NEW b \in Bank, JobStep(b), ~Commit(b)
    PROVE  IInv'
<1> DEFINE k == job'[b]
<1>1. /\ UNCHANGED <<row, rounds, edits>> /\ job' = [job EXCEPT ![b] = k] /\ Moved(b, k)
  BY JobCases DEF IInv
<1> HIDE DEF k
<1>2. /\ k \in JobState /\ Orderly(row, k) /\ Owns(row, k) /\ Distinct(row, k)
  BY <1>1, MovedOrderly, MovedOwns, MovedDistinct DEF IInv
<1>3. /\ job'[b] = k /\ \A c \in Bank \ {b} : job'[c] = job[c]
      /\ job' \in [Bank -> JobState]
  BY <1>1, <1>2 DEF IInv, TypeOK
<1>4. TypeOK'
  BY <1>1, <1>3 DEF IInv, TypeOK
<1>5. \A c \in Bank : Orderly(row', job'[c]) /\ Owns(row', job'[c]) /\ Distinct(row', job'[c])
  BY <1>1, <1>2, <1>3 DEF IInv
<1>6. \A c \in Bank \ {b} : Apart(k, job[c]) /\ Apart(job[c], k)
  BY <1>1, MovedApart DEF IInv
<1>7. \A c, d \in Bank : c # d => Apart(job'[c], job'[d])
  BY <1>3, <1>6 DEF IInv
<1>8. /\ k = NoJob \/ k.alone = job[b].alone
      /\ job[b].pc = "idle" => k = NoJob
      /\ NoJob.alone = FALSE /\ NoJob.pc = "idle"
  BY <1>1, MovedAlone, IdleOrderly DEF IInv
<1>9. \A c, d \in Bank : job'[c].alone /\ c # d => job'[d].pc = "idle"
  BY <1>3, <1>8 DEF IInv
<1>10. ASSUME k.alone
       PROVE  Lone(row, k)
  <2>1. job[b].alone
    BY <1>8, <1>10
  <2>2. Lone(row, job[b])
    BY <2>1 DEF IInv
  <2>3. Fresh(row, k) /\ Aimed(row, k) /\ Outcomes(row, k)
    BY <1>1, <2>2, MovedFresh, MovedAimed, MovedOutcomes DEF IInv, Lone
  <2> QED
    BY <2>3 DEF Lone
<1>11. \A c \in Bank : job'[c].alone => Lone(row', job'[c])
  BY <1>1, <1>3, <1>10 DEF IInv
<1>12. Distinct(row', NoJob)
  BY <1>1 DEF IInv
<1> QED
  BY <1>4, <1>5, <1>7, <1>9, <1>11, <1>12 DEF IInv

---------------------------------------------------------------------------
(* A commit, a new job, and the user *)

LEMMA StaysOrderly ==
    ASSUME NEW rows, NEW then, NEW j \in JobState, Orderly(rows, j),
           \A x \in Id : rows[x] \in PlaidRow => then[x] \in PlaidRow
    PROVE  Orderly(then, j)
<1>1. DOMAIN j.loaded \subseteq Id
  BY ObjectsAre DEF JobState
<1>2. \A x \in DOMAIN j.loaded : Seen(then, j, x) \in PlaidRow
  BY <1>1 DEF Orderly, Seen
<1> QED
  BY <1>2 DEF Orderly

LEMMA CommitIInv ==
    ASSUME IInv, NEW b \in Bank, Commit(b)
    PROVE  IInv'
<1> DEFINE j == job[b]
<1>1. /\ job'[b] = NoJob /\ job' = [job EXCEPT ![b] = NoJob]
      /\ \A c \in Bank \ {b} : job'[c] = job[c]
      /\ UNCHANGED <<rounds, edits>> /\ job' \in [Bank -> JobState] /\ j \in JobState
      /\ j.pc = "find"
  BY NoJobState DEF Commit, IInv, TypeOK
<1>2. /\ row' = [id \in Id |-> Sees(b, id)]
      /\ \A x \in Id : row'[x] = Seen(row, j, x) /\ Sees(b, x) \in SubRow \cup {NoRow}
  BY SeenTypes DEF Commit, IInv
<1>3. \A x \in Id : row[x] \in PlaidRow => row'[x] \in PlaidRow
  BY <1>2, PendingPlaid DEF Seen, IInv
<1>4. TypeOK'
  BY <1>1, <1>2 DEF IInv, TypeOK
<1>5. ASSUME NEW c \in Bank \ {b}
      PROVE  Orderly(row', job[c]) /\ Owns(row', job[c])
  <2>1. Orderly(row', job[c])
    BY <1>3, StaysOrderly DEF IInv, TypeOK
  <2>2. ASSUME NEW x \in DOMAIN job[c].pending
        PROVE  row'[x].source # "manual"
    <3>1. x \in Id /\ row[x].source # "manual"
      BY PendingPlaid DEF IInv, Owns
    <3>2. row'[x] = Seen(row, j, x)
      BY <1>2, <3>1
    <3>3. x \in DOMAIN j.pending => j.pending[x].source = "plaid"
      BY PendingPlaid DEF IInv
    <3> QED
      BY <3>1, <3>2, <3>3 DEF Seen
  <2> QED
    BY <2>1, <2>2 DEF Owns
<1>6. ASSUME NEW c \in Bank \ {b}
      PROVE  Distinct(row', job[c])
  <2>1. /\ Distinct(row, j) /\ Distinct(row, job[c]) /\ Apart(j, job[c]) /\ Apart(job[c], j)
    BY DEF IInv
  <2>2. \A x \in Id : Seen(row', job[c], x) = IF x \in DOMAIN job[c].pending
                                              THEN Seen(row, job[c], x) ELSE Seen(row, j, x)
    BY <1>2 DEF Seen
  <2>3. ASSUME NEW x \in Id, NEW y \in Id, x # y, x \in DOMAIN job[c].pending,
               y \notin DOMAIN job[c].pending,
               Seen(row, job[c], x).source = Seen(row, j, y).source,
               Seen(row, job[c], x).source # "none"
        PROVE  Seen(row, job[c], x).label # Seen(row, j, y).label
    <3>1. CASE y \in DOMAIN j.pending
      BY <2>1, <2>3, <3>1 DEF Apart, Seen
    <3>2. CASE y \notin DOMAIN j.pending
      <4>1. Seen(row, j, y) = Seen(row, job[c], y)
        BY <2>3, <3>2 DEF Seen
      <4> QED
        BY <2>1, <2>3, <4>1 DEF Distinct
    <3> QED
      BY <3>1, <3>2
  <2> QED
    BY <2>1, <2>2, <2>3 DEF Distinct
<1>7. Distinct(row', NoJob)
  <2>1. \A x \in Id : Seen(row', NoJob, x) = Seen(row, j, x)
    BY <1>2, SeenIdle
  <2>2. Distinct(row, j)
    BY DEF IInv
  <2> QED
    BY <2>1, <2>2 DEF Distinct
<1>8. \A c \in Bank : Orderly(row', job'[c]) /\ Owns(row', job'[c]) /\ Distinct(row', job'[c])
  BY <1>1, <1>5, <1>6, <1>7, IdleOrderly
<1>9. \A c, d \in Bank : c # d => Apart(job'[c], job'[d])
  BY <1>1, IdleOrderly DEF IInv
<1>10. \A c \in Bank : ~job'[c].alone
  BY <1>1, IdleOrderly DEF IInv
<1> QED
  BY <1>4, <1>7, <1>8, <1>9, <1>10 DEF IInv

\* A job beside which something happens.
LEMMA Accompanied ==
    ASSUME NEW j \in JobState, NEW k, k = [j EXCEPT !.alone = FALSE]
    PROVE  /\ k \in JobState /\ k.alone = FALSE /\ k.pc = j.pc
           /\ k.pending = j.pending
           /\ \A rows : Orderly(rows, j) => Orderly(rows, k)
           /\ \A rows : Owns(rows, j) => Owns(rows, k)
           /\ \A rows : Distinct(rows, j) => Distinct(rows, k)
<1>1. /\ k \in JobState /\ k.alone = FALSE /\ k.pc = j.pc /\ k.detected = j.detected
      /\ k.got = j.got /\ k.loaded = j.loaded /\ k.pending = j.pending
      /\ k.target = j.target /\ k.label = j.label /\ k.retry = j.retry
  BY DEF JobState
<1>2. \A rows, x : Seen(rows, k, x) = Seen(rows, j, x)
  BY <1>1 DEF Seen
<1>3. ASSUME j = NoJob PROVE k = NoJob
  <2>1. k.alone = j.alone
    BY <1>1, <1>3, IdleOrderly
  <2>2. k = j
    BY <1>1, <2>1 DEF JobState
  <2> QED
    BY <1>3, <2>2
<1>4. \A rows : Orderly(rows, j) => Orderly(rows, k)
  BY <1>1, <1>2, <1>3 DEF Orderly
<1>5. ASSUME NEW rows, Distinct(rows, j)
      PROVE  Distinct(rows, k)
  <2>1. \A x \in Id : Seen(rows, k, x) = Seen(rows, j, x)
    BY <1>2
  <2> QED
    BY <1>5, <2>1 DEF Distinct
<1>6. \A rows : Owns(rows, j) => Owns(rows, k)
  BY <1>1 DEF Owns
<1> QED
  BY <1>1, <1>4, <1>5, <1>6

LEMMA BeginIInv ==
    ASSUME IInv, NEW b \in Bank, NEW detected \in Detections, Begin(b, detected)
    PROVE  IInv'
<1> DEFINE none == \A o \in Bank : ~Running(o)
           k == [NoJob EXCEPT !.pc = "find", !.detected = detected, !.alone = none]
<1>1. /\ UNCHANGED <<row, edits>> /\ rounds' = rounds + 1
      /\ job'[b] = k
      /\ \A c \in Bank \ {b} : job'[c] = [job[c] EXCEPT !.alone = FALSE]
      /\ job' = [c \in Bank |-> job'[c]]
  BY DEF Begin
<1> HIDE DEF none
<1>2. PICK alone \in BOOLEAN : alone <=> none
  OBVIOUS
<1>3. k = [NoJob EXCEPT !.pc = "find", !.detected = detected, !.alone = alone]
  <2>1. CASE none
    BY <1>2, <2>1
  <2>2. CASE ~none
    BY <1>2, <2>2
  <2> QED
    BY <2>1, <2>2
<1> HIDE DEF k
<1>4. /\ k \in JobState /\ k.pc = "find" /\ k.detected = detected /\ (k.alone <=> none)
      /\ k.got = <<>> /\ k.loaded = <<>> /\ k.pending = <<>> /\ k.target = 0
  <2> HIDE DEF none
  <2>1. /\ k \in JobState /\ k.pc = "find" /\ k.detected = detected /\ k.alone = alone
        /\ k.got = <<>> /\ k.loaded = <<>> /\ k.pending = <<>> /\ k.target = 0
    <3>1. /\ NoJob \in JobState /\ NoJob.got = <<>> /\ NoJob.loaded = <<>>
          /\ NoJob.pending = <<>> /\ NoJob.target = 0
      BY NoJobState DEF NoJob
    <3> QED
      BY <1>3, <3>1 DEF JobState
  <2> QED
    BY <1>2, <2>1
<1>5. ToSet(<<>>) = {} /\ Len(<<>>) = 0 /\ DOMAIN <<>> = {}
  BY DEF ToSet
<1>6. Orderly(row, k) /\ Owns(row, k)
  <2>1. Len(detected) \in Nat
    BY DetectionTypes
  <2> QED
    BY <1>4, <1>5, <2>1 DEF Orderly, Owns
<1>7. \A x : Seen(row, k, x) = row[x]
  BY <1>4, <1>5 DEF Seen
<1>8. Distinct(row, k)
  BY <1>7, SeenIdle DEF Distinct, IInv
<1>9. Lone(row, k)
  BY <1>4, <1>5 DEF Lone, Fresh, Aimed, Outcomes
<1>10. ASSUME NEW c \in Bank \ {b}
       PROVE  /\ job'[c] \in JobState /\ job'[c].alone = FALSE
              /\ job'[c].pc = job[c].pc
              /\ job'[c].pending = job[c].pending
              /\ Orderly(row, job'[c]) /\ Owns(row, job'[c]) /\ Distinct(row, job'[c])
  <2>1. job[c] \in JobState /\ Orderly(row, job[c]) /\ Owns(row, job[c]) /\ Distinct(row, job[c])
    BY DEF IInv, TypeOK
  <2>2. job'[c] = [job[c] EXCEPT !.alone = FALSE]
    BY <1>1
  <2> QED
    BY <2>1, <2>2, Accompanied
<1>11. TypeOK'
  <2>1. \A c \in Bank : job'[c] \in JobState
    BY <1>1, <1>4, <1>10
  <2>2. job' \in [Bank -> JobState]
    BY <1>1, <2>1
  <2> QED
    BY <1>1, <2>2 DEF IInv, TypeOK
<1>12. \A c, d \in Bank : c # d => Apart(job'[c], job'[d])
  <2>1. \A c \in Bank \ {b} : Apart(k, job'[c]) /\ Apart(job'[c], k)
    BY <1>4, <1>5 DEF Apart
  <2>2. ASSUME NEW c \in Bank \ {b}, NEW d \in Bank \ {b}, c # d
        PROVE  Apart(job'[c], job'[d])
    <3>1. /\ Apart(job[c], job[d])
          /\ job'[c].pending = job[c].pending /\ job'[d].pending = job[d].pending
      BY <1>10, <2>2 DEF IInv
    <3> QED
      BY <3>1 DEF Apart
  <2> QED
    BY <1>1, <2>1, <2>2
<1>13. \A c, d \in Bank : job'[c].alone /\ c # d => job'[d].pc = "idle"
  BY <1>1, <1>4, <1>10 DEF Running, none
<1>14. Distinct(row', NoJob)
  BY <1>1 DEF IInv
<1>15. \A c \in Bank : Orderly(row', job'[c]) /\ Owns(row', job'[c]) /\ Distinct(row', job'[c])
  BY <1>1, <1>6, <1>8, <1>10
<1>16. \A c \in Bank : job'[c].alone => Lone(row', job'[c])
  BY <1>1, <1>9, <1>10
<1> QED
  BY <1>11, <1>12, <1>13, <1>14, <1>15, <1>16 DEF IInv

LEMMA EditedIInv ==
    ASSUME IInv, Edited, NEW id \in Id, NEW r \in SubRow, row' = [x \in Id |-> IF x = id THEN r ELSE row[x]],
           row[id] \in PlaidRow => r \in PlaidRow, Locked(id) = {},
           \A b \in Bank : \A x \in Id \ {id} :
               Seen(row, job[b], x).source = r.source => Seen(row, job[b], x).label # r.label,
           \A x \in Id \ {id} : row[x].source = r.source => row[x].label # r.label
    PROVE  IInv'
<1>1. /\ rounds' = rounds /\ edits' = edits + 1
      /\ job' = [c \in Bank |-> job'[c]]
      /\ \A c \in Bank : job'[c] = [job[c] EXCEPT !.alone = FALSE]
  BY DEF Edited
<1>2. /\ row' \in [Id -> SubRow \cup {NoRow}] /\ row'[id] = r
      /\ \A x \in Id \ {id} : row'[x] = row[x]
  BY DEF IInv, TypeOK
<1>3. \A x \in Id : row[x] \in PlaidRow => row'[x] \in PlaidRow
  BY <1>2
<1>4. ASSUME NEW c \in Bank
      PROVE  /\ job'[c] \in JobState /\ job'[c].alone = FALSE
             /\ job'[c].pc = job[c].pc /\ job'[c].pending = job[c].pending
             /\ Orderly(row', job'[c]) /\ Owns(row', job'[c]) /\ Distinct(row', job'[c])
  <2>1. job[c] \in JobState /\ Orderly(row', job[c])
    BY <1>3, StaysOrderly DEF IInv, TypeOK
  <2>2. Distinct(row', job[c])
    <3>1. id \notin DOMAIN job[c].pending
      BY DEF Locked
    <3>2. \A x \in Id : Seen(row', job[c], x) = IF x = id THEN r ELSE Seen(row, job[c], x)
      BY <1>2, <3>1 DEF Seen
    <3>3. Distinct(row, job[c])
      BY DEF IInv
    <3>4. ASSUME NEW x \in Id \ {id}, Seen(row, job[c], x).source = r.source
          PROVE  Seen(row, job[c], x).label # r.label
      BY <3>4
    <3> QED
      BY <3>2, <3>3, <3>4 DEF Distinct
  <2>3. job'[c] = [job[c] EXCEPT !.alone = FALSE]
    BY <1>1
  <2>4. Owns(row', job[c])
    BY <1>2, PendingPlaid DEF IInv, Owns, Locked
  <2> QED
    BY <2>1, <2>2, <2>3, <2>4, Accompanied
<1>5. Distinct(row', NoJob)
  <2>1. Distinct(row, NoJob)
    BY DEF IInv
  <2>2. \A x \in Id : /\ Seen(row', NoJob, x) = IF x = id THEN r ELSE Seen(row, NoJob, x)
                     /\ Seen(row, NoJob, x) = row[x]
    BY <1>2, SeenIdle
  <2> QED
    BY <2>1, <2>2 DEF Distinct
<1>6. TypeOK'
  <2>1. job' \in [Bank -> JobState]
    BY <1>1, <1>4
  <2> QED
    BY <1>1, <1>2, <2>1 DEF IInv, TypeOK
<1>7. ASSUME NEW c \in Bank, NEW d \in Bank, c # d
      PROVE  Apart(job'[c], job'[d])
  <2>1. /\ Apart(job[c], job[d])
        /\ job'[c].pending = job[c].pending /\ job'[d].pending = job[d].pending
    BY <1>4, <1>7 DEF IInv
  <2> QED
    BY <2>1 DEF Apart
<1> QED
  BY <1>4, <1>5, <1>6, <1>7 DEF IInv

\* A row that keeps its source and its label keeps its place.
LEMMA KeepsPlace ==
    ASSUME IInv, NEW id \in Id, Locked(id) = {}, row[id].source # "none"
    PROVE  /\ row[id] \in SubRow
           /\ \A b \in Bank : \A x \in Id \ {id} :
                  Seen(row, job[b], x).source = row[id].source =>
                      Seen(row, job[b], x).label # row[id].label
           /\ \A x \in Id \ {id} : row[x].source = row[id].source => row[x].label # row[id].label
<1>1. row[id] \in SubRow
  BY RowTypes DEF IInv, TypeOK
<1>2. ASSUME NEW b \in Bank, NEW x \in Id \ {id},
             Seen(row, job[b], x).source = row[id].source
      PROVE  Seen(row, job[b], x).label # row[id].label
  <2>1. Seen(row, job[b], id) = row[id] /\ Distinct(row, job[b])
    BY DEF Locked, Seen, IInv
  <2> QED
    BY <1>2, <2>1 DEF Distinct
<1>3. ASSUME NEW x \in Id \ {id}, row[x].source = row[id].source
      PROVE  row[x].label # row[id].label
  <2>1. /\ Seen(row, NoJob, id) = row[id] /\ Seen(row, NoJob, x) = row[x]
        /\ Distinct(row, NoJob)
    BY SeenIdle DEF IInv
  <2> QED
    BY <1>3, <2>1 DEF Distinct
<1> QED
  BY <1>1, <1>2, <1>3

LEMMA DeleteIInv ==
    ASSUME IInv, NEW id \in Id, Delete(id)
    PROVE  IInv'
<1> DEFINE r == [row[id] EXCEPT !.active = FALSE]
<1>1. /\ row[id].source # "none" /\ Locked(id) = {} /\ row' = [x \in Id |-> IF x = id THEN r ELSE row[x]] /\ Edited
  BY DEF Delete, IInv, TypeOK
<1>2. /\ r \in SubRow /\ r.source = row[id].source /\ r.label = row[id].label
      /\ row[id] \in PlaidRow => r \in PlaidRow
  BY <1>1, KeepsPlace DEF SubRow, PlaidRow, RowOf
<1> HIDE DEF r
<1> QED
  BY <1>1, <1>2, KeepsPlace, EditedIInv

LEMMA EditIInv ==
    ASSUME IInv, NEW id \in Id, NEW label \in UserLabels, NEW amount \in UserAmounts,
           Edit(id, label, amount)
    PROVE  IInv'
<1> DEFINE r == [row[id] EXCEPT !.label = label, !.amount = amount]
<1>1. /\ row[id].source # "none" /\ Locked(id) = {} /\ Holders(label, row[id].source) = {}
      /\ row' = [x \in Id |-> IF x = id THEN r ELSE row[x]] /\ Edited
      /\ \A x \in Id \ {id} : row[x].source = row[id].source => row[x].label # label
  BY DEF Edit, IInv, TypeOK
<1>2. label \in Labels /\ amount \in Price
  BY UpsertAssumption DEF Labels, Price
<1>3. /\ r \in SubRow /\ r.source = row[id].source /\ r.label = label
      /\ row[id] \in PlaidRow => r \in PlaidRow
  BY <1>1, <1>2, KeepsPlace DEF SubRow, PlaidRow, RowOf
<1>4. ASSUME NEW b \in Bank, NEW x \in Id \ {id}, Seen(row, job[b], x).source = r.source
      PROVE  Seen(row, job[b], x).label # r.label
  BY <1>1, <1>3, <1>4 DEF Holders, Seen
<1> HIDE DEF r
<1> QED
  BY <1>1, <1>3, <1>4, EditedIInv

LEMMA AddManualIInv ==
    ASSUME IInv, NEW id \in Id, NEW label \in UserLabels, NEW amount \in UserAmounts,
           AddManual(id, label, amount)
    PROVE  IInv'
<1> DEFINE same == {x \in Id : row[x].source = "manual" /\ row[x].label = label}
<1>1. label \in Labels /\ amount \in Price
  BY UpsertAssumption DEF Labels, Price
<1>2. Edited
  BY DEF AddManual
<1>3. CASE same = {}
  <2> DEFINE r == Subscription(label, NoKey, amount, "manual", NoBank)
  <2>1. id \in Free /\ row' = [x \in Id |-> IF x = id THEN r ELSE row[x]]
    BY <1>3 DEF AddManual, IInv, TypeOK
  <2>2. r \in SubRow /\ r.source = "manual" /\ r.label = label
    BY <1>1 DEF Subscription, SubRow, RowOf, Key
  <2> HIDE DEF r
  <2>3. Locked(id) = {} /\ row[id] \notin PlaidRow
    BY <2>1, RowTypes DEF Free
  <2>4. \A x \in Id \ {id} : row[x].source = r.source => row[x].label # r.label
    BY <1>3, <2>2
  <2>5. \A b \in Bank : \A x \in Id \ {id} :
            Seen(row, job[b], x).source = r.source => Seen(row, job[b], x).label # r.label
    BY <2>2, <2>4, PendingPlaid DEF Seen, IInv
  <2> QED
    BY <1>2, <2>1, <2>2, <2>3, <2>4, <2>5, EditedIInv
<1>4. CASE same # {}
  <2> DEFINE r == [row[id] EXCEPT !.amount = amount, !.active = TRUE]
  <2>1. row[id].source = "manual" /\ row' = [x \in Id |-> IF x = id THEN r ELSE row[x]]
    BY <1>4 DEF AddManual, IInv, TypeOK
  <2>2. \A b \in Bank : id \notin DOMAIN job[b].pending
    <3>1. ASSUME NEW b \in Bank, id \in DOMAIN job[b].pending
          PROVE  FALSE
      BY <2>1, <3>1 DEF IInv, Owns
    <3> QED
      BY <3>1
  <2>3. Locked(id) = {}
    BY <2>2 DEF Locked
  <2>4. /\ r \in SubRow /\ r.source = row[id].source /\ r.label = row[id].label
        /\ row[id] \in PlaidRow => r \in PlaidRow
    BY <1>1, <2>1, <2>3, KeepsPlace DEF SubRow, PlaidRow, RowOf
  <2> HIDE DEF r
  <2> QED
    BY <1>2, <2>1, <2>3, <2>4, KeepsPlace, EditedIInv
<1> QED
  BY <1>3, <1>4

LEMMA StepIInv == IInv /\ [Next]_vars => IInv'
<1> SUFFICES ASSUME IInv, [Next]_vars PROVE IInv'
  OBVIOUS
<1>1. ASSUME NEW b \in Bank, JobStep(b) PROVE IInv'
  BY <1>1, MoveIInv, CommitIInv
<1>2. ASSUME NEW b \in Bank, NEW detected \in Detections, Begin(b, detected) PROVE IInv'
  BY <1>2, BeginIInv
<1>3. ASSUME NEW id \in Id, Delete(id) PROVE IInv'
  BY <1>3, DeleteIInv
<1>4. ASSUME NEW id \in Id, NEW label \in UserLabels, NEW amount \in UserAmounts,
             Edit(id, label, amount) \/ AddManual(id, label, amount)
      PROVE  IInv'
  BY <1>4, EditIInv, AddManualIInv
<1>5. CASE UNCHANGED vars
  BY <1>5 DEF vars, IInv, TypeOK, Lone
<1> QED
  BY <1>1, <1>2, <1>3, <1>4, <1>5 DEF Next

THEOREM IInvInvariant == Spec => []IInv
<1> QED
  BY InitIInv, StepIInv, PTL DEF Spec

\* Types: in particular, a session holds rows of the user, and a job that
\* writes has a label that a detection or the user gave.
THEOREM TypeCorrect == Spec => []TypeOK
<1>1. IInv => TypeOK
  BY DEF IInv
<1> QED
  BY <1>1, IInvInvariant, PTL

\* The unique index of db/models.py holds of the committed table, although a write
\* is compared with committed rows only and waits for whoever holds its label: no
\* two subscriptions of one source have one label.
LabelsUnique ==
    \A x, y \in Id :
        x # y /\ row[x].source # "none" /\ row[x].source = row[y].source => row[x].label # row[y].label

THEOREM IndexHolds == Spec => []LabelsUnique
<1>1. IInv => LabelsUnique
  <2>1. \A x : Seen(row, NoJob, x) = row[x]
    BY SeenIdle
  <2> QED
    BY <2>1 DEF IInv, Distinct, LabelsUnique
<1> QED
  BY <1>1, IInvInvariant, PTL

---------------------------------------------------------------------------
(* What a job commits *)

LEMMA CommitCases ==
    ASSUME IInv, NEW b \in Bank, CommitsAlone(b)
    PROVE  /\ Orderly(row, job[b]) /\ Lone(row, job[b]) /\ job[b].alone
           /\ \A x \in Id : row'[x] = Seen(row, job[b], x) /\ Sees(b, x) = Seen(row, job[b], x)
           /\ DOMAIN job[b].got = 1..Len(job[b].detected)
           /\ DOMAIN job[b].got = DOMAIN job[b].detected
           /\ \A i \in DOMAIN job[b].got :
                  /\ job[b].got[i] \in Id \cup {0}
                  /\ job[b].detected[i] \in ToSet(job[b].detected)
           /\ \A d \in ToSet(job[b].detected) :
                  \E i \in DOMAIN job[b].got : job[b].detected[i] = d
<1> DEFINE j == job[b]
<1>1. Commit(b) /\ j.alone /\ ~More(b)
  BY DEF CommitsAlone, Commit
<1>2. /\ j \in JobState /\ Orderly(row, j) /\ Lone(row, j)
  BY <1>1 DEF IInv, TypeOK
<1>3. \A x \in Id : row'[x] = Seen(row, j, x) /\ Sees(b, x) = Seen(row, j, x)
  BY <1>1, SeenTypes DEF Commit, IInv
<1>4. /\ Len(j.got) \in Nat /\ Len(j.detected) \in Nat
      /\ DOMAIN j.got = 1..Len(j.got) /\ DOMAIN j.detected = 1..Len(j.detected)
  BY HandIsSub DEF IInv
<1>5. Len(j.got) = Len(j.detected)
  BY <1>1, <1>2, <1>4 DEF More, Orderly
<1>6. ToSet(j.detected) = {j.detected[i] : i \in DOMAIN j.detected}
  BY DEF ToSet
<1>7. \A i \in DOMAIN j.got : j.got[i] \in Id \cup {0}
  BY <1>2 DEF JobState
<1> QED
  BY <1>1, <1>2, <1>3, <1>4, <1>5, <1>6, <1>7

\* "one row per detection this round" (_find_existing, claimed): two detections
\* of one job never end on one row.
THEOREM EachDetectionKept == Spec => DetectionsKept
<1>1. ASSUME IInv, NEW b \in Bank, CommitsAlone(b), NEW d \in ToSet(job[b].detected)
      PROVE  \/ \E id \in Plaid(row', d.key) : row'[id].amount = d.amount
             \/ \E id \in Detected : /\ ~row[id].active
                                     /\ row[id].key = d.key \/ row[id].label = d.label
             \/ /\ Taken(b, d.label, 0)
                /\ \/ Taken(b, Suffixed(d), 0)
                   \/ \E id \in Detected : row[id].label = Suffixed(d)
  <2> DEFINE j == job[b]
  <2>1. PICK i \in DOMAIN j.got : j.detected[i] = d
    BY <1>1, CommitCases
  <2>2. /\ Settled(row, j, d, j.got[i]) /\ j.got[i] \in Id \cup {0}
        /\ \A x \in Id : row'[x] = Seen(row, j, x) /\ Sees(b, x) = Seen(row, j, x)
    BY <1>1, <2>1, CommitCases DEF Lone, Outcomes
  <2>3. \A label : Fixed(row, j, label) => Taken(b, label, 0)
    <3>1. 0 \notin Id
      BY UpsertAssumption DEF Id
    <3> QED
      BY <2>2, <3>1 DEF Fixed, Taken
  <2> DEFINE g == j.got[i]
  <2> HIDE DEF g, j
  <2>4. CASE g # 0 /\ Carries(Seen(row, j, g), d)
    BY <2>2, <2>4 DEF Carries, Plaid, g
  <2>5. CASE /\ g # 0 /\ row[g].source = "plaid" /\ ~row[g].active
             /\ row[g].key = d.key \/ row[g].label = d.label
    BY <2>2, <2>5 DEF Detected, g
  <2>6. CASE /\ Fixed(row, j, d.label)
             /\ \/ Fixed(row, j, Suffixed(d))
                \/ \E x \in Id : row[x].source = "plaid" /\ row[x].label = Suffixed(d)
    BY <2>3, <2>6 DEF Detected
  <2> QED
    BY <2>2, <2>4, <2>5, <2>6 DEF Settled, g
<1> DEFINE Kept == \A b \in Bank : CommitsAlone(b) =>
                       \A d \in ToSet(job[b].detected) :
                           \/ \E id \in Plaid(row', d.key) : row'[id].amount = d.amount
                           \/ \E id \in Detected : /\ ~row[id].active
                                                   /\ row[id].key = d.key \/ row[id].label = d.label
                           \/ /\ Taken(b, d.label, 0)
                              /\ \/ Taken(b, Suffixed(d), 0)
                                 \/ \E id \in Detected : row[id].label = Suffixed(d)
<1>2. IInv => Kept
  BY <1>1
<1>3. Spec => [][Kept]_vars
  BY <1>2, IInvInvariant, PTL DEF Spec
<1> QED
  BY <1>3 DEF DetectionsKept

---------------------------------------------------------------------------
(* Twins, known subscriptions, and lost races *)

LEMMA AloneCases ==
    ASSUME IInv, [Next]_vars, NEW c \in Bank, job'[c].alone
    PROVE  /\ row' = row
           /\ \/ job'[c] = job[c]
              \/ /\ Moved(c, job'[c]) /\ job[c].alone
                 /\ job'[c].detected = job[c].detected
              \/ job'[c].pc = "find" /\ job'[c].got = <<>> /\ job'[c].pending = <<>>
<1>1. NoJob.alone = FALSE /\ NoJob.pc = "idle"
  BY IdleOrderly
<1>2. ASSUME NEW b \in Bank, JobStep(b), ~Commit(b)
      PROVE  /\ row' = row
             /\ \/ job'[c] = job[c]
                \/ /\ Moved(c, job'[c]) /\ job[c].alone
                   /\ job'[c].detected = job[c].detected
  <2>1. /\ row' = row /\ job' = [job EXCEPT ![b] = job'[b]] /\ Moved(b, job'[b])
    BY <1>2, JobCases DEF IInv
  <2>2. CASE b = c
    BY <1>1, <2>1, <2>2, MovedAlone DEF IInv
  <2>3. CASE b # c
    BY <2>1, <2>3 DEF IInv, TypeOK
  <2> QED
    BY <2>1, <2>2, <2>3
<1>3. ASSUME NEW b \in Bank
      PROVE  ~Commit(b)
  <2>1. SUFFICES ASSUME Commit(b) PROVE FALSE
    OBVIOUS
  <2>2. job' = [job EXCEPT ![b] = NoJob] /\ job[b].pc = "find"
    BY <2>1 DEF Commit
  <2>3. b # c /\ job[c].alone
    BY <1>1, <2>2 DEF IInv, TypeOK
  <2> QED
    BY <2>2, <2>3 DEF IInv
<1>4. ASSUME NEW b \in Bank, NEW detected \in Detections, Begin(b, detected)
      PROVE  row' = row /\ job'[c].pc = "find" /\ job'[c].got = <<>> /\ job'[c].pending = <<>>
  <2>1. row' = row
    BY <1>4 DEF Begin
  <2>2. b = c
    <3>1. SUFFICES ASSUME b # c PROVE FALSE
      OBVIOUS
    <3>2. job'[c] = [job[c] EXCEPT !.alone = FALSE] /\ job[c] \in JobState
      BY <1>4, <3>1 DEF Begin, IInv, TypeOK
    <3> QED
      BY <3>2, Accompanied
  <2>3. job'[c] = [NoJob EXCEPT !.pc = "find", !.detected = detected,
                                !.alone = \A o \in Bank : ~Running(o)]
    BY <1>4, <2>2 DEF Begin
  <2> QED
    BY <2>1, <2>3 DEF NoJob
<1>5. ~Edited
  <2>1. SUFFICES ASSUME Edited PROVE FALSE
    OBVIOUS
  <2>2. job'[c] = [job[c] EXCEPT !.alone = FALSE] /\ job[c] \in JobState
    BY <2>1 DEF Edited, IInv, TypeOK
  <2> QED
    BY <2>2, Accompanied
<1>6. \A id \in Id : /\ ~Delete(id)
                     /\ \A label \in UserLabels, amount \in UserAmounts :
                           ~Edit(id, label, amount) /\ ~AddManual(id, label, amount)
  BY <1>5 DEF Delete, Edit, AddManual
<1>7. CASE UNCHANGED vars
  BY <1>7 DEF vars
<1> QED
  BY <1>2, <1>3, <1>4, <1>6, <1>7 DEF Next

\* A job that begins sees the committed rows.
LEMMA BeginsSeen ==
    ASSUME NEW rows, NEW k, k.got = <<>>, k.pending = <<>>
    PROVE  /\ DOMAIN k.got = {} /\ \A x : Seen(rows, k, x) = rows[x]
           /\ Taker(rows, k) /\ TwinFree(rows, k)
<1>1. DOMAIN k.got = {} /\ \A x : Seen(rows, k, x) = rows[x]
  BY DEF Seen
<1> QED
  BY <1>1 DEF Taker, TwinFree

LEMMA StepTwins ==
    ASSUME DistinctPlans, IInv, Twins, [Next]_vars
    PROVE  Twins'
<1>1. SUFFICES ASSUME NEW c \in Bank, job'[c].alone
               PROVE  Taker(row', job'[c]) /\ TwinFree(row', job'[c])
  BY DEF Twins
<1>2. row' = row
  BY <1>1, AloneCases
<1>3. CASE job'[c] = job[c]
  BY <1>1, <1>2, <1>3 DEF Twins
<1>4. CASE Moved(c, job'[c]) /\ job[c].alone
  BY <1>2, <1>4, MovedTwins DEF Twins, IInv
<1>5. CASE job'[c].got = <<>> /\ job'[c].pending = <<>>
  BY <1>5, BeginsSeen
<1> QED
  BY <1>1, <1>3, <1>4, <1>5, AloneCases

LEMMA StepRepeating ==
    ASSUME DistinctPlans, IInv, Repeating, [Next]_vars
    PROVE  Repeating'
<1>1. SUFFICES ASSUME NEW c \in Bank, job'[c].alone, Known(row', job'[c])
               PROVE  Repeats(row', c, job'[c])
  BY DEF Repeating
<1>2. row' = row
  BY <1>1, AloneCases
<1>3. CASE job'[c] = job[c]
  BY <1>1, <1>2, <1>3 DEF Repeating
<1>4. CASE Moved(c, job'[c]) /\ job[c].alone /\ job'[c].detected = job[c].detected
  <2>1. Known(row, job[c])
    BY <1>1, <1>2, <1>4 DEF Known
  <2>2. Repeats(row, c, job[c])
    BY <1>4, <2>1 DEF Repeating
  <2> QED
    BY <1>2, <1>4, <2>1, <2>2, MovedRepeats DEF IInv
<1>5. CASE job'[c].pc = "find" /\ job'[c].got = <<>> /\ job'[c].pending = <<>>
  <2>1. DOMAIN job'[c].got = {} /\ \A x : Seen(row', job'[c], x) = row'[x]
    BY <1>5, BeginsSeen
  <2> QED
    BY <1>5, <2>1 DEF Repeats
<1> QED
  BY <1>1, <1>3, <1>4, <1>5, AloneCases

LEMMA InitAlone == Init => Twins /\ Repeating
<1>1. ASSUME Init, NEW b \in Bank PROVE ~job[b].alone
  BY <1>1, IdleOrderly DEF Init
<1> QED
  BY <1>1 DEF Twins, Repeating

\* A sync makes no second active subscription of one merchant and one amount:
\* an exact amount is the closest one, so a detection finds the row that has it
\* (_find_existing).
THEOREM TwinsNeverMade ==
    ASSUME DistinctPlans
    PROVE  Spec => NoTwins
<1>1. Init => IInv /\ Twins
  BY InitIInv, InitAlone
<1>2. IInv /\ Twins /\ [Next]_vars => (IInv /\ Twins)'
  BY StepIInv, StepTwins
<1>3. ASSUME IInv, Twins, NEW b \in Bank, CommitsAlone(b), NEW key,
             NEW x \in Plaid(row', key), NEW y \in Plaid(row', key), x # y,
             row'[x].active, row'[y].active, row'[x].amount = row'[y].amount
      PROVE  row[x] # NoRow /\ row[y] # NoRow /\ row[x].amount = row[y].amount
  <2>1. TwinFree(row, job[b]) /\ \A id \in Id : row'[id] = Seen(row, job[b], id)
    BY <1>3, CommitCases DEF Twins
  <2>2. /\ row[x].source = "plaid" /\ row[y].source = "plaid"
        /\ row[x].amount = row[y].amount
    BY <1>3, <2>1 DEF Plaid, TwinFree
  <2> QED
    BY <2>2, RowTypes
<1> DEFINE NoneMade == \A b \in Bank : CommitsAlone(b) =>
                        \A key \in {d.key : d \in ToSet(job[b].detected)} :
                            \A x, y \in Plaid(row', key) :
                                /\ x # y
                                /\ row'[x].active /\ row'[y].active
                                /\ row'[x].amount = row'[y].amount
                                => /\ row[x] # NoRow /\ row[y] # NoRow
                                   /\ row[x].amount = row[y].amount
<1>4. IInv /\ Twins => NoneMade
  BY <1>3
<1>5. Spec => [][NoneMade]_vars
  BY <1>1, <1>2, <1>4, PTL DEF Spec
<1> QED
  BY <1>5 DEF NoTwins

\* A sync of what is known already leaves every row as it is, but for a bank
\* that was missing and a label that was not its detection's, or that a manual
\* subscription has as well (_resolve_label, the backfill of linked_account_id).
THEOREM KnownNeverChanges ==
    ASSUME DistinctPlans
    PROVE  Spec => KnownStays
<1> DEFINE Repeated(b) ==
               /\ CommitsAlone(b)
               /\ \A d \in ToSet(job[b].detected) :
                     \E id \in Plaid(row, d.key) : row[id].amount = d.amount
               /\ \A x, y \in Detected : x # y => row[x].amount # row[y].amount
           Stays(b, id) ==
               \E d \in ToSet(job[b].detected) :
                   /\ row'[id] = [row[id] EXCEPT !.label = row'[id].label,
                                                !.bank = IF @ = NoBank THEN b ELSE @]
                   /\ row[id].key = d.key /\ row[id].amount = d.amount
                   /\ \/ row[id].label = d.label => row'[id].label = d.label
                      \/ \E m \in Id : row[m].source = "manual" /\ row[m].label = d.label
<1>1. Init => IInv /\ Repeating
  BY InitIInv, InitAlone
<1>2. IInv /\ Repeating /\ [Next]_vars => (IInv /\ Repeating)'
  BY StepIInv, StepRepeating
<1>3. ASSUME IInv, Repeating, NEW b \in Bank, Repeated(b), NEW id \in Id, row'[id] # row[id]
      PROVE  Stays(b, id)
  <2> DEFINE j == job[b]
  <2>1. Known(row, j)
    BY <1>3 DEF Known, Carries, Plaid, Detected
  <2>2. Repeats(row, b, j) /\ row'[id] = Seen(row, j, id)
    BY <1>3, <2>1, CommitCases DEF Repeating
  <2>3. PICK i \in DOMAIN j.got :
            j.got[i] = id /\ Renamed(row, b, row[id], row'[id], j.detected[i])
    BY <1>3, <2>2 DEF Repeats
  <2>4. Carries(row[id], j.detected[i]) /\ j.detected[i] \in ToSet(j.detected)
    BY <1>3, <2>2, <2>3, CommitCases DEF Repeats
  <2> QED
    BY <2>3, <2>4 DEF Renamed, Carries
<1> DEFINE Stay == \A b \in Bank : Repeated(b) => \A id \in Id : row'[id] # row[id] => Stays(b, id)
<1>4. IInv /\ Repeating => Stay
  BY <1>3
<1>5. Spec => [][Stay]_vars
  BY <1>1, <1>2, <1>4, PTL DEF Spec
<1> QED
  BY <1>5 DEF KnownStays

\* The insert that loses the race for the label of its detection degrades to
\* an update: the row of the winner is among the next look's matches
\* (upsert_detected_subscriptions, except IntegrityError).
THEOREM LoserDegrades == Spec => LoserFindsRow
<1> DEFINE Loses(b) ==
               /\ InsertLost(b)
               /\ job[b].label = Sub(b).label
               /\ \A id \in Detected \cap ToSet(job[b].got) : row[id].label # job[b].label
<1>1. ASSUME IInv, NEW b \in Bank, Loses(b)
      PROVE  Matches(b)' # {}
  <2> DEFINE j == job[b]
  <2>1. /\ j \in JobState /\ Orderly(row, j) /\ Sub(b) = Hand(j)
        /\ j.pc = "write" /\ j.target = 0 /\ LabelLost(b) /\ row' = row
        /\ job' = [job EXCEPT ![b] = [j EXCEPT !.pc = "find", !.retry = TRUE]]
    BY <1>1, HandIsSub DEF InsertLost, Moves, IInv, TypeOK
  <2>2. PICK other \in Id : Sees(b, other).source = "plaid" /\ Sees(b, other).label = j.label
    BY <2>1 DEF LabelLost, Violates
  <2>3. other \notin DOMAIN j.pending
    BY <2>1, <2>2 DEF Orderly, Sees
  <2>4. row[other].source = "plaid" /\ row[other].label = Sub(b).label
    BY <1>1, <2>2, <2>3 DEF Sees
  <2>5. other \notin ToSet(j.got)
    BY <1>1, <2>4 DEF Detected
  <2>6. job'[b].got = j.got /\ job'[b].detected = j.detected /\ job'[b].pending = j.pending
    BY <2>1 DEF IInv, TypeOK, JobState
  <2>7. Sub(b)' = Sub(b) /\ Sees(b, other)' = row[other]
    BY <2>1, <2>3, <2>6 DEF Sub, Sees
  <2>8. other \in Candidates(b)'
    BY <2>4, <2>5, <2>6, <2>7 DEF Candidates
  <2> QED
    BY <2>4, <2>7, <2>8 DEF Matches
<1> DEFINE Degrades == \A b \in Bank : Loses(b) => Matches(b)' # {}
<1>2. IInv => Degrades
  BY <1>1
<1>3. Spec => [][Degrades]_vars
  BY <1>2, IInvInvariant, PTL DEF Spec
<1> QED
  BY <1>3 DEF LoserFindsRow

---------------------------------------------------------------------------
(* Induction over the naturals, as a fact about sets of them *)

\* The order that the induction is on.
Below == OpToRel(<, Nat)

\* A set of naturals has a least element, by the well-foundedness of <.
LEMMA LeastNatural ==
    ASSUME NEW T, T \subseteq Nat, T # {}
    PROVE  \E x \in T : \A y \in T : x <= y
<1>1. PICK x \in T : \A y \in T : ~(<<y, x>> \in Below)
  BY NatLessThanWellFounded, WFMin DEF Below
<1>2. \A y \in T : y < x => <<y, x>> \in Below
  BY DEF Below, OpToRel
<1>3. ASSUME NEW y \in T PROVE x <= y
  <2>1. x \in Nat /\ y \in Nat /\ ~(y < x)
    BY <1>1, <1>2
  <2> QED
    BY <2>1
<1> QED
  BY <1>3

\* Induction, about a set of naturals.
LEMMA Induction ==
    ASSUME NEW S, 0 \in S, \A n \in Nat : n \in S => n + 1 \in S
    PROVE  Nat \subseteq S
<1>1. SUFFICES ASSUME Nat \ S # {} PROVE FALSE
  OBVIOUS
<1>2. PICK x \in Nat \ S : \A y \in Nat \ S : x <= y
  BY <1>1, LeastNatural
<1>3. x # 0 /\ x - 1 \in Nat /\ x = (x - 1) + 1
  BY <1>2
<1>4. x - 1 \in S
  BY <1>2, <1>3
<1> QED
  BY <1>2, <1>3, <1>4

\* A function that is defined by recursion from m up to n exists, with the type
\* that its steps keep.
Recurs(f, a, D, m, n) == f[m] = a /\ \A i \in (m + 1)..n : f[i] = D[i][f[i - 1]]

\* A recursion from m up to n has a function, with the type that its steps keep.
LEMMA Recursion ==
    ASSUME NEW T, NEW a \in T, NEW m \in Nat, NEW n \in Nat, m <= n,
           NEW l, l = m + 1, NEW D \in [l..n -> [T -> T]]
    PROVE  \E f \in [m..n -> T] : Recurs(f, a, D, m, n)
<1> DEFINE Defined(f, k) == \A i \in m..k : f[i] = IF i = m THEN a ELSE D[i][f[i - 1]]
           Exists(k) == \E f \in [m..k -> T] : Defined(f, k)
           S == {k \in Nat : m + k <= n => Exists(m + k)}
<1>1. Exists(m)
  <2> DEFINE f == [i \in m..m |-> a]
  <2>1. f \in [m..m -> T] /\ Defined(f, m)
    OBVIOUS
  <2> QED
    BY <2>1
<1>2. ASSUME NEW k \in m..n, k + 1 <= n, Exists(k) PROVE Exists(k + 1)
  <2>2. PICK f \in [m..k -> T] : Defined(f, k)
    BY <1>2
  <2> DEFINE j == k + 1
             d == D[j][f[k]]
             g == [i \in m..j |-> IF i = j THEN d ELSE f[i]]
  <2>3. k \in m..k /\ j \in (m + 1)..n /\ j - 1 = k /\ j # m
    BY <1>2
  <2>4. d \in T
    <3>1. f[k] \in T
      BY <2>2, <2>3
    <3>2. D[j] \in [T -> T]
      BY <2>3
    <3> QED
      BY <3>1, <3>2
  <2> HIDE DEF d
  <2>5. g \in [m..j -> T]
    <3>1. ASSUME NEW i \in m..j, i # j PROVE f[i] \in T
      <4>1. i \in m..k
        BY <3>1, <1>2
      <4> QED
        BY <4>1
    <3> QED
      BY <2>4, <3>1
  <2>6. ASSUME NEW i \in m..j
        PROVE  g[i] = IF i = m THEN a ELSE D[i][g[i - 1]]
    <3>1. CASE i = j
      <4>1. g[i] = d /\ g[k] = f[k]
        BY <3>1, <2>3
      <4> QED
        BY <4>1, <3>1, <2>3 DEF d
    <3>2. CASE i # j
      <4>1. i \in m..k /\ (i # m => i - 1 \in m..j /\ i - 1 # j)
        BY <3>2, <1>2
      <4>2. g[i] = f[i] /\ (i # m => g[i - 1] = f[i - 1])
        BY <4>1, <3>2
      <4> HIDE DEF g
      <4> QED
        BY <4>1, <4>2, <2>2
    <3> QED
      BY <3>1, <3>2
  <2> HIDE DEF g
  <2>7. Defined(g, j)
    BY <2>6
  <2> QED
    BY <2>5, <2>7
<1> HIDE DEF Exists
<1>3. Exists(n)
  <2>1. 0 \in S
    BY <1>1
  <2>2. ASSUME NEW k \in Nat, k \in S PROVE k + 1 \in S
    <3> SUFFICES ASSUME m + (k + 1) <= n PROVE Exists(m + (k + 1))
      OBVIOUS
    <3>1. m + k \in m..n /\ (m + k) + 1 <= n /\ Exists(m + k) /\ (m + k) + 1 = m + (k + 1)
      BY <2>2
    <3> QED
      BY <3>1, <1>2
  <2>3. n - m \in Nat /\ m + (n - m) = n
    OBVIOUS
  <2> HIDE DEF S
  <2>4. n - m \in S
    BY <2>1, <2>2, <2>3, Induction
  <2> QED
    BY <2>3, <2>4 DEF S
<1>4. PICK f \in [m..n -> T] : Defined(f, n)
  BY <1>3 DEF Exists
<1>5. ASSUME NEW i \in (m + 1)..n PROVE f[i] = D[i][f[i - 1]]
  <2>1. i \in m..n /\ i # m
    OBVIOUS
  <2> QED
    BY <1>4, <2>1
<1> QED
  BY <1>4, <1>5 DEF Recurs

\* Induction up to n.
LEMMA InductionUpTo ==
    ASSUME NEW n \in Nat, NEW S, 0 \in S, \A k \in 0..(n - 1) : k \in S => k + 1 \in S
    PROVE  0..n \subseteq S
<1> DEFINE R == {k \in Nat : k <= n => k \in S}
<1>1. 0 \in R
  OBVIOUS
<1>2. ASSUME NEW k \in Nat, k \in R PROVE k + 1 \in R
  <2>1. CASE k + 1 <= n
    BY <1>2, <2>1
  <2>2. CASE ~(k + 1 <= n)
    BY <2>2
  <2> QED
    BY <2>1, <2>2
<1> HIDE DEF R
<1>3. Nat \subseteq R
  BY <1>1, <1>2, Induction
<1> QED
  BY <1>3 DEF R

---------------------------------------------------------------------------
(* Sums *)

\* The partial sums of SumSeq.
LEMMA SumDef ==
    ASSUME NEW s \in Seq(Int)
    PROVE  \E f \in [0..Len(s) -> Int] :
               /\ f[0] = 0
               /\ \A i \in 1..Len(s) : f[i] = f[i - 1] + s[i]
               /\ SumSeq(s) = f[Len(s)]
<1> DEFINE sum[i \in 0..Len(s)] == IF i = 0 THEN 0 ELSE sum[i - 1] + s[i]
<1>1. Len(s) \in Nat /\ \A i \in 1..Len(s) : s[i] \in Int
  OBVIOUS
<1>2. \E f : f = [i \in 0..Len(s) |-> IF i = 0 THEN 0 ELSE f[i - 1] + s[i]]
  <2> DEFINE D == [i \in 1..Len(s) |-> [x \in Int |-> x + s[i]]]
  <2>1. D \in [1..Len(s) -> [Int -> Int]] /\ 0 \in Int
        /\ 0 \in Nat /\ 0 <= Len(s) /\ 1 = 0 + 1
    BY <1>1
  <2>2. \A x \in Int, i \in 1..Len(s) : D[i][x] = x + s[i]
    OBVIOUS
  <2> HIDE DEF D
  <2>3. PICK f \in [0..Len(s) -> Int] : Recurs(f, 0, D, 0, Len(s))
    BY <1>1, <2>1, Recursion
  <2>4. f[0] = 0 /\ \A i \in 1..Len(s) : f[i] = D[i][f[i - 1]]
    BY <1>1, <2>3 DEF Recurs
  <2>5. ASSUME NEW i \in 1..Len(s) PROVE f[i] = f[i - 1] + s[i]
    <3>1. i - 1 \in 0..Len(s)
      BY <1>1
    <3> QED
      BY <2>2, <2>4, <3>1
  <2>6. \A i \in 0..Len(s) : f[i] = IF i = 0 THEN 0 ELSE f[i - 1] + s[i]
    BY <2>4, <2>5, <1>1
  <2> QED
    BY <2>6
<1>3. sum = [i \in 0..Len(s) |-> IF i = 0 THEN 0 ELSE sum[i - 1] + s[i]]
  BY <1>2
<1> HIDE DEF sum
<1>4. sum[0] = 0 /\ \A i \in 1..Len(s) : sum[i] = sum[i - 1] + s[i]
  BY <1>1, <1>3, SMTT(30)
<1>5. \A i \in 0..Len(s) : sum[i] \in Int
  <2> DEFINE S == {i \in 0..Len(s) : sum[i] \in Int}
  <2>1. 0 \in S
    BY <1>1, <1>4
  <2>2. ASSUME NEW k \in 0..(Len(s) - 1), k \in S PROVE k + 1 \in S
    <3>1. k + 1 \in 1..Len(s) /\ (k + 1) - 1 = k
      BY <1>1
    <3> QED
      BY <2>2, <3>1, <1>1, <1>4
  <2> HIDE DEF S
  <2>3. 0..Len(s) \subseteq S
    BY <1>1, <2>1, <2>2, InductionUpTo
  <2> QED
    BY <2>3 DEF S
<1>6. sum \in [0..Len(s) -> Int]
  BY <1>3, <1>5
<1>7. SumSeq(s) = sum[Len(s)]
  BY DEF SumSeq, sum
<1> QED
  BY <1>4, <1>6, <1>7

\* Terms that move to the other side.
LEMMA Difference ==
    ASSUME NEW p \in Int, NEW q \in Int, NEW r \in Int, p = q + r
    PROVE  p - q = r
  OBVIOUS

\* Nothing adds up to nothing.
LEMMA SumEmpty == SumSeq(<<>>) = 0
<1>1. <<>> \in Seq(Int) /\ Len(<<>>) = 0
  OBVIOUS
<1> QED
  BY <1>1, SumDef

\* A sum of integers is one.
LEMMA SumType ==
    ASSUME NEW s \in Seq(Int)
    PROVE  SumSeq(s) \in Int
  BY SumDef

\* A difference does not see what both sides share.
LEMMA ShiftedDifference ==
    ASSUME NEW c \in Int, NEW p \in Int, NEW q \in Int, NEW r \in Int, p = q + r
    PROVE  (c + p) - (c + q) = r
  OBVIOUS

\* Two sums agree as long as their terms do.
LEMMA SumsAgree ==
    ASSUME NEW n \in Nat, NEW f \in [0..n -> Int], NEW g \in [0..n -> Int], f[0] = g[0],
           \A i \in 1..n : f[i] - f[i - 1] = g[i] - g[i - 1]
    PROVE  f[n] = g[n]
<1> DEFINE S == {i \in 0..n : f[i] = g[i]}
<1>1. 0 \in S
  OBVIOUS
<1>2. ASSUME NEW k \in 0..(n - 1), k \in S PROVE k + 1 \in S
  <2>1. /\ k + 1 \in 1..n /\ (k + 1) - 1 = k /\ f[k] = g[k] /\ k \in 0..n /\ k + 1 \in 0..n
        /\ f[k] \in Int /\ f[k + 1] \in Int /\ g[k] \in Int /\ g[k + 1] \in Int
    BY <1>2
  <2> QED
    BY <2>1
<1> HIDE DEF S
<1>3. 0..n \subseteq S
  BY <1>1, <1>2, InductionUpTo
<1> QED
  BY <1>3 DEF S

\* The sum of two sequences in a row.
LEMMA SumConcat ==
    ASSUME NEW s \in Seq(Int), NEW t \in Seq(Int)
    PROVE  SumSeq(s \o t) = SumSeq(s) + SumSeq(t)
<1> DEFINE m == Len(s)
           n == Len(t)
           u == s \o t
<1>1. /\ m \in Nat /\ n \in Nat /\ u \in Seq(Int) /\ Len(u) = m + n
      /\ \A i \in 1..m : u[i] = s[i] /\ s[i] \in Int
      /\ \A i \in 1..n : u[m + i] = t[i] /\ t[i] \in Int
  BY ConcatProperties
<1> HIDE DEF u
<1>2. PICK f \in [0..m -> Int] : f[0] = 0 /\ (\A i \in 1..m : f[i] = f[i - 1] + s[i]) /\ SumSeq(s) = f[m]
  BY SumDef
<1>3. PICK g \in [0..n -> Int] : g[0] = 0 /\ (\A i \in 1..n : g[i] = g[i - 1] + t[i]) /\ SumSeq(t) = g[n]
  BY SumDef
<1>4. PICK h \in [0..(m + n) -> Int] :
          h[0] = 0 /\ (\A i \in 1..(m + n) : h[i] = h[i - 1] + u[i]) /\ SumSeq(u) = h[m + n]
  BY <1>1, SumDef
<1> HIDE DEF m, n
<1> DEFINE hm == [i \in 0..m |-> h[i]]
           hn == [i \in 0..n |-> h[m + i]]
           gn == [i \in 0..n |-> f[m] + g[i]]
<1>5. hm[m] = f[m]
  <2>1. hm \in [0..m -> Int] /\ hm[0] = f[0] /\ hm[m] = h[m]
    BY <1>1, <1>2, <1>4
  <2>2. ASSUME NEW i \in 1..m PROVE hm[i] - hm[i - 1] = f[i] - f[i - 1]
    <3>1. /\ i \in 1..(m + n) /\ i \in 0..m /\ i - 1 \in 0..m
          /\ i \in 0..(m + n) /\ i - 1 \in 0..(m + n)
      BY <1>1
    <3>2. h[i] \in Int /\ h[i - 1] \in Int /\ f[i] \in Int /\ f[i - 1] \in Int
      BY <3>1
    <3>3. h[i] = h[i - 1] + s[i] /\ f[i] = f[i - 1] + s[i] /\ s[i] \in Int
      BY <3>1, <1>1, <1>2, <1>4
    <3>4. hm[i] = h[i] /\ hm[i - 1] = h[i - 1]
      BY <3>1
    <3>5. h[i] - h[i - 1] = s[i]
      BY <3>2, <3>3, Difference
    <3>6. f[i] - f[i - 1] = s[i]
      BY <3>2, <3>3, Difference
    <3> HIDE DEF hm
    <3> QED
      BY <3>4, <3>5, <3>6
  <2> HIDE DEF hm
  <2> QED
    BY <1>1, <1>2, <2>1, <2>2, SumsAgree
<1>6. hn[n] = gn[n]
  <2>1. hn \in [0..n -> Int] /\ gn \in [0..n -> Int] /\ hn[0] = h[m] /\ gn[0] = f[m] /\ hm[m] = h[m]
    <3>1. \A i \in 0..n : m + i \in 0..(m + n) /\ m \in 0..m /\ f[m] \in Int /\ g[i] \in Int
      BY <1>1, <1>2, <1>3
    <3> QED
      BY <3>1, <1>1, <1>2, <1>3, <1>4
  <2>2. ASSUME NEW i \in 1..n PROVE hn[i] - hn[i - 1] = gn[i] - gn[i - 1]
    <3>1. /\ m + i \in 1..(m + n) /\ i \in 0..n /\ i - 1 \in 0..n /\ (m + i) - 1 = m + (i - 1)
          /\ m \in 0..m /\ m + i \in 0..(m + n) /\ m + (i - 1) \in 0..(m + n)
      BY <1>1
    <3>2. /\ f[m] \in Int /\ g[i] \in Int /\ g[i - 1] \in Int
          /\ h[m + i] \in Int /\ h[m + (i - 1)] \in Int
      BY <3>1
    <3>3. h[m + i] = h[m + (i - 1)] + t[i] /\ g[i] = g[i - 1] + t[i] /\ t[i] \in Int
      BY <3>1, <1>1, <1>3, <1>4
    <3>4. /\ hn[i] = h[m + i] /\ hn[i - 1] = h[m + (i - 1)]
          /\ gn[i] = f[m] + g[i] /\ gn[i - 1] = f[m] + g[i - 1]
      BY <3>1
    <3>5. h[m + i] - h[m + (i - 1)] = t[i]
      BY <3>2, <3>3, Difference
    <3>6. (f[m] + g[i]) - (f[m] + g[i - 1]) = t[i]
      <4>1. f[m] \in Int /\ g[i] \in Int /\ g[i - 1] \in Int
        BY <3>2
      <4>2. \A c \in Int : (c + g[i]) - (c + g[i - 1]) = t[i]
        BY <4>1, <3>3, ShiftedDifference, SMTT(30)
      <4> QED
        BY <4>1, <4>2
    <3> HIDE DEF hn, gn
    <3> QED
      BY <3>4, <3>5, <3>6, Zenon
  <2>3. hn[0] = gn[0]
    BY <1>5, <2>1
  <2> HIDE DEF hn, gn
  <2> QED
    BY <1>1, <2>1, <2>2, <2>3, SumsAgree
<1>7. hn[n] = h[m + n] /\ gn[n] = f[m] + g[n]
  BY <1>1
<1> QED
  BY <1>2, <1>3, <1>4, <1>6, <1>7 DEF u

\* The sum of one term.
LEMMA SumOne ==
    ASSUME NEW x \in Int
    PROVE  SumSeq(<<x>>) = x
<1>1. <<x>> \in Seq(Int) /\ Len(<<x>>) = 1 /\ <<x>>[1] = x
  OBVIOUS
<1> DEFINE s == <<x>>
<1>2. s \in Seq(Int) /\ Len(s) = 1 /\ s[1] = x
  BY <1>1
<1> HIDE DEF s
<1>3. PICK f \in [0..Len(s) -> Int] :
          f[0] = 0 /\ (\A i \in 1..Len(s) : f[i] = f[i - 1] + s[i]) /\ SumSeq(s) = f[Len(s)]
  BY <1>2, SumDef
<1>4. 1 \in 1..Len(s) /\ 1 - 1 = 0
  BY <1>2
<1>5. f[1] = f[0] + s[1]
  BY <1>3, <1>4
<1> QED
  BY <1>2, <1>3, <1>5 DEF s

\* The sum of one more term.
LEMMA SumAppend ==
    ASSUME NEW s \in Seq(Int), NEW x \in Int
    PROVE  SumSeq(Append(s, x)) = SumSeq(s) + x
<1>1. Append(s, x) = s \o <<x>> /\ <<x>> \in Seq(Int)
  BY AppendIsConcat
<1> QED
  BY <1>1, SumConcat, SumOne

\* What is where in a concatenation.
LEMMA ConcatParts ==
    ASSUME NEW T, NEW a \in Seq(T), NEW b \in Seq(T)
    PROVE  /\ a \o b \in Seq(T) /\ Len(a \o b) = Len(a) + Len(b)
           /\ \A i \in 1..Len(a) : (a \o b)[i] = a[i]
           /\ \A i \in 1..Len(b) : (a \o b)[Len(a) + i] = b[i]
  BY ConcatProperties

\* A sequence that begins as a and goes on as b is their concatenation.
LEMMA IsConcat ==
    ASSUME NEW T, NEW a \in Seq(T), NEW b \in Seq(T), NEW v \in Seq(T),
           Len(v) = Len(a) + Len(b),
           \A i \in 1..Len(a) : v[i] = a[i],
           \A i \in 1..Len(b) : v[Len(a) + i] = b[i]
    PROVE  v = a \o b
<1> DEFINE c == a \o b
<1>1. /\ c \in Seq(T) /\ Len(c) = Len(a) + Len(b) /\ (\A i \in 1..Len(a) : c[i] = a[i])
      /\ (\A i \in 1..Len(b) : c[Len(a) + i] = b[i]) /\ Len(a) \in Nat /\ Len(b) \in Nat
  BY ConcatParts
<1> HIDE DEF c
<1>2. ASSUME NEW i \in 1..Len(v) PROVE v[i] = c[i]
  <2>1. CASE i \in 1..Len(a)
    BY <1>1, <2>1
  <2>2. CASE ~(i \in 1..Len(a))
    <3>1. i - Len(a) \in 1..Len(b) /\ Len(a) + (i - Len(a)) = i
      BY <1>1, <2>2
    <3>2. v[Len(a) + (i - Len(a))] = c[Len(a) + (i - Len(a))]
      BY <1>1, <3>1
    <3> QED
      BY <3>1, <3>2
  <2> QED
    BY <2>1, <2>2
<1>3. v = c
  BY <1>1, <1>2, SeqEqual
<1> QED
  BY <1>3 DEF c

\* One more term, anywhere.
LEMMA SumInserted ==
    ASSUME NEW u \in Seq(Int), NEW v \in Seq(Int), NEW k \in 1..(Len(u) + 1),
           Len(v) = Len(u) + 1,
           \A i \in 1..(k - 1) : v[i] = u[i],
           \A i \in k..Len(u) : v[i + 1] = u[i]
    PROVE  SumSeq(v) = SumSeq(u) + v[k]
<1> DEFINE a == SubSeq(u, 1, k - 1)
           b == SubSeq(u, k, Len(u))
           c == <<v[k]>>
<1>1. Len(u) \in Nat /\ k \in Int /\ (\A i \in 1..Len(u) : u[i] \in Int) /\ v[k] \in Int
  BY ElementOfSeq
<1>2. a \in Seq(Int) /\ Len(a) = k - 1 /\ \A i \in 1..(k - 1) : a[i] = u[i]
  <2>1. \A i \in 1..(k - 1) : u[i] \in Int
    BY <1>1
  <2> QED
    BY <2>1, SubSeqProperties
<1>3. b \in Seq(Int) /\ Len(b) = Len(u) - (k - 1) /\ \A i \in 1..Len(b) : b[i] = u[(k - 1) + i]
  <2>1. \A i \in k..Len(u) : u[i] \in Int
    BY <1>1
  <2>2. b \in Seq(Int) /\ Len(b) = (IF k <= Len(u) THEN Len(u) - k + 1 ELSE 0)
        /\ \A i \in 1..(Len(u) - k + 1) : b[i] = u[k + i - 1]
    BY <1>1, <2>1, SubSeqProperties
  <2> QED
    BY <2>2, <1>1
<1>4. c \in Seq(Int) /\ Len(c) = 1 /\ c[1] = v[k]
  BY <1>1
<1> HIDE DEF a, b, c
<1>5. u = a \o b
  <2>1. /\ Len(u) = Len(a) + Len(b) /\ (\A i \in 1..Len(a) : u[i] = a[i])
        /\ (\A i \in 1..Len(b) : u[Len(a) + i] = b[i])
    <3>1. Len(u) = Len(a) + Len(b)
      BY <1>1, <1>2, <1>3
    <3>2. \A i \in 1..Len(a) : u[i] = a[i]
      BY <1>2
    <3>3. \A i \in 1..Len(b) : u[Len(a) + i] = b[i]
      BY <1>2, <1>3
    <3> QED
      BY <3>1, <3>2, <3>3
  <2>2. a \in Seq(Int) /\ b \in Seq(Int) /\ u \in Seq(Int)
    BY <1>1, <1>2, <1>3
  <2> QED
    BY <2>1, <2>2, IsConcat
<1> DEFINE w == a \o c
<1>6. v = w \o b
  <2>1. /\ w \in Seq(Int) /\ Len(w) = Len(a) + 1 /\ (\A i \in 1..Len(a) : w[i] = a[i])
        /\ w[Len(a) + 1] = v[k]
    <3>1. /\ w \in Seq(Int) /\ Len(w) = Len(a) + Len(c) /\ (\A i \in 1..Len(a) : w[i] = a[i])
          /\ (\A i \in 1..Len(c) : w[Len(a) + i] = c[i])
      <4>1. a \in Seq(Int) /\ c \in Seq(Int)
        BY <1>2, <1>4
      <4> QED
        BY <4>1, ConcatParts
    <3> HIDE DEF w
    <3>2. 1 \in 1..Len(c)
      BY <1>4
    <3>3. w[Len(a) + 1] = c[1]
      BY <3>1, <3>2
    <3> QED
      BY <3>1, <3>3, <1>4
  <2> HIDE DEF w
  <2>2. Len(v) = Len(w) + Len(b)
    BY <1>1, <1>2, <1>3, <2>1
  <2>3. ASSUME NEW i \in 1..Len(w) PROVE v[i] = w[i]
    <3>1. i \in 1..Len(a) \/ i = k
      BY <1>1, <1>2, <2>1
    <3>2. Len(a) + 1 = k /\ Len(a) = k - 1
      BY <1>1, <1>2
    <3> QED
      BY <1>2, <2>1, <3>1, <3>2
  <2>4. ASSUME NEW i \in 1..Len(b) PROVE v[Len(w) + i] = b[i]
    <3>1. (k - 1) + i \in k..Len(u) /\ ((k - 1) + i) + 1 = Len(w) + i
      BY <1>1, <1>2, <1>3, <2>1
    <3>2. v[((k - 1) + i) + 1] = u[(k - 1) + i]
      BY <3>1
    <3> QED
      BY <1>3, <3>1, <3>2
  <2> QED
    BY <1>3, <2>1, <2>2, <2>3, <2>4, IsConcat
<1>7. w \in Seq(Int) /\ SumSeq(a) \in Int /\ SumSeq(b) \in Int
  BY <1>2, <1>3, <1>4, ConcatProperties, SumType
<1>8. SumSeq(u) = SumSeq(a) + SumSeq(b)
  BY <1>2, <1>3, <1>5, SumConcat
<1>9. SumSeq(w) = SumSeq(a) + v[k]
  <2>1. SumSeq(w) = SumSeq(a) + SumSeq(c)
    BY <1>2, <1>4, SumConcat
  <2>2. SumSeq(c) = v[k]
    BY <1>1, SumOne DEF c
  <2> QED
    BY <2>1, <2>2
<1> HIDE DEF w
<1>10. SumSeq(v) = SumSeq(w) + SumSeq(b)
  BY <1>3, <1>6, <1>7, SumConcat
<1> QED
  BY <1>1, <1>7, <1>8, <1>9, <1>10

\* s is t in another order: p tells where each of its elements is in t.
Permutes(p, s, t) ==
    /\ Len(s) = Len(t)
    /\ p \in [1..Len(s) -> 1..Len(s)]
    /\ \A i, j \in 1..Len(s) : i # j => p[i] # p[j]
    /\ \A i \in 1..Len(s) : s[i] = t[p[i]]

\* A sum does not depend on the order of its terms.
LEMMA PermutedSum ==
    ASSUME NEW s \in Seq(Int), NEW t \in Seq(Int), NEW p, Permutes(p, s, t)
    PROVE  SumSeq(s) = SumSeq(t)
<1> DEFINE Same(n) == \A x, y \in Seq(Int) : \A q :
                          Len(x) = n /\ Permutes(q, x, y) => SumSeq(x) = SumSeq(y)
           S == {n \in Nat : Same(n)}
<1>1. 0 \in S
  <2>1. \A x \in Seq(Int) : Len(x) = 0 => x = <<>>
    OBVIOUS
  <2> QED
    BY <2>1 DEF Permutes
<1>2. ASSUME NEW n \in Nat, Same(n), NEW x \in Seq(Int), NEW y \in Seq(Int), NEW q,
             Len(x) = n + 1, Permutes(q, x, y)
      PROVE  SumSeq(x) = SumSeq(y)
  <2> DEFINE k == q[n + 1]
             xx == [i \in 1..n |-> x[i]]
             yy == [i \in 1..n |-> IF i < k THEN y[i] ELSE y[i + 1]]
             qq == [i \in 1..n |-> IF q[i] < k THEN q[i] ELSE q[i] - 1]
  <2>1. /\ Len(y) = n + 1 /\ q \in [1..(n + 1) -> 1..(n + 1)] /\ k \in 1..(n + 1)
        /\ \A i, j \in 1..(n + 1) : i # j => q[i] # q[j]
        /\ \A i \in 1..(n + 1) : x[i] = y[q[i]]
        /\ \A i \in 1..(n + 1) : x[i] \in Int /\ y[i] \in Int
    <3>1. /\ Len(y) = n + 1 /\ q \in [1..(n + 1) -> 1..(n + 1)]
          /\ \A i, j \in 1..(n + 1) : i # j => q[i] # q[j]
          /\ \A i \in 1..(n + 1) : x[i] = y[q[i]]
      BY <1>2 DEF Permutes
    <3>2. \A i \in 1..(n + 1) : x[i] \in Int /\ y[i] \in Int
      BY <1>2, <3>1
    <3>3. n + 1 \in 1..(n + 1)
      OBVIOUS
    <3> QED
      BY <3>1, <3>2, <3>3
  <2>2. ASSUME NEW i \in 1..n
        PROVE  q[i] \in 1..(n + 1) /\ q[i] # k /\ i \in 1..(n + 1) /\ i + 1 \in 1..(n + 1)
    <3>1. i \in 1..(n + 1) /\ n + 1 \in 1..(n + 1) /\ i # n + 1 /\ i + 1 \in 1..(n + 1)
      OBVIOUS
    <3> QED
      BY <2>1, <3>1
  <2> HIDE DEF k
  <2>3. xx \in Seq(Int) /\ Len(xx) = n
    BY <2>1
  <2>4. yy \in Seq(Int) /\ Len(yy) = n
    <3>1. \A i \in 1..n : yy[i] \in Int
      BY <2>1, <2>2
    <3>2. yy \in [1..n -> Int]
      BY <3>1
    <3> HIDE DEF yy
    <3> QED
      BY <3>2
  <2>5. Permutes(qq, xx, yy)
    <3>1. ASSUME NEW i \in 1..n
          PROVE  qq[i] \in 1..n /\ (q[i] < k => qq[i] = q[i]) /\ (~(q[i] < k) => qq[i] = q[i] - 1 /\ q[i] > k)
      <4>1. q[i] \in 1..(n + 1) /\ q[i] # k /\ k \in 1..(n + 1)
        BY <2>1, <2>2
      <4> QED
        BY <4>1
    <3>2. ASSUME NEW i \in 1..n, NEW j \in 1..n, i # j PROVE qq[i] # qq[j]
      <4>1. q[i] \in 1..(n + 1) /\ q[j] \in 1..(n + 1) /\ q[i] # q[j] /\ k \in 1..(n + 1)
        BY <2>1, <2>2, <3>2
      <4>2. (qq[i] = q[i] /\ q[i] < k) \/ (qq[i] = q[i] - 1 /\ q[i] > k)
        BY <3>1, <4>1
      <4>3. (qq[j] = q[j] /\ q[j] < k) \/ (qq[j] = q[j] - 1 /\ q[j] > k)
        BY <3>1, <4>1
      <4> HIDE DEF qq
      <4> QED
        BY <4>1, <4>2, <4>3, SMTT(30)
    <3>3. ASSUME NEW i \in 1..n PROVE xx[i] = yy[qq[i]]
      <4>1. xx[i] = y[q[i]] /\ qq[i] \in 1..n /\ q[i] \in 1..(n + 1) /\ k \in 1..(n + 1)
        BY <2>1, <2>2, <3>1
      <4>2. CASE q[i] < k
        <5>1. qq[i] = q[i]
          BY <3>1, <4>2
        <5> QED
          BY <4>1, <4>2, <5>1
      <4>3. CASE ~(q[i] < k)
        <5>1. qq[i] = q[i] - 1 /\ ~(qq[i] < k) /\ qq[i] + 1 = q[i]
          <6>1. qq[i] = q[i] - 1 /\ q[i] > k
            BY <3>1, <4>3
          <6> HIDE DEF qq
          <6>2. \A a, b \in Int : a > b => ~(a - 1 < b) /\ (a - 1) + 1 = a
            OBVIOUS
          <6>3. q[i] \in Int /\ k \in Int
            BY <4>1
          <6> QED
            BY <6>1, <6>2, <6>3
        <5> HIDE DEF qq
        <5> QED
          BY <4>1, <5>1
      <4> QED
        BY <4>2, <4>3
    <3>4. qq \in [1..n -> 1..n]
      BY <3>1
    <3> HIDE DEF xx, yy, qq
    <3> QED
      BY <2>3, <2>4, <3>2, <3>3, <3>4 DEF Permutes
  <2>6. SumSeq(xx) = SumSeq(yy)
    <3> HIDE DEF xx, yy, qq
    <3> QED
      BY <1>2, <2>3, <2>4, <2>5
  <2>7. SumSeq(x) = SumSeq(xx) + x[n + 1]
    <3>1. /\ n + 1 \in 1..(Len(xx) + 1) /\ Len(x) = Len(xx) + 1
          /\ \A i \in 1..((n + 1) - 1) : x[i] = xx[i]
          /\ \A i \in (n + 1)..Len(xx) : x[i + 1] = xx[i]
      BY <1>2, <2>3
    <3> HIDE DEF xx
    <3> QED
      BY <2>3, <3>1, SumInserted
  <2>8. SumSeq(y) = SumSeq(yy) + y[k]
    <3>1. /\ k \in 1..(Len(yy) + 1) /\ Len(y) = Len(yy) + 1
          /\ \A i \in 1..(k - 1) : y[i] = yy[i]
          /\ \A i \in k..Len(yy) : y[i + 1] = yy[i]
      BY <2>1, <2>4
    <3> HIDE DEF yy
    <3> QED
      BY <2>4, <3>1, SumInserted
  <2>9. x[n + 1] = y[k]
    BY <2>1 DEF k
  <2> QED
    BY <2>6, <2>7, <2>8, <2>9
<1> HIDE DEF Same
<1>3. ASSUME NEW n \in Nat, n \in S PROVE n + 1 \in S
  <2>1. Same(n)
    BY <1>3
  <2>2. Same(n + 1)
    BY <2>1, <1>2 DEF Same
  <2> QED
    BY <2>2
<1> HIDE DEF S
<1>4. Nat \subseteq S
  BY <1>1, <1>3, Induction
<1>5. Len(s) \in Nat
  OBVIOUS
<1>6. Same(Len(s))
  BY <1>4, <1>5 DEF S
<1> QED
  BY <1>6 DEF Same

---------------------------------------------------------------------------
(* Sorting *)

\* What is where after an insertion.
LEMMA InsertAtParts ==
    ASSUME NEW T, NEW s \in Seq(T), NEW x \in T, NEW k \in 1..(Len(s) + 1)
    PROVE  /\ InsertAt(s, k, x) \in Seq(T) /\ Len(InsertAt(s, k, x)) = Len(s) + 1
           /\ InsertAt(s, k, x)[k] = x
           /\ \A i \in 1..(k - 1) : InsertAt(s, k, x)[i] = s[i]
           /\ \A i \in k..Len(s) : InsertAt(s, k, x)[i + 1] = s[i]
<1> DEFINE a == SubSeq(s, 1, k - 1)
           b == SubSeq(s, k, Len(s))
           c == <<x>>
<1>1. Len(s) \in Nat /\ k \in Int /\ (\A i \in 1..Len(s) : s[i] \in T)
  BY ElementOfSeq
<1>2. a \in Seq(T) /\ Len(a) = k - 1 /\ \A i \in 1..(k - 1) : a[i] = s[i]
  <2>1. \A i \in 1..(k - 1) : s[i] \in T
    BY <1>1
  <2> QED
    BY <2>1, SubSeqProperties
<1>3. b \in Seq(T) /\ Len(b) = Len(s) - (k - 1) /\ \A i \in 1..Len(b) : b[i] = s[(k - 1) + i]
  <2>1. \A i \in k..Len(s) : s[i] \in T
    BY <1>1
  <2>2. b \in Seq(T) /\ Len(b) = (IF k <= Len(s) THEN Len(s) - k + 1 ELSE 0)
        /\ \A i \in 1..(Len(s) - k + 1) : b[i] = s[k + i - 1]
    BY <1>1, <2>1, SubSeqProperties
  <2> QED
    BY <2>2, <1>1
<1>4. c \in Seq(T) /\ Len(c) = 1 /\ c[1] = x
  BY <1>1
<1> DEFINE w == a \o c
           v == w \o b
<1>5. InsertAt(s, k, x) = v
  BY DEF InsertAt
<1> HIDE DEF a, b, c
<1>6. /\ w \in Seq(T) /\ Len(w) = Len(a) + Len(c) /\ (\A i \in 1..Len(a) : w[i] = a[i])
      /\ (\A i \in 1..Len(c) : w[Len(a) + i] = c[i])
  <2>1. a \in Seq(T) /\ c \in Seq(T)
    BY <1>2, <1>4
  <2> QED
    BY <2>1, ConcatParts
<1> HIDE DEF w
<1>7. /\ v \in Seq(T) /\ Len(v) = Len(w) + Len(b) /\ (\A i \in 1..Len(w) : v[i] = w[i])
      /\ (\A i \in 1..Len(b) : v[Len(w) + i] = b[i])
  <2>1. w \in Seq(T) /\ b \in Seq(T)
    BY <1>6, <1>3
  <2> QED
    BY <2>1, ConcatParts
<1> HIDE DEF v
<1>8. Len(w) = k /\ w[k] = x
  <2>1. 1 \in 1..Len(c) /\ Len(a) + 1 = k
    BY <1>1, <1>2, <1>4
  <2>2. w[Len(a) + 1] = c[1]
    BY <1>6, <2>1
  <2> QED
    BY <1>1, <1>2, <1>4, <1>6, <2>1, <2>2
<1>9. Len(v) = Len(s) + 1 /\ v[k] = x
  BY <1>1, <1>3, <1>7, <1>8
<1>10. ASSUME NEW i \in 1..(k - 1) PROVE v[i] = s[i]
  <2>1. i \in 1..Len(a) /\ i \in 1..Len(w)
    BY <1>1, <1>2, <1>8
  <2> QED
    BY <1>2, <1>6, <1>7, <2>1
<1>11. ASSUME NEW i \in k..Len(s) PROVE v[i + 1] = s[i]
  <2>1. i - (k - 1) \in 1..Len(b) /\ Len(w) + (i - (k - 1)) = i + 1 /\ (k - 1) + (i - (k - 1)) = i
    BY <1>1, <1>3, <1>8
  <2>2. v[Len(w) + (i - (k - 1))] = b[i - (k - 1)] /\ b[i - (k - 1)] = s[(k - 1) + (i - (k - 1))]
    BY <1>3, <1>7, <2>1
  <2> QED
    BY <2>1, <2>2
<1> QED
  BY <1>5, <1>7, <1>9, <1>10, <1>11

\* A set with all that is below its elements is an interval.
LEMMA DownwardClosed ==
    ASSUME NEW n \in Nat, NEW D, D \subseteq 1..n,
           \A i, j \in 1..n : i < j /\ j \in D => i \in D
    PROVE  Cardinality(D) \in 0..n /\ D = 1..Cardinality(D)
<1>1. CASE D = 1..n
  <2>1. Cardinality(1..n) = n
    BY FS_Interval
  <2> QED
    BY <1>1, <2>1
<1>2. CASE D # 1..n
  <2>1. (1..n) \ D # {} /\ (1..n) \ D \subseteq Nat
    <3>1. PICK y \in 1..n : y \notin D
      BY <1>2
    <3> QED
      BY <3>1
  <2>2. PICK x \in (1..n) \ D : \A y \in (1..n) \ D : x <= y
    BY <2>1, LeastNatural
  <2>3. D = 1..(x - 1)
    <3>1. ASSUME NEW i \in D PROVE i \in 1..(x - 1)
      <4>1. i \in 1..n /\ x \in 1..n /\ i # x /\ ~(x < i)
        BY <2>2, <3>1
      <4> QED
        BY <4>1
    <3>2. ASSUME NEW i \in 1..(x - 1) PROVE i \in D
      <4>1. x \in 1..n
        BY <2>2
      <4>2. i \in 1..n /\ ~(x <= i)
        BY <4>1
      <4> QED
        BY <4>2, <2>2
    <3> QED
      BY <3>1, <3>2
  <2>4. x \in 1..n /\ Cardinality(1..(x - 1)) = x - 1
    <3>1. x \in 1..n /\ x - 1 \in Int /\ 1 \in Int
      BY <2>2
    <3>2. Cardinality(1..(x - 1)) = IF 1 > x - 1 THEN 0 ELSE (x - 1) - 1 + 1
      BY <3>1, FS_Interval
    <3> QED
      BY <3>1, <3>2
  <2>5. Cardinality(D) = x - 1 /\ x - 1 \in 0..n
    BY <2>3, <2>4
  <2> QED
    BY <2>3, <2>5
<1> QED
  BY <1>1, <1>2

\* Insert counts to a place that exists.
LEMMA InsertPosition ==
    ASSUME NEW n \in Nat, NEW D, D \subseteq 1..n
    PROVE  Cardinality(D) + 1 \in 1..(n + 1)
<1>1. IsFiniteSet(1..n) /\ Cardinality(1..n) = n
  BY FS_Interval
<1>2. IsFiniteSet(D) /\ Cardinality(D) <= n
  BY <1>1, FS_Subset
<1>3. Cardinality(D) \in Nat
  BY <1>2, FS_CardinalityType
<1> QED
  BY <1>2, <1>3

\* A strict order in which any two elements can be compared, or are alike.
WeakOrder(before, T) ==
    /\ \A x, y \in T : <<x, y>> \in before => <<y, x>> \notin before
    /\ \A x, y, z \in T : <<x, z>> \in before => <<x, y>> \in before \/ <<y, z>> \in before

\* Nothing comes before what it follows.
Ascends(u, before) == \A i, j \in 1..Len(u) : i < j => <<u[j], u[i]>> \notin before

\* Inserting keeps a sequence in order (Insert, list.sort).
LEMMA InsertAscends ==
    ASSUME NEW T, NEW before, WeakOrder(before, T),
           NEW s \in Seq(T), NEW x \in T, Ascends(s, before)
    PROVE  Ascends(Insert(s, x, before), before)
<1> DEFINE D == {i \in 1..Len(s) : <<x, s[i]>> \notin before}
           k == Cardinality(D) + 1
           v == InsertAt(s, k, x)
<1>1. Insert(s, x, before) = v
  <2>1. DOMAIN s = 1..Len(s)
    OBVIOUS
  <2> QED
    BY <2>1 DEF Insert
<1>2. Len(s) \in Nat /\ \A i \in 1..Len(s) : s[i] \in T
  BY ElementOfSeq
<1>3. ASSUME NEW i \in 1..Len(s), NEW j \in 1..Len(s), i < j, j \in D PROVE i \in D
  <2>1. <<s[j], s[i]>> \notin before /\ <<x, s[j]>> \notin before /\ s[i] \in T /\ s[j] \in T
    BY <1>2, <1>3 DEF Ascends
  <2>2. <<x, s[i]>> \notin before
    BY <2>1 DEF WeakOrder
  <2> QED
    BY <2>2
<1>4. Cardinality(D) \in 0..Len(s) /\ D = 1..Cardinality(D)
  <2>1. D \subseteq 1..Len(s)
    OBVIOUS
  <2> HIDE DEF D
  <2> QED
    BY <1>2, <1>3, <2>1, DownwardClosed
<1>5. k \in 1..(Len(s) + 1) /\ D = 1..(k - 1)
  <2> HIDE DEF D
  <2> QED
    BY <1>2, <1>4
<1>6. \A i \in 1..Len(s) : (i < k => <<x, s[i]>> \notin before) /\ (~(i < k) => <<x, s[i]>> \in before)
  <2>1. ASSUME NEW i \in 1..Len(s) PROVE i \in D <=> i < k
    <3> HIDE DEF D
    <3> QED
      BY <1>2, <1>5
  <2> QED
    BY <2>1 DEF D
<1> HIDE DEF D, k
<1>7. /\ v \in Seq(T) /\ Len(v) = Len(s) + 1 /\ v[k] = x
      /\ (\A i \in 1..(k - 1) : v[i] = s[i]) /\ (\A i \in k..Len(s) : v[i + 1] = s[i])
  BY <1>5, InsertAtParts
<1> HIDE DEF v
<1>8. ASSUME NEW i \in 1..Len(v), i # k
      PROVE  \E m \in 1..Len(s) : v[i] = s[m] /\ m = IF i < k THEN i ELSE i - 1
  <2>1. CASE i < k
    <3>1. i \in 1..(k - 1) /\ i \in 1..Len(s)
      BY <1>2, <1>5, <1>7, <2>1
    <3> QED
      BY <1>7, <2>1, <3>1
  <2>2. CASE ~(i < k)
    <3>1. i - 1 \in k..Len(s) /\ i - 1 \in 1..Len(s) /\ (i - 1) + 1 = i
      BY <1>2, <1>5, <1>7, <1>8, <2>2
    <3>2. v[(i - 1) + 1] = s[i - 1]
      BY <1>7, <3>1
    <3> QED
      BY <2>2, <3>1, <3>2
  <2> QED
    BY <2>1, <2>2
<1>9. ASSUME NEW i \in 1..Len(v), NEW j \in 1..Len(v), i < j
      PROVE  <<v[j], v[i]>> \notin before
  <2>1. i \in Nat /\ j \in Nat /\ k \in Nat
    BY <1>2, <1>5, <1>7
  <2>2. CASE i = k
    <3>1. PICK m \in 1..Len(s) : v[j] = s[m] /\ m = IF j < k THEN j ELSE j - 1
      BY <1>8, <1>9, <2>2, <2>1
    <3>2. ~(m < k)
      BY <1>9, <2>1, <2>2, <3>1
    <3>3. <<x, s[m]>> \in before /\ s[m] \in T
      BY <1>2, <1>6, <3>2
    <3> QED
      BY <1>7, <2>2, <3>1, <3>3 DEF WeakOrder
  <2>3. CASE j = k
    <3>1. PICK m \in 1..Len(s) : v[i] = s[m] /\ m = IF i < k THEN i ELSE i - 1
      BY <1>8, <1>9, <2>3, <2>1
    <3>2. m < k
      BY <1>9, <2>1, <2>3, <3>1
    <3> QED
      BY <1>6, <1>7, <2>3, <3>1, <3>2
  <2>4. CASE i # k /\ j # k
    <3>1. PICK m \in 1..Len(s) : v[i] = s[m] /\ m = IF i < k THEN i ELSE i - 1
      BY <1>8, <2>4
    <3>2. PICK l \in 1..Len(s) : v[j] = s[l] /\ l = IF j < k THEN j ELSE j - 1
      BY <1>8, <2>4
    <3>3. m < l
      BY <1>9, <2>1, <2>4, <3>1, <3>2
    <3> QED
      BY <3>1, <3>2, <3>3 DEF Ascends
  <2> QED
    BY <2>2, <2>3, <2>4
<1> QED
  BY <1>1, <1>9 DEF Ascends

\* u is the first n elements of s in another order.
Shuffles(p, u, s, n) ==
    /\ Len(u) = n
    /\ p \in [1..n -> 1..n]
    /\ \A i, j \in 1..n : i # j => p[i] # p[j]
    /\ \A i \in 1..n : u[i] = s[p[i]]

\* Inserting the next element keeps a rearrangement one.
LEMMA InsertShuffles ==
    ASSUME NEW T, NEW before, NEW s \in Seq(T), NEW n \in Nat, n + 1 \in 1..Len(s),
           NEW u \in Seq(T), NEW p, Shuffles(p, u, s, n)
    PROVE  /\ Insert(u, s[n + 1], before) \in Seq(T)
           /\ \E q : Shuffles(q, Insert(u, s[n + 1], before), s, n + 1)
<1> DEFINE D == {i \in 1..Len(u) : <<s[n + 1], u[i]>> \notin before}
           k == Cardinality(D) + 1
           v == InsertAt(u, k, s[n + 1])
           q == [i \in 1..(n + 1) |-> IF i < k THEN p[i] ELSE IF i = k THEN n + 1 ELSE p[i - 1]]
<1>1. Insert(u, s[n + 1], before) = v
  <2>1. DOMAIN u = 1..Len(u)
    OBVIOUS
  <2> QED
    BY <2>1 DEF Insert
<1>2. /\ Len(u) = n /\ p \in [1..n -> 1..n]
      /\ (\A i, j \in 1..n : i # j => p[i] # p[j]) /\ \A i \in 1..n : u[i] = s[p[i]]
  BY DEF Shuffles
<1>3. k \in 1..(n + 1)
  <2>1. D \subseteq 1..n
    BY <1>2
  <2> HIDE DEF D
  <2> QED
    BY <2>1, InsertPosition
<1>4. s[n + 1] \in T
  BY ElementOfSeq
<1> HIDE DEF D, k
<1>5. /\ v \in Seq(T) /\ Len(v) = n + 1 /\ v[k] = s[n + 1]
      /\ (\A i \in 1..(k - 1) : v[i] = u[i]) /\ (\A i \in k..n : v[i + 1] = u[i])
  <2>1. k \in 1..(Len(u) + 1)
    BY <1>2, <1>3
  <2>2. /\ v \in Seq(T) /\ Len(v) = Len(u) + 1 /\ v[k] = s[n + 1]
        /\ (\A i \in 1..(k - 1) : v[i] = u[i]) /\ (\A i \in k..Len(u) : v[i + 1] = u[i])
    BY <1>4, <2>1, InsertAtParts
  <2> HIDE DEF v
  <2> QED
    BY <1>2, <2>2
<1> HIDE DEF v
<1>6. ASSUME NEW i \in 1..(n + 1)
      PROVE  \/ i = k /\ q[i] = n + 1
             \/ \E m \in 1..n : i # k /\ q[i] = p[m] /\ v[i] = u[m] /\ m = IF i < k THEN i ELSE i - 1
  <2>1. CASE i < k
    <3>1. i \in 1..(k - 1) /\ i \in 1..n /\ i # k
      BY <1>3, <2>1
    <3> QED
      BY <1>5, <2>1, <3>1
  <2>2. CASE i = k
    BY <2>2, <1>3
  <2>3. CASE i > k
    <3>1. i - 1 \in k..n /\ i - 1 \in 1..n /\ (i - 1) + 1 = i /\ i # k /\ ~(i < k)
      BY <1>3, <2>3
    <3>2. v[(i - 1) + 1] = u[i - 1]
      BY <1>5, <3>1
    <3> QED
      BY <3>1, <3>2
  <2> QED
    BY <1>3, <2>1, <2>2, <2>3
<1>7. ASSUME NEW i \in 1..(n + 1) PROVE q[i] \in 1..(n + 1) /\ v[i] = s[q[i]]
  <2>1. CASE i = k /\ q[i] = n + 1
    <3> HIDE DEF q
    <3>1. q[i] \in 1..(n + 1)
      BY <2>1
    <3> QED
      BY <2>1, <3>1, <1>5
  <2>2. CASE \E m \in 1..n : i # k /\ q[i] = p[m] /\ v[i] = u[m] /\ m = IF i < k THEN i ELSE i - 1
    <3> HIDE DEF q
    <3>1. PICK m \in 1..n : q[i] = p[m] /\ v[i] = u[m]
      BY <2>2
    <3>2. p[m] \in 1..n
      BY <1>2
    <3> QED
      BY <1>2, <3>1, <3>2
  <2> HIDE DEF q
  <2> QED
    BY <1>6, <2>1, <2>2
<1>8. ASSUME NEW i \in 1..(n + 1), NEW j \in 1..(n + 1), i # j PROVE q[i] # q[j]
  <2> HIDE DEF q
  <2>1. \A m \in 1..n : p[m] \in 1..n /\ p[m] # n + 1
    <3>1. \A m \in 1..n : p[m] \in 1..n
      BY <1>2
    <3>2. \A m \in 1..n : m # n + 1
      OBVIOUS
    <3> QED
      BY <3>1, <3>2
  <2>2. CASE i = k
    <3>1. q[i] = n + 1 /\ \E m \in 1..n : q[j] = p[m]
      BY <1>6, <1>8, <2>2
    <3> QED
      BY <2>1, <3>1
  <2>3. CASE j = k
    <3>1. q[j] = n + 1 /\ \E m \in 1..n : q[i] = p[m]
      BY <1>6, <1>8, <2>3
    <3> QED
      BY <2>1, <3>1
  <2>4. CASE i # k /\ j # k
    <3>1. PICK m \in 1..n : q[i] = p[m] /\ m = IF i < k THEN i ELSE i - 1
      BY <1>6, <2>4
    <3>2. PICK l \in 1..n : q[j] = p[l] /\ l = IF j < k THEN j ELSE j - 1
      BY <1>6, <2>4
    <3>3. m # l
      BY <1>3, <1>8, <2>4, <3>1, <3>2
    <3>4. p[m] # p[l]
      BY <1>2, <3>3
    <3> QED
      BY <3>1, <3>2, <3>4
  <2> QED
    BY <2>2, <2>3, <2>4
<1>9. q \in [1..(n + 1) -> 1..(n + 1)]
  BY <1>7
<1> HIDE DEF q
<1>10. Shuffles(q, v, s, n + 1)
  BY <1>5, <1>7, <1>8, <1>9 DEF Shuffles
<1> QED
  BY <1>1, <1>5, <1>10

\* Inserting keeps the type.
LEMMA InsertType ==
    ASSUME NEW T, NEW before, NEW s \in Seq(T), NEW x \in T
    PROVE  Insert(s, x, before) \in Seq(T)
<1> DEFINE D == {i \in 1..Len(s) : <<x, s[i]>> \notin before}
           k == Cardinality(D) + 1
<1>1. Insert(s, x, before) = InsertAt(s, k, x)
  <2>1. DOMAIN s = 1..Len(s)
    OBVIOUS
  <2> QED
    BY <2>1 DEF Insert
<1>2. Len(s) \in Nat /\ D \subseteq 1..Len(s)
  OBVIOUS
<1>3. k \in 1..(Len(s) + 1)
  <2> HIDE DEF D
  <2> QED
    BY <1>2, InsertPosition
<1> HIDE DEF k
<1> QED
  BY <1>1, <1>3, InsertAtParts

\* f[i] are the first i elements of s, sorted.
SortsUpTo(f, s, before) ==
    f[0] = <<>> /\ \A i \in 1..Len(s) : f[i] = Insert(f[i - 1], s[i], before)

\* The insertions of Sorted, one by one.
LEMMA SortedDef ==
    ASSUME NEW T, NEW before, NEW s \in Seq(T)
    PROVE  \E f \in [0..Len(s) -> Seq(T)] :
               SortsUpTo(f, s, before) /\ Sorted(s, before) = f[Len(s)]
<1> DEFINE upTo[i \in 0..Len(s)] ==
               IF i = 0 THEN <<>> ELSE Insert(upTo[i - 1], s[i], before)
           Step(i) == [u \in Seq(T) |-> Insert(u, s[i], before)]
           D == [i \in 1..Len(s) |-> Step(i)]
<1>1. Len(s) \in Nat /\ <<>> \in Seq(T) /\ \A i \in 1..Len(s) : s[i] \in T
  BY ElementOfSeq
<1>2. D \in [1..Len(s) -> [Seq(T) -> Seq(T)]]
  <2>1. ASSUME NEW i \in 1..Len(s), NEW u \in Seq(T) PROVE Insert(u, s[i], before) \in Seq(T)
    BY <1>1, InsertType
  <2>2. ASSUME NEW i \in 1..Len(s) PROVE Step(i) \in [Seq(T) -> Seq(T)]
    BY <2>1
  <2> HIDE DEF Step
  <2> QED
    BY <2>2
<1>3. \A u \in Seq(T), i \in 1..Len(s) : D[i][u] = Insert(u, s[i], before)
  OBVIOUS
<1> HIDE DEF D
<1>4. PICK f \in [0..Len(s) -> Seq(T)] : Recurs(f, <<>>, D, 0, Len(s))
  <2>1. 0 \in Nat /\ 0 <= Len(s) /\ 1 = 0 + 1
    BY <1>1
  <2> QED
    BY <1>1, <1>2, <2>1, Recursion
<1>5. f[0] = <<>> /\ \A i \in 1..Len(s) : f[i] = D[i][f[i - 1]]
  BY <1>4 DEF Recurs
<1>6. ASSUME NEW i \in 1..Len(s) PROVE f[i] = Insert(f[i - 1], s[i], before)
  <2>1. i - 1 \in 0..Len(s)
    BY <1>1
  <2>2. f[i - 1] \in Seq(T)
    BY <2>1
  <2> QED
    BY <1>3, <1>5, <2>2
<1>7. f = [i \in 0..Len(s) |-> IF i = 0 THEN <<>> ELSE Insert(f[i - 1], s[i], before)]
  <2>1. ASSUME NEW i \in 0..Len(s)
        PROVE  f[i] = IF i = 0 THEN <<>> ELSE Insert(f[i - 1], s[i], before)
    <3>1. i = 0 \/ i \in 1..Len(s)
      BY <1>1
    <3> QED
      BY <1>5, <1>6, <3>1
  <2> QED
    BY <2>1
<1>8. upTo = [i \in 0..Len(s) |-> IF i = 0 THEN <<>> ELSE Insert(upTo[i - 1], s[i], before)]
  BY <1>7
<1> HIDE DEF upTo
<1>9. ASSUME NEW i \in 1..Len(s) PROVE upTo[i] = Insert(upTo[i - 1], s[i], before)
  <2>1. i \in 0..Len(s) /\ i # 0
    BY <1>1
  <2> QED
    BY <1>8, <2>1
<1>10. upTo[0] = <<>>
  BY <1>1, <1>8
<1>11. \A i \in 0..Len(s) : upTo[i] \in Seq(T)
  <2> DEFINE S == {i \in 0..Len(s) : upTo[i] \in Seq(T)}
  <2>1. 0 \in S
    <3>1. 0 \in 0..Len(s) /\ <<>> \in Seq(T)
      BY <1>1
    <3> QED
      BY <1>10, <3>1
  <2>2. ASSUME NEW k \in 0..(Len(s) - 1), k \in S PROVE k + 1 \in S
    <3>1. k + 1 \in 1..Len(s) /\ k + 1 \in 0..Len(s) /\ (k + 1) - 1 = k
      BY <1>1
    <3>2. upTo[k + 1] = Insert(upTo[k], s[k + 1], before) /\ s[k + 1] \in T /\ upTo[k] \in Seq(T)
      BY <1>1, <1>9, <2>2, <3>1
    <3>3. upTo[k + 1] \in Seq(T)
      BY <3>2, InsertType
    <3> QED
      BY <3>1, <3>3
  <2> HIDE DEF S
  <2>3. 0..Len(s) \subseteq S
    BY <1>1, <2>1, <2>2, InductionUpTo
  <2> QED
    BY <2>3 DEF S
<1>12. upTo \in [0..Len(s) -> Seq(T)]
  BY <1>8, <1>11
<1>13. Sorted(s, before) = upTo[Len(s)]
  BY DEF Sorted, upTo
<1>14. SortsUpTo(upTo, s, before)
  BY <1>9, <1>10 DEF SortsUpTo
<1> QED
  BY <1>12, <1>13, <1>14

\* Sorting changes nothing but the order.
LEMMA SortedPermutes ==
    ASSUME NEW T, NEW before, NEW s \in Seq(T)
    PROVE  Sorted(s, before) \in Seq(T) /\ \E p : Permutes(p, Sorted(s, before), s)
<1>1. PICK f \in [0..Len(s) -> Seq(T)] :
          SortsUpTo(f, s, before) /\ Sorted(s, before) = f[Len(s)]
  BY SortedDef, ZenonT(30)
<1> DEFINE S == {i \in 0..Len(s) : \E p : Shuffles(p, f[i], s, i)}
<1>2. Len(s) \in Nat
  OBVIOUS
<1>3. 0 \in S
  <2>1. f[0] = <<>> /\ 0 \in 0..Len(s)
    BY <1>1, <1>2 DEF SortsUpTo
  <2>2. Shuffles([i \in 1..0 |-> i], <<>>, s, 0)
    BY DEF Shuffles
  <2> QED
    BY <2>1, <2>2
<1>4. ASSUME NEW k \in 0..(Len(s) - 1), k \in S PROVE k + 1 \in S
  <2>1. k + 1 \in 1..Len(s) /\ k + 1 \in 0..Len(s) /\ k \in 0..Len(s) /\ (k + 1) - 1 = k /\ k \in Nat
    BY <1>2
  <2>2. PICK p : Shuffles(p, f[k], s, k)
    BY <1>4
  <2>3. f[k + 1] = Insert(f[k], s[k + 1], before)
    BY <1>1, <2>1 DEF SortsUpTo
  <2>4. f[k] \in Seq(T)
    BY <2>1
  <2>5. \E q : Shuffles(q, Insert(f[k], s[k + 1], before), s, k + 1)
    BY <2>1, <2>2, <2>4, InsertShuffles
  <2> QED
    BY <2>1, <2>3, <2>5
<1> HIDE DEF S
<1>5. 0..Len(s) \subseteq S
  BY <1>2, <1>3, <1>4, InductionUpTo
<1>6. Len(s) \in 0..Len(s)
  BY <1>2
<1>7. PICK p : Shuffles(p, f[Len(s)], s, Len(s))
  BY <1>5, <1>6 DEF S
<1>8. Permutes(p, f[Len(s)], s)
  BY <1>7 DEF Permutes, Shuffles
<1>9. f[Len(s)] \in Seq(T)
  BY <1>6
<1> QED
  BY <1>1, <1>8, <1>9

\* What Sorted returns is in order.
LEMMA SortedAscends ==
    ASSUME NEW T, NEW before, WeakOrder(before, T), NEW s \in Seq(T)
    PROVE  Ascends(Sorted(s, before), before)
<1>1. PICK f \in [0..Len(s) -> Seq(T)] :
          SortsUpTo(f, s, before) /\ Sorted(s, before) = f[Len(s)]
  BY SortedDef
<1> DEFINE S == {i \in 0..Len(s) : Ascends(f[i], before)}
<1>2. Len(s) \in Nat /\ \A i \in 1..Len(s) : s[i] \in T
  BY ElementOfSeq
<1>3. 0 \in S
  BY <1>1, <1>2 DEF SortsUpTo, Ascends
<1>4. ASSUME NEW k \in 0..(Len(s) - 1), k \in S PROVE k + 1 \in S
  <2>1. k + 1 \in 1..Len(s) /\ k + 1 \in 0..Len(s) /\ k \in 0..Len(s) /\ (k + 1) - 1 = k
    BY <1>2
  <2>2. f[k + 1] = Insert(f[k], s[k + 1], before)
    BY <1>1, <2>1 DEF SortsUpTo
  <2>3. f[k] \in Seq(T) /\ s[k + 1] \in T /\ Ascends(f[k], before)
    BY <1>2, <1>4, <2>1
  <2>4. Ascends(Insert(f[k], s[k + 1], before), before)
    BY <2>3, InsertAscends
  <2> QED
    BY <2>1, <2>2, <2>4
<1> HIDE DEF S
<1>5. 0..Len(s) \subseteq S
  BY <1>2, <1>3, <1>4, InductionUpTo
<1>6. Len(s) \in 0..Len(s)
  BY <1>2
<1> QED
  BY <1>1, <1>5, <1>6 DEF S

---------------------------------------------------------------------------
(* Flattening *)

\* f[i] are the first i sequences of ss, joined.
Joined(f, ss) == f[1] = ss[1] /\ \A i \in 2..Len(ss) : f[i] = f[i - 1] \o ss[i]

\* The concatenations of FlattenSeq, one by one.
LEMMA FlattenDef ==
    ASSUME NEW T, NEW ss \in Seq(Seq(T)), Len(ss) # 0
    PROVE  \E f \in [1..Len(ss) -> Seq(T)] : Joined(f, ss) /\ FlattenSeq(ss) = f[Len(ss)]
<1> DEFINE flatten[i \in 1..Len(ss)] == IF i = 1 THEN ss[i] ELSE flatten[i - 1] \o ss[i]
           Step(i) == [u \in Seq(T) |-> u \o ss[i]]
           D == [i \in 2..Len(ss) |-> Step(i)]
<1>1. Len(ss) \in Nat /\ 1 <= Len(ss) /\ \A i \in 1..Len(ss) : ss[i] \in Seq(T)
  <2>1. \A i \in 1..Len(ss) : ss[i] \in Seq(T)
    BY ElementOfSeq
  <2> QED
    BY <2>1
<1>2. D \in [2..Len(ss) -> [Seq(T) -> Seq(T)]]
  <2>1. ASSUME NEW i \in 2..Len(ss), NEW u \in Seq(T) PROVE u \o ss[i] \in Seq(T)
    <3>1. ss[i] \in Seq(T)
      BY <1>1
    <3> QED
      BY <3>1, ConcatProperties
  <2>2. ASSUME NEW i \in 2..Len(ss) PROVE Step(i) \in [Seq(T) -> Seq(T)]
    BY <2>1
  <2> HIDE DEF Step
  <2> QED
    BY <2>2
<1>3. \A u \in Seq(T), i \in 2..Len(ss) : D[i][u] = u \o ss[i]
  OBVIOUS
<1> HIDE DEF D
<1>4. PICK f \in [1..Len(ss) -> Seq(T)] : Recurs(f, ss[1], D, 1, Len(ss))
  <2>1. 1 \in Nat /\ 2 = 1 + 1 /\ ss[1] \in Seq(T)
    BY <1>1
  <2> QED
    BY <1>1, <1>2, <2>1, Recursion
<1>5. f[1] = ss[1] /\ \A i \in 2..Len(ss) : f[i] = D[i][f[i - 1]]
  <2>1. 1 + 1 = 2
    OBVIOUS
  <2> QED
    BY <1>4, <2>1 DEF Recurs
<1>6. ASSUME NEW i \in 2..Len(ss) PROVE f[i] = f[i - 1] \o ss[i]
  <2>1. i - 1 \in 1..Len(ss)
    BY <1>1
  <2>2. f[i - 1] \in Seq(T)
    BY <2>1
  <2> QED
    BY <1>3, <1>5, <2>2
<1>7. f = [i \in 1..Len(ss) |-> IF i = 1 THEN ss[i] ELSE f[i - 1] \o ss[i]]
  <2>1. ASSUME NEW i \in 1..Len(ss)
        PROVE  f[i] = IF i = 1 THEN ss[i] ELSE f[i - 1] \o ss[i]
    <3>1. i = 1 \/ i \in 2..Len(ss)
      BY <1>1
    <3> QED
      BY <1>5, <1>6, <3>1
  <2> QED
    BY <2>1
<1>8. flatten = [i \in 1..Len(ss) |-> IF i = 1 THEN ss[i] ELSE flatten[i - 1] \o ss[i]]
  BY <1>7
<1> HIDE DEF flatten
<1>9. ASSUME NEW i \in 2..Len(ss) PROVE flatten[i] = flatten[i - 1] \o ss[i]
  <2>1. i \in 1..Len(ss) /\ i # 1
    BY <1>1
  <2> QED
    BY <1>8, <2>1
<1>10. flatten[1] = ss[1]
  BY <1>1, <1>8
<1>11. \A i \in 1..Len(ss) : flatten[i] \in Seq(T)
  <2> DEFINE S == {i \in 0..Len(ss) : i = 0 \/ flatten[i] \in Seq(T)}
  <2>1. 0 \in S
    BY <1>1
  <2>2. ASSUME NEW k \in 0..(Len(ss) - 1), k \in S PROVE k + 1 \in S
    <3>1. CASE k = 0
      BY <1>1, <1>10, <3>1
    <3>2. CASE k # 0
      <4>1. k + 1 \in 2..Len(ss) /\ k + 1 \in 0..Len(ss) /\ k + 1 \in 1..Len(ss) /\ (k + 1) - 1 = k
        BY <1>1, <3>2
      <4>2. flatten[k + 1] = flatten[k] \o ss[k + 1] /\ ss[k + 1] \in Seq(T) /\ flatten[k] \in Seq(T)
        BY <1>1, <1>9, <2>2, <3>2, <4>1
      <4>3. flatten[k + 1] \in Seq(T)
        BY <4>2, ConcatProperties
      <4> QED
        BY <4>1, <4>3
    <3> QED
      BY <3>1, <3>2
  <2> HIDE DEF S
  <2>3. 0..Len(ss) \subseteq S
    BY <1>1, <2>1, <2>2, InductionUpTo
  <2>4. ASSUME NEW i \in 1..Len(ss) PROVE flatten[i] \in Seq(T)
    <3>1. i \in 0..Len(ss) /\ i # 0
      BY <1>1
    <3> QED
      BY <2>3, <3>1 DEF S
  <2> QED
    BY <2>4
<1>12. flatten \in [1..Len(ss) -> Seq(T)]
  BY <1>8, <1>11
<1>13. FlattenSeq(ss) = flatten[Len(ss)]
  BY DEF FlattenSeq, flatten
<1>14. Joined(flatten, ss)
  BY <1>9, <1>10 DEF Joined
<1> QED
  BY <1>12, <1>13, <1>14

\* Each element of r is an element of one of the first n sequences of ss, and
\* each of theirs is one of r.
Places(at, r, ss, n) ==
    /\ at \in [1..Len(r) -> (1..n) \X Nat]
    /\ \A i \in 1..Len(r) :
           at[i][2] \in 1..Len(ss[at[i][1]]) /\ r[i] = ss[at[i][1]][at[i][2]]
    /\ \A i, j \in 1..Len(r) : i # j => at[i] # at[j]
    /\ \A k \in 1..n : \A m \in 1..Len(ss[k]) : \E i \in 1..Len(r) : at[i] = <<k, m>>

\* Flattening keeps every element, and adds none.
LEMMA FlattenPlaces ==
    ASSUME NEW T, NEW ss \in Seq(Seq(T))
    PROVE  FlattenSeq(ss) \in Seq(T) /\ \E at : Places(at, FlattenSeq(ss), ss, Len(ss))
<1>1. Len(ss) \in Nat /\ \A i \in 1..Len(ss) : ss[i] \in Seq(T) /\ Len(ss[i]) \in Nat
  <2>1. \A i \in 1..Len(ss) : ss[i] \in Seq(T)
    BY ElementOfSeq
  <2> QED
    BY <2>1
<1>2. CASE Len(ss) = 0
  <2>1. FlattenSeq(ss) = <<>> /\ <<>> \in Seq(T) /\ Len(<<>>) = 0
    BY <1>2 DEF FlattenSeq
  <2>2. Places(<<>>, <<>>, ss, 0)
    <3>1. <<>> \in [1..0 -> (1..0) \X Nat]
      OBVIOUS
    <3> QED
      BY <2>1, <3>1 DEF Places
  <2> QED
    BY <1>2, <2>1, <2>2
<1>3. CASE Len(ss) # 0
  <2>1. PICK f \in [1..Len(ss) -> Seq(T)] : Joined(f, ss) /\ FlattenSeq(ss) = f[Len(ss)]
    BY <1>3, FlattenDef
  <2> DEFINE S == {i \in 0..Len(ss) : i = 0 \/ \E at : Places(at, f[i], ss, i)}
  <2>2. 0 \in S
    BY <1>1
  <2>3. ASSUME NEW k \in 0..(Len(ss) - 1), k \in S PROVE k + 1 \in S
    <3>1. k + 1 \in 1..Len(ss) /\ k + 1 \in 0..Len(ss) /\ (k + 1) - 1 = k
      BY <1>1
    <3>2. CASE k = 0
      <4> DEFINE at == [i \in 1..Len(ss[1]) |-> <<1, i>>]
      <4>1. f[1] = ss[1] /\ Len(ss[1]) \in Nat
        BY <1>1, <2>1, <3>1, <3>2 DEF Joined
      <4>2. at \in [1..Len(ss[1]) -> (1..1) \X Nat]
        BY <4>1
      <4>3. Places(at, ss[1], ss, 1)
        <5>1. \A i \in 1..Len(ss[1]) : at[i] = <<1, i>> /\ at[i][1] = 1 /\ at[i][2] = i
          OBVIOUS
        <5> HIDE DEF at
        <5>2. \A l \in 1..1 : l = 1
          OBVIOUS
        <5>3. \A i, j \in 1..Len(ss[1]) : i # j => at[i] # at[j]
          <6>1. \A i, j \in 1..Len(ss[1]) : at[i][2] = i /\ at[j][2] = j
            BY <5>1
          <6> QED
            BY <6>1
        <5>4. \A i \in 1..Len(ss[1]) : at[i][2] \in 1..Len(ss[at[i][1]]) /\ ss[1][i] = ss[at[i][1]][at[i][2]]
          BY <5>1
        <5>5. \A l \in 1..1 : \A m \in 1..Len(ss[l]) : \E i \in 1..Len(ss[1]) : at[i] = <<l, m>>
          BY <5>1, <5>2
        <5> QED
          BY <4>2, <5>3, <5>4, <5>5 DEF Places
      <4> QED
        BY <3>1, <3>2, <4>1, <4>3
    <3>3. CASE k # 0
      <4>1. k + 1 \in 2..Len(ss) /\ k \in 1..Len(ss)
        BY <1>1, <3>3
      <4>2. PICK at : Places(at, f[k], ss, k)
        BY <2>3, <3>3
      <4> DEFINE n == Len(f[k])
                 m == Len(ss[k + 1])
                 r == f[k + 1]
                 to == [i \in 1..(n + m) |-> IF i <= n THEN at[i] ELSE <<k + 1, i - n>>]
      <4>3. r = f[k] \o ss[k + 1] /\ f[k] \in Seq(T) /\ ss[k + 1] \in Seq(T)
        BY <1>1, <2>1, <3>1, <4>1 DEF Joined
      <4>4. /\ Len(r) = n + m /\ n \in Nat /\ m \in Nat
            /\ (\A i \in 1..n : r[i] = f[k][i]) /\ (\A i \in 1..m : r[n + i] = ss[k + 1][i])
        <5>1. n \in Nat /\ m \in Nat
          BY <4>3
        <5> DEFINE u == f[k]
                   v == ss[k + 1]
        <5>2. u \in Seq(T) /\ v \in Seq(T) /\ n = Len(u) /\ m = Len(v) /\ r = u \o v
          BY <4>3
        <5> HIDE DEF u, v, n, m, r
        <5>3. /\ Len(r) = n + m
              /\ (\A i \in 1..n : r[i] = u[i]) /\ (\A i \in 1..m : r[n + i] = v[i])
          BY <5>2, ConcatParts
        <5> QED
          BY <5>1, <5>3 DEF u, v
      <4>5. /\ at \in [1..n -> (1..k) \X Nat]
            /\ \A i \in 1..n : at[i][2] \in 1..Len(ss[at[i][1]]) /\ f[k][i] = ss[at[i][1]][at[i][2]]
            /\ \A i, j \in 1..n : i # j => at[i] # at[j]
            /\ \A l \in 1..k : \A h \in 1..Len(ss[l]) : \E i \in 1..n : at[i] = <<l, h>>
        BY <4>2 DEF Places
      <4> HIDE DEF n, m, r
      <4>6. ASSUME NEW i \in 1..(n + m)
            PROVE  \/ i \in 1..n /\ to[i] = at[i] /\ to[i] \in (1..k) \X Nat
                   \/ i - n \in 1..m /\ n + (i - n) = i /\ to[i] = <<k + 1, i - n>>
        <5>1. CASE i <= n
          <6>1. i \in 1..n
            BY <4>4, <5>1
          <6>2. at[i] \in (1..k) \X Nat
            BY <4>5, <6>1
          <6> QED
            BY <5>1, <6>1, <6>2
        <5>2. CASE ~(i <= n)
          BY <4>4, <5>2
        <5> QED
          BY <5>1, <5>2
      <4>7. ASSUME NEW i \in 1..(n + m)
            PROVE  /\ to[i] \in (1..(k + 1)) \X Nat
                   /\ to[i][2] \in 1..Len(ss[to[i][1]])
                   /\ r[i] = ss[to[i][1]][to[i][2]]
        <5>1. CASE i \in 1..n /\ to[i] = at[i] /\ to[i] \in (1..k) \X Nat
          <6> HIDE DEF to
          <6>1. to[i] \in (1..(k + 1)) \X Nat
            BY <5>1
          <6>2. r[i] = f[k][i]
            BY <4>4, <5>1
          <6> QED
            BY <4>5, <5>1, <6>1, <6>2
        <5>2. CASE i - n \in 1..m /\ n + (i - n) = i /\ to[i] = <<k + 1, i - n>>
          <6> HIDE DEF to
          <6>1. to[i] \in (1..(k + 1)) \X Nat /\ to[i][1] = k + 1 /\ to[i][2] = i - n
            BY <5>2, <4>4, SMTT(30)
          <6>2. r[n + (i - n)] = ss[k + 1][i - n]
            BY <4>4, <5>2
          <6> QED
            BY <5>2, <6>1, <6>2 DEF m
        <5> HIDE DEF to
        <5> QED
          BY <4>6, <5>1, <5>2
      <4>8. ASSUME NEW i \in 1..(n + m), NEW j \in 1..(n + m), i # j PROVE to[i] # to[j]
        <5> HIDE DEF to
        <5>1. \A l \in (1..k) \X Nat : l[1] # k + 1
          OBVIOUS
        <5>2. \A l \in Int : <<k + 1, l>>[1] = k + 1 /\ <<k + 1, l>>[2] = l
          OBVIOUS
        <5>3. i \in Int /\ j \in Int /\ n \in Int
          BY <4>4
        <5>4. CASE i \in 1..n /\ to[i] = at[i] /\ to[i] \in (1..k) \X Nat
          <6>1. CASE j \in 1..n /\ to[j] = at[j]
            BY <4>5, <4>8, <5>4, <6>1
          <6>2. CASE to[j] = <<k + 1, j - n>>
            BY <5>1, <5>4, <6>2
          <6> QED
            BY <4>6, <6>1, <6>2
        <5>5. CASE to[i] = <<k + 1, i - n>>
          <6>1. CASE to[j] \in (1..k) \X Nat
            BY <5>1, <5>5, <6>1
          <6>2. CASE to[j] = <<k + 1, j - n>>
            <7>1. i - n # j - n
              BY <4>8, <5>3
            <7> QED
              BY <5>5, <6>2, <7>1
          <6> QED
            BY <4>6, <6>1, <6>2
        <5> QED
          BY <4>6, <5>4, <5>5
      <4>9. ASSUME NEW l \in 1..(k + 1), NEW h \in 1..Len(ss[l])
            PROVE  \E i \in 1..(n + m) : to[i] = <<l, h>>
        <5>1. CASE l \in 1..k
          <6>1. PICK i \in 1..n : at[i] = <<l, h>>
            BY <4>5, <5>1
          <6>2. i \in 1..(n + m) /\ i <= n
            BY <4>4
          <6> QED
            BY <6>1, <6>2
        <5>2. CASE l = k + 1
          <6>1. h \in 1..m
            BY <5>2 DEF m
          <6>2. n + h \in 1..(n + m) /\ ~(n + h <= n) /\ (n + h) - n = h
            BY <4>4, <6>1
          <6>3. to[n + h] = <<k + 1, h>>
            BY <6>2
          <6> QED
            BY <5>2, <6>2, <6>3
        <5>3. l \in 1..k \/ l = k + 1
          <6>1. k \in Int
            OBVIOUS
          <6> QED
            BY <6>1
        <5> HIDE DEF to
        <5> QED
          BY <5>1, <5>2, <5>3
      <4>10. to \in [1..(n + m) -> (1..(k + 1)) \X Nat]
        BY <4>7
      <4> HIDE DEF to
      <4>11. Places(to, r, ss, k + 1)
        <5>1. Len(r) = n + m
          BY <4>4
        <5>2. to \in [1..Len(r) -> (1..(k + 1)) \X Nat]
          BY <4>10, <5>1
        <5>3. \A i \in 1..Len(r) : to[i][2] \in 1..Len(ss[to[i][1]]) /\ r[i] = ss[to[i][1]][to[i][2]]
          BY <4>7, <5>1
        <5>4. \A i, j \in 1..Len(r) : i # j => to[i] # to[j]
          BY <4>8, <5>1
        <5>5. \A l \in 1..(k + 1) : \A h \in 1..Len(ss[l]) : \E i \in 1..Len(r) : to[i] = <<l, h>>
          BY <4>9, <5>1
        <5> QED
          BY <5>2, <5>3, <5>4, <5>5 DEF Places
      <4> QED
        BY <3>1, <4>11 DEF r
    <3> QED
      BY <3>2, <3>3
  <2> HIDE DEF S
  <2>4. 0..Len(ss) \subseteq S
    BY <1>1, <2>2, <2>3, InductionUpTo
  <2>5. \E at : Places(at, f[Len(ss)], ss, Len(ss))
    <3>1. Len(ss) \in 0..Len(ss)
      BY <1>1
    <3> QED
      BY <1>3, <2>4, <3>1 DEF S
  <2>6. f[Len(ss)] \in Seq(T)
    <3>1. Len(ss) \in 1..Len(ss)
      BY <1>1, <1>3
    <3> QED
      BY <3>1
  <2> QED
    BY <2>1, <2>5, <2>6
<1> QED
  BY <1>2, <1>3

---------------------------------------------------------------------------
(* Clusters of charges *)

\* A quotient below a bound.
LEMMA QuotientBelow ==
    ASSUME NEW a \in Int, NEW b \in Int, NEW q \in Int, 0 < b, a < b * q
    PROVE  a \div b \in Int /\ a \div b < q
<1>1. a \div b \in Int /\ a % b \in 0..(b - 1) /\ a = b * (a \div b) + (a % b)
  OBVIOUS
<1> DEFINE d == a \div b
           r == a % b
<1>2. d \in Int /\ r \in Int /\ 0 <= r /\ a = b * d + r
  BY <1>1
<1> HIDE DEF d, r
<1>3. b * d < b * q
  <2>1. b * d \in Int /\ b * q \in Int
    BY <1>2
  <2> QED
    BY <1>2, <2>1
<1>4. d < q
  <2>1. SUFFICES ASSUME q <= d PROVE FALSE
    BY <1>2
  <2>2. b * q <= b * d
    BY <1>2, <2>1
  <2> QED
    BY <1>2, <1>3, <2>2
<1> QED
  BY <1>1, <1>4 DEF d

\* A quotient not below a bound.
LEMMA QuotientAbove ==
    ASSUME NEW a \in Int, NEW b \in Int, NEW q \in Int, 0 < b, b * q <= a
    PROVE  a \div b \in Int /\ q <= a \div b
<1>1. a \div b \in Int /\ a % b \in 0..(b - 1) /\ a = b * (a \div b) + (a % b)
  OBVIOUS
<1> DEFINE d == a \div b
           r == a % b
<1>2. d \in Int /\ r \in Int /\ r < b /\ a = b * d + r
  BY <1>1
<1> HIDE DEF d, r
<1>3. q <= d
  <2>1. SUFFICES ASSUME d + 1 <= q PROVE FALSE
    BY <1>2
  <2>2. b * (d + 1) <= b * q /\ b * (d + 1) = b * d + b
    BY <1>2, <2>1
  <2>3. b * d \in Int /\ b * q \in Int
    BY <1>2
  <2> QED
    BY <1>2, <2>2, <2>3
<1> QED
  BY <1>1, <1>3 DEF d

\* The bounds of a cluster of n charges, of s cents together, from lo to h cents each.
Bounded(n, s, lo, h) ==
    1 <= lo /\ lo <= h /\ n * lo <= s /\ s <= n * h /\ (lo = 1 => s = n)

\* A charge that joins a cluster keeps its bounds.
LEMMA BoundedJoins ==
    ASSUME NEW n \in Nat, NEW s \in Int, NEW lo \in Int, NEW t \in Int, 1 <= n,
           Bounded(n, s, lo, t), 5 * (n * t - s) <= s
    PROVE  Bounded(n + 1, s + t, lo, t)
<1>1. 1 <= lo /\ lo <= t /\ n * lo <= s /\ s <= n * t /\ (lo = 1 => s = n)
  BY DEF Bounded
<1>2. n * lo \in Int /\ n * t \in Int
  OBVIOUS
<1>3. (n + 1) * lo = n * lo + lo /\ (n + 1) * t = n * t + t
  OBVIOUS
<1>4. (n + 1) * lo <= s + t /\ s + t <= (n + 1) * t
  BY <1>1, <1>2, <1>3
<1>5. ASSUME lo = 1 PROVE s + t = n + 1
  <2>1. s = n
    BY <1>1, <1>5
  <2>2. 5 * (n * t) <= 6 * n
    BY <1>2, <2>1
  <2>3. t = 1
    <3>1. SUFFICES ASSUME 2 <= t PROVE FALSE
      BY <1>1
    <3>2. n * 2 <= n * t
      BY <3>1
    <3> QED
      BY <1>2, <2>2, <3>2
  <2> QED
    BY <2>1, <2>3
<1> QED
  BY <1>1, <1>4, <1>5 DEF Bounded

\* A charge that does not join is more than half a cent above the average.
LEMMA BoundedApart ==
    ASSUME NEW n \in Nat, NEW s \in Int, NEW lo \in Int, NEW t \in Int, 1 <= n,
           Bounded(n, s, lo, t), ~(5 * (n * t - s) <= s)
    PROVE  2 * s + n < 2 * (n * t)
<1>1. 1 <= lo /\ lo <= t /\ n * lo <= s /\ s <= n * t /\ (lo = 1 => s = n)
  BY DEF Bounded
<1>2. n * lo \in Int /\ n * t \in Int /\ 6 * s < 5 * (n * t)
  OBVIOUS
<1>3. CASE 3 <= t
  <2>1. n * 3 <= n * t
    BY <1>3
  <2> QED
    BY <1>2, <2>1
<1>4. CASE t = 2
  <2>1. n * t = 2 * n /\ (lo = 1 \/ lo = 2)
    BY <1>1, <1>4
  <2>2. lo = 2 => n * lo = 2 * n
    OBVIOUS
  <2> QED
    BY <1>1, <1>2, <2>1, <2>2
<1>5. CASE t = 1
  <2>1. n * t = n /\ lo = 1
    BY <1>1, <1>5
  <2> QED
    BY <1>1, <1>2, <2>1
<1> QED
  BY <1>1, <1>3, <1>4, <1>5

\* So are all that follow it.
LEMMA ApartGrows ==
    ASSUME NEW n \in Nat, NEW s \in Int, NEW lo \in Int, NEW t \in Int,
           2 * s + n < 2 * (n * lo), lo <= t
    PROVE  2 * s + n < 2 * (n * t)
<1>1. n * lo <= n * t
  OBVIOUS
<1>2. n * lo \in Int /\ n * t \in Int
  OBVIOUS
<1> QED
  BY <1>1, <1>2

\* The upper bound of a cluster may be raised.
LEMMA BoundedGrows ==
    ASSUME NEW n \in Nat, NEW s \in Int, NEW lo \in Int, NEW t \in Int, NEW h \in Int,
           Bounded(n, s, lo, t), t <= h
    PROVE  Bounded(n, s, lo, h)
<1>1. n * t <= n * h
  OBVIOUS
<1>2. n * t \in Int /\ n * h \in Int /\ n * lo \in Int
  OBVIOUS
<1> QED
  BY <1>1, <1>2 DEF Bounded

\* Rounded to cents, averages so far apart differ (Average).
LEMMA AveragesApart ==
    ASSUME NEW n \in Nat, NEW s \in Int, NEW lo \in Int, NEW m \in Nat, NEW r \in Int,
           1 <= n, 1 <= m, 2 * s + n < 2 * (n * lo), m * lo <= r
    PROVE  (2 * s + n) \div (2 * n) # (2 * r + m) \div (2 * m)
<1>1. (2 * s + n) \div (2 * n) \in Int /\ (2 * s + n) \div (2 * n) < lo
  <2> DEFINE a == 2 * s + n
             b == 2 * n
  <2>1. n * lo \in Int /\ (2 * n) * lo = 2 * (n * lo)
    OBVIOUS
  <2>2. a \in Int /\ b \in Int /\ 0 < b /\ a < b * lo
    BY <2>1
  <2> HIDE DEF a, b
  <2>3. a \div b \in Int /\ a \div b < lo
    BY <2>2, QuotientBelow
  <2> QED
    BY <2>3 DEF a, b
<1>2. (2 * r + m) \div (2 * m) \in Int /\ lo <= (2 * r + m) \div (2 * m)
  <2> DEFINE a == 2 * r + m
             b == 2 * m
  <2>1. m * lo \in Int /\ (2 * m) * lo = 2 * (m * lo)
    OBVIOUS
  <2>2. a \in Int /\ b \in Int /\ 0 < b /\ b * lo <= a
    BY <2>1
  <2> HIDE DEF a, b
  <2>3. a \div b \in Int /\ lo <= a \div b
    BY <2>2, QuotientAbove
  <2> QED
    BY <2>3 DEF a, b
<1> QED
  BY <1>1, <1>2


\* The charges of merchants, as _cluster_by_amount gets them.
Payment == {t \in Transaction : t.amount > 0}

\* A charge is a cent at least.
LEMMA PaymentAmount ==
    ASSUME NEW t \in Payment
    PROVE  t.amount \in Int /\ 1 <= t.amount
  BY DEF Payment, Transaction

\* The amounts of charges.
LEMMA AmountsType ==
    ASSUME NEW c \in Seq(Payment)
    PROVE  /\ Amounts(c) \in Seq(Int) /\ Len(Amounts(c)) = Len(c) /\ Len(c) \in Nat
           /\ \A i \in 1..Len(c) : Amounts(c)[i] = c[i].amount /\ c[i] \in Payment
<1>1. Len(c) \in Nat /\ DOMAIN c = 1..Len(c) /\ \A i \in 1..Len(c) : c[i] \in Payment
  BY ElementOfSeq
<1>2. \A i \in 1..Len(c) : c[i].amount \in Int
  BY <1>1, PaymentAmount
<1>3. Amounts(c) \in [1..Len(c) -> Int]
  BY <1>1, <1>2 DEF Amounts
<1>4. \A i \in 1..Len(c) : Amounts(c)[i] = c[i].amount
  BY <1>1 DEF Amounts
<1> QED
  BY <1>1, <1>3, <1>4

\* The amounts of one more charge.
LEMMA AmountsAppend ==
    ASSUME NEW c \in Seq(Payment), NEW t \in Payment
    PROVE  Amounts(Append(c, t)) = Append(Amounts(c), t.amount)
<1> DEFINE d == Append(c, t)
           e == Append(Amounts(c), t.amount)
<1>1. d \in Seq(Payment) /\ Len(d) = Len(c) + 1 /\ (\A i \in 1..Len(c) : d[i] = c[i]) /\ d[Len(c) + 1] = t
  BY AppendProperties
<1> HIDE DEF d
<1>2. /\ Amounts(c) \in Seq(Int) /\ Len(Amounts(c)) = Len(c) /\ Len(c) \in Nat
      /\ \A i \in 1..Len(c) : Amounts(c)[i] = c[i].amount
  BY AmountsType
<1>3. /\ Amounts(d) \in Seq(Int) /\ Len(Amounts(d)) = Len(d)
      /\ \A i \in 1..Len(d) : Amounts(d)[i] = d[i].amount
  BY <1>1, AmountsType
<1> DEFINE a == Amounts(c)
           b == Amounts(d)
<1>4. a \in Seq(Int) /\ t.amount \in Int
  BY <1>2, PaymentAmount
<1>5. e \in Seq(Int) /\ Len(e) = Len(a) + 1 /\ (\A i \in 1..Len(a) : e[i] = a[i]) /\ e[Len(a) + 1] = t.amount
  <2> HIDE DEF a
  <2>1. Append(a, t.amount) \in Seq(Int) /\ Len(Append(a, t.amount)) = Len(a) + 1
        /\ (\A i \in 1..Len(a) : Append(a, t.amount)[i] = a[i]) /\ Append(a, t.amount)[Len(a) + 1] = t.amount
    BY <1>4, AppendProperties
  <2> QED
    BY <2>1 DEF a
<1> HIDE DEF e
<1>6. ASSUME NEW i \in 1..Len(b) PROVE b[i] = e[i]
  <2>1. CASE i = Len(c) + 1
    BY <1>1, <1>2, <1>3, <1>5, <2>1
  <2>2. CASE i # Len(c) + 1
    <3>1. i \in 1..Len(c) /\ i \in 1..Len(d)
      BY <1>1, <1>2, <1>3, <2>2
    <3> QED
      BY <1>1, <1>2, <1>3, <1>5, <3>1
  <2> QED
    BY <2>1, <2>2
<1>7. b = e
  <2>1. b \in Seq(Int) /\ Len(b) = Len(e)
    BY <1>1, <1>2, <1>3, <1>5
  <2> HIDE DEF b
  <2> QED
    BY <1>5, <1>6, <2>1, SeqEqual
<1> QED
  BY <1>7 DEF d, e

\* Cents of some charges together.
Total(c) == SumSeq(Amounts(c))

\* One more charge adds its amount.
LEMMA TotalAppend ==
    ASSUME NEW c \in Seq(Payment), NEW t \in Payment
    PROVE  Total(Append(c, t)) = Total(c) + t.amount /\ Total(c) \in Int
  BY AmountsAppend, AmountsType, PaymentAmount, SumAppend, SumType DEF Total

\* One charge adds up to its amount.
LEMMA TotalOne ==
    ASSUME NEW t \in Payment
    PROVE  Total(<<t>>) = t.amount
<1>1. <<>> \in Seq(Payment) /\ Append(<<>>, t) = <<t>>
  OBVIOUS
<1>2. Total(<<t>>) = Total(<<>>) + t.amount
  BY <1>1, TotalAppend
<1>3. Total(<<>>) = 0
  <2>1. Amounts(<<>>) = <<>>
    BY DEF Amounts
  <2> QED
    BY <2>1, SumEmpty DEF Total
<1> QED
  BY <1>2, <1>3, PaymentAmount

\* The next charge joins the last cluster or begins one (WithNext).
LEMMA WithNextParts ==
    ASSUME NEW T, NEW cs \in Seq(Seq(T)), NEW t \in T
    PROVE  \/ /\ 1 <= Len(cs) /\ Joins(t, cs[Len(cs)])
              /\ WithNext(cs, t) \in Seq(Seq(T)) /\ Len(WithNext(cs, t)) = Len(cs)
              /\ \A k \in 1..(Len(cs) - 1) : WithNext(cs, t)[k] = cs[k]
              /\ WithNext(cs, t)[Len(cs)] = Append(cs[Len(cs)], t)
           \/ /\ 1 <= Len(cs) => ~Joins(t, cs[Len(cs)])
              /\ WithNext(cs, t) \in Seq(Seq(T)) /\ Len(WithNext(cs, t)) = Len(cs) + 1
              /\ \A k \in 1..Len(cs) : WithNext(cs, t)[k] = cs[k]
              /\ WithNext(cs, t)[Len(cs) + 1] = <<t>>
<1>1. Len(cs) \in Nat /\ (cs # <<>> => 1 <= Len(cs)) /\ (cs = <<>> => Len(cs) = 0)
  BY EmptySeq
<1>2. CASE cs # <<>> /\ Joins(t, Last(cs))
  <2> DEFINE n == Len(cs)
             c == cs[n]
             f == SubSeq(cs, 1, n - 1)
             d == Append(c, t)
  <2>1. n \in Nat /\ 1 <= n /\ \A i \in 1..n : cs[i] \in Seq(T)
    BY <1>1, <1>2, ElementOfSeq
  <2>2. WithNext(cs, t) = Append(f, d) /\ Joins(t, c)
    BY <1>2 DEF WithNext, Front, Last
  <2>3. c \in Seq(T)
    BY <2>1
  <2> HIDE DEF n, c
  <2>4. d \in Seq(T)
    BY <2>3, AppendProperties
  <2>5. f \in Seq(Seq(T)) /\ Len(f) = n - 1 /\ \A i \in 1..(n - 1) : f[i] = cs[i]
    <3>1. \A i \in 1..(n - 1) : cs[i] \in Seq(T)
      BY <2>1
    <3> QED
      BY <2>1, <3>1, SubSeqProperties
  <2> HIDE DEF f, d
  <2> DEFINE r == Append(f, d)
  <2>6. r \in Seq(Seq(T)) /\ Len(r) = Len(f) + 1 /\ (\A i \in 1..Len(f) : r[i] = f[i]) /\ r[Len(f) + 1] = d
    BY <2>4, <2>5, AppendProperties
  <2> HIDE DEF r
  <2>7. Len(r) = n /\ (\A i \in 1..(n - 1) : r[i] = cs[i]) /\ r[n] = d
    BY <2>1, <2>5, <2>6
  <2> QED
    BY <2>1, <2>2, <2>6, <2>7 DEF r, n, c, d
<1>3. CASE ~(cs # <<>> /\ Joins(t, Last(cs)))
  <2>1. WithNext(cs, t) = Append(cs, <<t>>)
    BY <1>3 DEF WithNext
  <2>2. <<t>> \in Seq(T)
    OBVIOUS
  <2>3. /\ Append(cs, <<t>>) \in Seq(Seq(T)) /\ Len(Append(cs, <<t>>)) = Len(cs) + 1
        /\ (\A k \in 1..Len(cs) : Append(cs, <<t>>)[k] = cs[k])
        /\ Append(cs, <<t>>)[Len(cs) + 1] = <<t>>
    BY <2>2, AppendProperties
  <2>4. 1 <= Len(cs) => ~Joins(t, cs[Len(cs)])
    <3>1. 1 <= Len(cs) => cs # <<>>
      BY <1>1
    <3> QED
      BY <1>3, <3>1 DEF Last
  <2> QED
    BY <2>1, <2>3, <2>4
<1> QED
  BY <1>2, <1>3

\* f[i] are the clusters of the first i charges of s.
ClustersUpTo(f, s) == f[0] = <<>> /\ \A i \in 1..Len(s) : f[i] = WithNext(f[i - 1], s[i])

\* The clusters of Cluster, charge by charge.
LEMMA ClusterDef ==
    ASSUME NEW T, NEW s \in Seq(T)
    PROVE  \E f \in [0..Len(s) -> Seq(Seq(T))] :
               ClustersUpTo(f, s) /\ Cluster(s) = f[Len(s)]
<1> DEFINE upTo[i \in 0..Len(s)] ==
               IF i = 0 THEN <<>> ELSE WithNext(upTo[i - 1], s[i])
           Step(i) == [u \in Seq(Seq(T)) |-> WithNext(u, s[i])]
           D == [i \in 1..Len(s) |-> Step(i)]
<1>1. Len(s) \in Nat /\ <<>> \in Seq(Seq(T)) /\ \A i \in 1..Len(s) : s[i] \in T
  BY ElementOfSeq
<1>2. D \in [1..Len(s) -> [Seq(Seq(T)) -> Seq(Seq(T))]]
  <2>1. ASSUME NEW i \in 1..Len(s), NEW u \in Seq(Seq(T)) PROVE WithNext(u, s[i]) \in Seq(Seq(T))
    BY <1>1, WithNextParts
  <2>2. ASSUME NEW i \in 1..Len(s) PROVE Step(i) \in [Seq(Seq(T)) -> Seq(Seq(T))]
    BY <2>1
  <2> HIDE DEF Step
  <2> QED
    BY <2>2
<1>3. \A u \in Seq(Seq(T)), i \in 1..Len(s) : D[i][u] = WithNext(u, s[i])
  OBVIOUS
<1> HIDE DEF D
<1>4. PICK f \in [0..Len(s) -> Seq(Seq(T))] : Recurs(f, <<>>, D, 0, Len(s))
  <2>1. 0 \in Nat /\ 0 <= Len(s) /\ 1 = 0 + 1
    BY <1>1
  <2> QED
    BY <1>1, <1>2, <2>1, Recursion
<1>5. f[0] = <<>> /\ \A i \in 1..Len(s) : f[i] = D[i][f[i - 1]]
  BY <1>4 DEF Recurs
<1>6. ASSUME NEW i \in 1..Len(s) PROVE f[i] = WithNext(f[i - 1], s[i])
  <2>1. i - 1 \in 0..Len(s)
    BY <1>1
  <2>2. f[i - 1] \in Seq(Seq(T))
    BY <2>1
  <2> QED
    BY <1>3, <1>5, <2>2
<1>7. f = [i \in 0..Len(s) |-> IF i = 0 THEN <<>> ELSE WithNext(f[i - 1], s[i])]
  <2>1. ASSUME NEW i \in 0..Len(s)
        PROVE  f[i] = IF i = 0 THEN <<>> ELSE WithNext(f[i - 1], s[i])
    <3>1. i = 0 \/ i \in 1..Len(s)
      BY <1>1
    <3> QED
      BY <1>5, <1>6, <3>1
  <2> QED
    BY <2>1
<1>8. upTo = [i \in 0..Len(s) |-> IF i = 0 THEN <<>> ELSE WithNext(upTo[i - 1], s[i])]
  BY <1>7
<1> HIDE DEF upTo
<1>9. ASSUME NEW i \in 1..Len(s) PROVE upTo[i] = WithNext(upTo[i - 1], s[i])
  <2>1. i \in 0..Len(s) /\ i # 0
    BY <1>1
  <2> QED
    BY <1>8, <2>1
<1>10. upTo[0] = <<>>
  BY <1>1, <1>8
<1>11. \A i \in 0..Len(s) : upTo[i] \in Seq(Seq(T))
  <2> DEFINE S == {i \in 0..Len(s) : upTo[i] \in Seq(Seq(T))}
  <2>1. 0 \in S
    <3>1. upTo[0] \in Seq(Seq(T))
      BY <1>1, <1>10, Zenon
    <3>2. 0 \in 0..Len(s)
      BY <1>1
    <3> QED
      BY <3>1, <3>2
  <2>2. ASSUME NEW k \in 0..(Len(s) - 1), k \in S PROVE k + 1 \in S
    <3>1. k + 1 \in 1..Len(s) /\ k + 1 \in 0..Len(s) /\ (k + 1) - 1 = k
      BY <1>1
    <3>2. upTo[k + 1] = WithNext(upTo[k], s[k + 1]) /\ s[k + 1] \in T /\ upTo[k] \in Seq(Seq(T))
      BY <1>1, <1>9, <2>2, <3>1
    <3>3. WithNext(upTo[k], s[k + 1]) \in Seq(Seq(T))
      BY <3>2, WithNextParts
    <3> QED
      BY <3>1, <3>2, <3>3
  <2> HIDE DEF S
  <2>3. 0..Len(s) \subseteq S
    BY <1>1, <2>1, <2>2, InductionUpTo
  <2> QED
    BY <2>3 DEF S
<1>12. upTo \in [0..Len(s) -> Seq(Seq(T))]
  BY <1>8, <1>11
<1>13. Cluster(s) = upTo[Len(s)]
  BY DEF Cluster, upTo
<1>14. ClustersUpTo(upTo, s)
  BY <1>9, <1>10 DEF ClustersUpTo
<1> QED
  BY <1>12, <1>13, <1>14

\* A charge not below those of a cluster joins it if it is not too far above them.
LEMMA JoinsBounded ==
    ASSUME NEW c \in Seq(Payment), NEW t \in Payment, NEW lo \in Int, 1 <= Len(c),
           Bounded(Len(c), Total(c), lo, t.amount)
    PROVE  Joins(t, c) <=> 5 * (Len(c) * t.amount - Total(c)) <= Total(c)
<1> DEFINE n == Len(c)
           s == Total(c)
           a == t.amount
<1>1. n \in Nat /\ 1 <= n /\ s \in Int /\ a \in Int
  BY AmountsType, TotalAppend, PaymentAmount
<1>2. Joins(t, c) <=> s > 0 /\ 5 * Distance(n * a, s) <= s
  BY DEF Joins, Total
<1>3. Bounded(n, s, lo, a)
  OBVIOUS
<1> HIDE DEF n, s, a
<1>4. 1 <= lo /\ n * lo <= s /\ s <= n * a
  BY <1>3 DEF Bounded
<1>5. n * lo \in Int /\ n * a \in Int /\ n * 1 <= n * lo
  BY <1>1, <1>4
<1>6. s > 0
  BY <1>1, <1>4, <1>5
<1> DEFINE m == n * a
<1>7. m \in Int /\ s <= m
  BY <1>4, <1>5
<1> HIDE DEF m
<1>8. Distance(m, s) = m - s
  BY <1>1, <1>7 DEF Distance
<1> QED
  BY <1>2, <1>6, <1>8 DEF m, n, s, a

\* The clusters of charges of at most h cents, from small to large.
Clustered(cs, h) ==
    /\ \A k \in 1..Len(cs) :
           1 <= Len(cs[k]) /\ Bounded(Len(cs[k]), Total(cs[k]), cs[k][1].amount, h)
    /\ \A k, l \in 1..Len(cs) :
           k < l => 2 * Total(cs[k]) + Len(cs[k]) < 2 * (Len(cs[k]) * cs[l][1].amount)

\* Types of the first charge of a cluster.
LEMMA ClusterFacts ==
    ASSUME NEW c \in Seq(Payment), 1 <= Len(c)
    PROVE  /\ Len(c) \in Nat /\ Total(c) \in Int /\ c[1] \in Payment /\ c[1].amount \in Int
           /\ 1 <= c[1].amount
<1>1. c[1] \in Payment
  BY ElementOfSeq
<1> QED
  BY <1>1, AmountsType, TotalAppend, PaymentAmount

\* The next charge in ascending order leaves the clusters apart.
LEMMA WithNextClustered ==
    ASSUME NEW cs \in Seq(Seq(Payment)), NEW t \in Payment, Clustered(cs, t.amount)
    PROVE  Clustered(WithNext(cs, t), t.amount)
<1> DEFINE n == Len(cs)
           r == WithNext(cs, t)
           a == t.amount
<1>1. n \in Nat /\ a \in Int /\ 1 <= a
  BY PaymentAmount
<1>2. \A k \in 1..n : cs[k] \in Seq(Payment)
  BY ElementOfSeq
<1>3. /\ \A k \in 1..n : 1 <= Len(cs[k]) /\ Bounded(Len(cs[k]), Total(cs[k]), cs[k][1].amount, a)
      /\ \A k, l \in 1..n :
             k < l => 2 * Total(cs[k]) + Len(cs[k]) < 2 * (Len(cs[k]) * cs[l][1].amount)
  BY DEF Clustered
<1>4. CASE /\ 1 <= n /\ Joins(t, cs[n])
           /\ r \in Seq(Seq(Payment)) /\ Len(r) = n
           /\ \A k \in 1..(n - 1) : r[k] = cs[k]
           /\ r[n] = Append(cs[n], t)
  <2> DEFINE c == cs[n]
             d == Append(c, t)
  <2>1. n \in 1..n
    BY <1>1, <1>4
  <2>2. c \in Seq(Payment) /\ 1 <= Len(c) /\ Bounded(Len(c), Total(c), c[1].amount, a) /\ Joins(t, c)
    BY <1>2, <1>3, <1>4, <2>1
  <2>3. r[n] = d
    BY <1>4
  <2> HIDE DEF c, n, r
  <2>4. /\ d \in Seq(Payment) /\ Len(d) = Len(c) + 1 /\ (\A i \in 1..Len(c) : d[i] = c[i])
        /\ Total(d) = Total(c) + a
    BY <2>2, AppendProperties, TotalAppend
  <2>5. Len(c) \in Nat /\ Total(c) \in Int /\ c[1].amount \in Int
    BY <2>2, ClusterFacts
  <2>6. 1 <= Len(d) /\ d[1] = c[1]
    BY <2>2, <2>4, <2>5
  <2>7. 5 * (Len(c) * a - Total(c)) <= Total(c)
    BY <2>2, <2>5, JoinsBounded
  <2> HIDE DEF d, a
  <2>8. Bounded(Len(d), Total(d), d[1].amount, a)
    BY <1>1, <2>2, <2>4, <2>5, <2>6, <2>7, BoundedJoins
  <2>9. ASSUME NEW k \in 1..n
        PROVE  1 <= Len(r[k]) /\ Bounded(Len(r[k]), Total(r[k]), r[k][1].amount, a)
               /\ r[k][1] = cs[k][1] /\ (k # n => r[k] = cs[k])
    <3>1. CASE k = n
      BY <2>3, <2>6, <2>8, <3>1 DEF c
    <3>2. CASE k # n
      <4>1. k \in 1..(n - 1)
        BY <1>1, <3>2
      <4>2. r[k] = cs[k]
        BY <1>4, <4>1
      <4> QED
        BY <1>3, <4>2
    <3> QED
      BY <3>1, <3>2
  <2>10. ASSUME NEW k \in 1..n, NEW l \in 1..n, k < l
         PROVE  2 * Total(r[k]) + Len(r[k]) < 2 * (Len(r[k]) * r[l][1].amount)
    <3>1. k # n
      BY <1>1, <2>10
    <3>2. r[k] = cs[k] /\ r[l][1] = cs[l][1]
      BY <2>9, <3>1
    <3> QED
      BY <1>3, <2>10, <3>2
  <2> QED
    BY <1>4, <2>9, <2>10 DEF Clustered, r, a
<1>5. CASE /\ 1 <= n => ~Joins(t, cs[n])
           /\ r \in Seq(Seq(Payment)) /\ Len(r) = n + 1
           /\ \A k \in 1..n : r[k] = cs[k]
           /\ r[n + 1] = <<t>>
  <2>1. Total(<<t>>) = a /\ Len(<<t>>) = 1 /\ <<t>>[1] = t
    BY TotalOne
  <2>2. Bounded(1, a, a, a)
    BY <1>1 DEF Bounded
  <2>3. ASSUME NEW k \in 1..n
        PROVE  2 * Total(cs[k]) + Len(cs[k]) < 2 * (Len(cs[k]) * a)
    <3> DEFINE c == cs[n]
    <3>1. n \in 1..n
      BY <1>1
    <3>2. c \in Seq(Payment) /\ 1 <= Len(c) /\ Bounded(Len(c), Total(c), c[1].amount, a) /\ ~Joins(t, c)
      BY <1>1, <1>2, <1>3, <1>5, <3>1
    <3> DEFINE b == cs[k]
               lo == c[1].amount
    <3>3. b \in Seq(Payment) /\ 1 <= Len(b)
      BY <1>2, <1>3
    <3>4. k = n \/ 2 * Total(b) + Len(b) < 2 * (Len(b) * lo)
      <4>1. k = n \/ k < n
        BY <1>1
      <4> QED
        BY <1>3, <3>1, <4>1
    <3>5. k = n => b = c
      OBVIOUS
    <3> HIDE DEF b, c, n, r
    <3>6. Len(c) \in Nat /\ Total(c) \in Int /\ lo \in Int /\ Len(b) \in Nat /\ Total(b) \in Int
      BY <3>2, <3>3, ClusterFacts
    <3>7. ~(5 * (Len(c) * a - Total(c)) <= Total(c))
      BY <3>2, <3>6, JoinsBounded
    <3> HIDE DEF lo, a
    <3>8. Bounded(Len(c), Total(c), lo, a)
      BY <3>2 DEF lo
    <3>9. 2 * Total(c) + Len(c) < 2 * (Len(c) * a)
      BY <1>1, <3>2, <3>6, <3>7, <3>8, BoundedApart
    <3>10. lo <= a
      BY <3>8 DEF Bounded
    <3>11. 2 * Total(b) + Len(b) < 2 * (Len(b) * a)
      <4>1. CASE k = n
        BY <3>5, <3>9, <4>1
      <4>2. CASE k # n
        <5>1. 2 * Total(b) + Len(b) < 2 * (Len(b) * lo)
          BY <3>4, <4>2
        <5> QED
          BY <1>1, <3>6, <3>10, <5>1, ApartGrows
      <4> QED
        BY <4>1, <4>2
    <3> QED
      BY <3>11 DEF b
  <2> HIDE DEF r, n
  <2>4. ASSUME NEW k \in 1..(n + 1)
        PROVE  1 <= Len(r[k]) /\ Bounded(Len(r[k]), Total(r[k]), r[k][1].amount, a)
    <3>1. CASE k = n + 1
      <4>1. r[k] = <<t>>
        BY <1>5, <3>1
      <4>2. Bounded(Len(<<t>>), Total(<<t>>), <<t>>[1].amount, a) /\ 1 <= Len(<<t>>)
        BY <2>1, <2>2
      <4> QED
        BY <4>1, <4>2
    <3>2. CASE k # n + 1
      <4>1. k \in 1..n
        BY <1>1, <3>2
      <4>2. r[k] = cs[k]
        BY <1>5, <4>1
      <4> QED
        BY <1>3, <4>1, <4>2
    <3> QED
      BY <3>1, <3>2
  <2>5. ASSUME NEW k \in 1..(n + 1), NEW l \in 1..(n + 1), k < l
        PROVE  2 * Total(r[k]) + Len(r[k]) < 2 * (Len(r[k]) * r[l][1].amount)
    <3>1. k \in 1..n
      BY <1>1, <2>5
    <3>2. r[k] = cs[k]
      BY <1>5, <3>1
    <3>3. CASE l = n + 1
      <4>1. r[l][1].amount = a
        BY <1>5, <2>1, <3>3
      <4> QED
        BY <2>3, <3>1, <3>2, <4>1
    <3>4. CASE l # n + 1
      <4>1. l \in 1..n
        BY <1>1, <3>4
      <4>2. r[l] = cs[l]
        BY <1>5, <4>1
      <4> QED
        BY <1>3, <2>5, <3>1, <3>2, <4>1, <4>2
    <3> QED
      BY <3>3, <3>4
  <2> QED
    BY <1>5, <2>4, <2>5 DEF Clustered, r
<1>6. \/ /\ 1 <= n /\ Joins(t, cs[n])
         /\ r \in Seq(Seq(Payment)) /\ Len(r) = n
         /\ \A k \in 1..(n - 1) : r[k] = cs[k]
         /\ r[n] = Append(cs[n], t)
      \/ /\ 1 <= n => ~Joins(t, cs[n])
         /\ r \in Seq(Seq(Payment)) /\ Len(r) = n + 1
         /\ \A k \in 1..n : r[k] = cs[k]
         /\ r[n + 1] = <<t>>
  BY WithNextParts
<1> QED
  BY <1>4, <1>5, <1>6

\* The upper bound of all clusters may be raised.
LEMMA ClusteredGrows ==
    ASSUME NEW cs \in Seq(Seq(Payment)), NEW h \in Int, NEW t \in Int, Clustered(cs, h), h <= t
    PROVE  Clustered(cs, t)
<1>1. ASSUME NEW k \in 1..Len(cs)
      PROVE  1 <= Len(cs[k]) /\ Bounded(Len(cs[k]), Total(cs[k]), cs[k][1].amount, t)
  <2> DEFINE c == cs[k]
  <2>1. c \in Seq(Payment) /\ 1 <= Len(c) /\ Bounded(Len(c), Total(c), c[1].amount, h)
    BY ElementOfSeq DEF Clustered
  <2> HIDE DEF c
  <2>2. Len(c) \in Nat /\ Total(c) \in Int /\ c[1].amount \in Int
    BY <2>1, ClusterFacts
  <2>3. Bounded(Len(c), Total(c), c[1].amount, t)
    BY <2>1, <2>2, BoundedGrows
  <2> QED
    BY <2>1, <2>3 DEF c
<1> QED
  BY <1>1 DEF Clustered

\* Each cluster of charges in ascending order is apart from those before it.
LEMMA ClusterClusters ==
    ASSUME NEW s \in Seq(Payment), \A i, j \in 1..Len(s) : i < j => s[i].amount <= s[j].amount
    PROVE  Cluster(s) \in Seq(Seq(Payment)) /\ \E h \in Int : Clustered(Cluster(s), h)
<1>1. PICK f \in [0..Len(s) -> Seq(Seq(Payment))] : ClustersUpTo(f, s) /\ Cluster(s) = f[Len(s)]
  BY ClusterDef
<1>2. Len(s) \in Nat /\ \A i \in 1..Len(s) : s[i] \in Payment /\ s[i].amount \in Int
  <2>1. \A i \in 1..Len(s) : s[i] \in Payment
    BY ElementOfSeq
  <2> QED
    BY <2>1, PaymentAmount
<1> DEFINE Within(i, h) == \A j \in 1..i : s[j].amount <= h
           S == {i \in 0..Len(s) : \A h \in Int : Within(i, h) => Clustered(f[i], h)}
<1>3. 0 \in S
  <2>1. f[0] = <<>> /\ 0 \in 0..Len(s) /\ Len(<<>>) = 0
    BY <1>1, <1>2 DEF ClustersUpTo
  <2>2. \A h \in Int : Clustered(f[0], h)
    <3>1. \A k \in 1..0 : FALSE
      OBVIOUS
    <3> QED
      BY <2>1, <3>1 DEF Clustered
  <2> QED
    BY <2>1, <2>2
<1>4. ASSUME NEW k \in 0..(Len(s) - 1), k \in S PROVE k + 1 \in S
  <2> DEFINE t == s[k + 1]
  <2>1. k + 1 \in 1..Len(s) /\ k + 1 \in 0..Len(s) /\ k \in 0..Len(s) /\ (k + 1) - 1 = k
    BY <1>2
  <2>2. f[k + 1] = WithNext(f[k], t) /\ f[k] \in Seq(Seq(Payment)) /\ f[k + 1] \in Seq(Seq(Payment))
    BY <1>1, <2>1 DEF ClustersUpTo
  <2>3. t \in Payment /\ t.amount \in Int
    BY <1>2, <2>1
  <2>4. Within(k, t.amount)
    <3>1. ASSUME NEW j \in 1..k PROVE s[j].amount <= s[k + 1].amount
      <4>1. j \in 1..Len(s) /\ j < k + 1
        BY <1>2
      <4> QED
        BY <2>1, <4>1
    <3> QED
      BY <3>1
  <2>5. Clustered(f[k], t.amount)
    BY <1>4, <2>3, <2>4
  <2>6. Clustered(f[k + 1], t.amount)
    <3> HIDE DEF t
    <3> QED
      BY <2>2, <2>3, <2>5, WithNextClustered
  <2>7. ASSUME NEW h \in Int, Within(k + 1, h) PROVE Clustered(f[k + 1], h)
    <3>1. t.amount <= h
      <4>1. k + 1 \in 1..(k + 1)
        BY <1>2
      <4> QED
        BY <2>7, <4>1
    <3> HIDE DEF t
    <3> QED
      BY <2>2, <2>3, <2>6, <3>1, ClusteredGrows
  <2> QED
    BY <2>1, <2>7
<1>5. 0..Len(s) \subseteq S
  <2> HIDE DEF S
  <2> QED
    BY <1>2, <1>3, <1>4, InductionUpTo
<1>6. Len(s) \in 0..Len(s)
  BY <1>2
<1>7. \E h \in Int : Within(Len(s), h)
  <2>1. CASE Len(s) = 0
    <3>1. Within(Len(s), 0)
      BY <2>1
    <3> QED
      BY <3>1
  <2>2. CASE Len(s) # 0
    <3>1. Len(s) \in 1..Len(s)
      BY <1>2, <2>2
    <3>2. ASSUME NEW j \in 1..Len(s) PROVE s[j].amount <= s[Len(s)].amount
      <4>1. j = Len(s) \/ j < Len(s)
        BY <1>2
      <4>2. s[j].amount \in Int
        BY <1>2
      <4> QED
        BY <3>1, <4>1, <4>2
    <3>3. s[Len(s)].amount \in Int
      BY <1>2, <3>1
    <3> QED
      BY <3>2, <3>3
  <2> QED
    BY <2>1, <2>2
<1>8. \E h \in Int : Clustered(f[Len(s)], h)
  BY <1>5, <1>6, <1>7
<1>9. f[Len(s)] \in Seq(Seq(Payment))
  BY <1>6
<1> QED
  BY <1>1, <1>8, <1>9

---------------------------------------------------------------------------
(* Candidates of a merchant *)

\* The order of charges changes neither their total nor their average.
LEMMA Reordered ==
    ASSUME NEW u \in Seq(Payment), NEW s \in Seq(Payment), NEW p, Permutes(p, u, s)
    PROVE  Total(u) = Total(s) /\ Len(u) = Len(s) /\ Average(u) = Average(s)
<1>1. /\ Len(u) = Len(s) /\ p \in [1..Len(u) -> 1..Len(u)]
      /\ (\A i, j \in 1..Len(u) : i # j => p[i] # p[j]) /\ \A i \in 1..Len(u) : u[i] = s[p[i]]
  BY DEF Permutes
<1> DEFINE a == Amounts(u)
           b == Amounts(s)
<1>2. /\ a \in Seq(Int) /\ Len(a) = Len(u) /\ \A i \in 1..Len(u) : a[i] = u[i].amount
      /\ b \in Seq(Int) /\ Len(b) = Len(s) /\ \A i \in 1..Len(s) : b[i] = s[i].amount
  BY AmountsType
<1> HIDE DEF a, b
<1>3. ASSUME NEW i \in 1..Len(a) PROVE a[i] = b[p[i]]
  <2>1. i \in 1..Len(u) /\ p[i] \in 1..Len(s)
    BY <1>1, <1>2
  <2>2. a[i] = u[i].amount
    BY <1>2, <2>1
  <2>3. b[p[i]] = s[p[i]].amount
    BY <1>2, <2>1
  <2> QED
    BY <1>1, <2>1, <2>2, <2>3
<1>4. Permutes(p, a, b)
  BY <1>1, <1>2, <1>3 DEF Permutes
<1>5. SumSeq(a) = SumSeq(b)
  BY <1>2, <1>4, PermutedSum
<1> QED
  BY <1>1, <1>5 DEF Total, Average, a, b

\* A sequence is one of its own elements.
LEMMA InOwnRange ==
    ASSUME NEW T, NEW s \in Seq(T)
    PROVE  s \in Seq(ToSet(s)) /\ ToSet(s) \subseteq T
<1>1. Len(s) \in Nat /\ s \in [1..Len(s) -> T] /\ DOMAIN s = 1..Len(s)
  OBVIOUS
<1>2. ToSet(s) \subseteq T
  BY <1>1 DEF ToSet
<1>3. s \in [1..Len(s) -> ToSet(s)]
  BY <1>1 DEF ToSet
<1>4. \A n \in Nat : \A f \in [1..n -> ToSet(s)] : f \in Seq(ToSet(s))
  OBVIOUS
<1> QED
  BY <1>1, <1>2, <1>3, <1>4

\* The charges in the order of their amounts, as _cluster_by_amount sorts them.
LEMMA ByAmount ==
    ASSUME NEW s \in Seq(Payment)
    PROVE  /\ Sorted(s, Cheaper(s)) \in Seq(Payment)
           /\ \E p : Permutes(p, Sorted(s, Cheaper(s)), s)
           /\ \A i, j \in 1..Len(Sorted(s, Cheaper(s))) :
                  i < j => Sorted(s, Cheaper(s))[i].amount <= Sorted(s, Cheaper(s))[j].amount
<1> DEFINE T == ToSet(s)
           before == Cheaper(s)
           u == Sorted(s, before)
<1>1. s \in Seq(T) /\ T \subseteq Payment
  BY InOwnRange
<1>2. \A x \in T : x.amount \in Int
  BY <1>1, PaymentAmount
<1>3. \A x, y \in T : <<x, y>> \in before <=> x.amount < y.amount
  BY DEF Cheaper
<1> HIDE DEF T, before
<1>4. WeakOrder(before, T)
  <2>1. \A a, b \in Int : a < b => ~(b < a)
    OBVIOUS
  <2>2. \A a, b, c \in Int : a < c => a < b \/ b < c
    OBVIOUS
  <2>3. \A x, y \in T : <<x, y>> \in before => <<y, x>> \notin before
    BY <1>2, <1>3, <2>1
  <2>4. \A x, y, z \in T : <<x, z>> \in before => <<x, y>> \in before \/ <<y, z>> \in before
    BY <1>2, <1>3, <2>2
  <2> QED
    BY <2>3, <2>4 DEF WeakOrder
<1>5. u \in Seq(T) /\ Ascends(u, before)
  BY <1>1, <1>4, SortedPermutes, SortedAscends
<1>6. u \in Seq(Payment) /\ \E p : Permutes(p, u, s)
  BY SortedPermutes
<1>7. ASSUME NEW i \in 1..Len(u), NEW j \in 1..Len(u), i < j
      PROVE  u[i].amount <= u[j].amount
  <2>1. u[i] \in T /\ u[j] \in T
    BY <1>5, ElementOfSeq
  <2>2. <<u[j], u[i]>> \notin before
    BY <1>5, <1>7 DEF Ascends
  <2>3. u[i].amount \in Int /\ u[j].amount \in Int /\ ~(u[j].amount < u[i].amount)
    BY <1>2, <1>3, <2>1, <2>2
  <2> QED
    BY <2>3
<1> QED
  BY <1>6, <1>7 DEF before

\* _cluster_by_amount returns clusters that are apart.
LEMMA ClusteredByAmount ==
    ASSUME NEW s \in Seq(Payment)
    PROVE  /\ _cluster_by_amount(s) \in Seq(Seq(Payment))
           /\ \E h \in Int : Clustered(_cluster_by_amount(s), h)
  BY ByAmount, ClusterClusters DEF _cluster_by_amount

\* build_candidate makes one candidate or none.
LEMMA BuildOne ==
    ASSUME NEW c \in Seq(Payment), NEW label, build_candidate(label, c) # <<>>
    PROVE  /\ Len(build_candidate(label, c)) = 1
           /\ build_candidate(label, c) = <<build_candidate(label, c)[1]>>
           /\ build_candidate(label, c)[1].label = label
           /\ build_candidate(label, c)[1].key = merchant_key(label)
           /\ build_candidate(label, c)[1].amount = Average(c)
           /\ build_candidate(label, c)[1].occurrences = Len(c)
           /\ 2 <= Len(c)
<1> DEFINE u == Sorted(c, Earlier(c))
<1>1. Average(u) = Average(c) /\ Len(u) = Len(c)
  <2>1. u \in Seq(Payment) /\ \E p : Permutes(p, u, c)
    BY SortedPermutes
  <2> QED
    BY <2>1, Reordered
<1>2. Len(c) \in Nat
  OBVIOUS
<1>3. \E f, d, e, g, o :
          /\ ~(Len(u) < 2)
          /\ build_candidate(label, c) =
                <<[label |-> label, key |-> merchant_key(label), amount |-> Average(u),
                   frequency |-> f, last_charged |-> d, next_expected |-> e, category |-> g,
                   occurrences |-> Len(u), confidence |-> o]>>
  BY Zenon DEF build_candidate
<1> HIDE DEF u
<1> QED
  BY <1>1, <1>2, <1>3

\* Candidates of one merchant differ in their amounts, and in the prices that only
\* siblings have; without a name, in their keys.
ToldApart(c, d) ==
    c.key.name = d.key.name =>
        /\ c.amount # d.amount
        /\ c.key.name = Nameless => c.key # d.key
        /\ c.key.name # Nameless =>
               /\ c.label.prices # <<>> /\ d.label.prices # <<>>
               /\ c.label.prices[1] # d.label.prices[1]

\* A key has the name of its label.
LEMMA KeyName ==
    ASSUME NEW m, NEW prices
    PROVE  merchant_key(Label(m, prices)).name = m
  BY DEF merchant_key, Label

\* An average is in whole cents.
LEMMA AverageType ==
    ASSUME NEW c \in Seq(Payment), 1 <= Len(c)
    PROVE  Average(c) \in Int
<1>1. Total(c) \in Int /\ Len(c) \in Nat
  BY ClusterFacts
<1> DEFINE n == 2 * SumSeq(Amounts(c)) + Len(c)
           d == 2 * Len(c)
<1>2. n \in Int /\ d \in Int /\ 0 < d
  BY <1>1 DEF Total
<1>3. Average(c) = n \div d
  BY DEF Average
<1> HIDE DEF n, d
<1> QED
  BY <1>2, <1>3

\* Two clusters of a merchant never have one average.
LEMMA ClusterAverages ==
    ASSUME NEW cs \in Seq(Seq(Payment)), NEW h \in Int, Clustered(cs, h),
           NEW k \in 1..Len(cs), NEW l \in 1..Len(cs), k # l
    PROVE  Average(cs[k]) # Average(cs[l])
<1>1. ASSUME NEW i \in 1..Len(cs), NEW j \in 1..Len(cs), i < j
      PROVE  Average(cs[i]) # Average(cs[j])
  <2> DEFINE c == cs[i]
             d == cs[j]
             n == Len(c)
             s == Total(c)
             lo == d[1].amount
             m == Len(d)
             r == Total(d)
  <2>1. /\ c \in Seq(Payment) /\ d \in Seq(Payment) /\ 1 <= n /\ 1 <= m
        /\ Bounded(m, r, lo, h) /\ 2 * s + n < 2 * (n * lo)
    BY <1>1, ElementOfSeq DEF Clustered
  <2>2. n \in Nat /\ m \in Nat /\ s \in Int /\ r \in Int /\ lo \in Int
    <3> HIDE DEF c, d
    <3> QED
      BY <2>1, ClusterFacts
  <2>3. Average(c) = (2 * s + n) \div (2 * n) /\ Average(d) = (2 * r + m) \div (2 * m)
    BY DEF Average, Total
  <2> HIDE DEF n, s, lo, m, r, c, d
  <2>4. m * lo <= r
    BY <2>1 DEF Bounded
  <2>5. (2 * s + n) \div (2 * n) # (2 * r + m) \div (2 * m)
    BY <2>1, <2>2, <2>4, AveragesApart
  <2> QED
    BY <2>3, <2>5 DEF c, d
<1>2. k < l \/ l < k
  OBVIOUS
<1> QED
  BY <1>1, <1>2

\* A function on 1..n is a sequence of its values' type.
LEMMA SequenceOf ==
    ASSUME NEW T, NEW n \in Nat, NEW s, s = [i \in 1..n |-> s[i]], \A i \in 1..n : s[i] \in T
    PROVE  s \in Seq(T) /\ Len(s) = n
<1>1. s \in [1..n -> T]
  OBVIOUS
<1> QED
  BY <1>1

\* The candidates r of a merchant are all its own and apart from each other.
Siblings(r, merchant) ==
    /\ r \in Seq(ToSet(r))
    /\ \A i \in 1..Len(r) :
           /\ r[i].key.name = merchant /\ r[i].key = merchant_key(r[i].label)
           /\ r[i].amount \in Int
           /\ r[i].label.prices \in Seq(Int) /\ r[i].label = Label(merchant, r[i].label.prices)
           /\ r[i].label.prices # <<>> => r[i].label.prices[1] = r[i].amount
    /\ \A i, j \in 1..Len(r) : i # j => ToldApart(r[i], r[j])

\* The candidates of a merchant carry its key and differ in amount and price.
LEMMA MerchantSiblings ==
    ASSUME NEW s \in Seq(Payment), NEW m
    PROVE  Siblings(CandidatesOf(m, s), m)
<1> DEFINE cs == _cluster_by_amount(s)
<1>1. cs \in Seq(Seq(Payment)) /\ \E h \in Int : Clustered(cs, h)
  BY ClusteredByAmount
<1>2. \A prices : Label(m, prices).name = m /\ Label(m, prices).prices = prices
  BY DEF Label
<1>3. ASSUME NEW prices \in Seq(Int), NEW c \in Seq(Payment),
             build_candidate(Label(m, prices), c) # <<>>
      PROVE  LET r == build_candidate(Label(m, prices), c)
             IN  /\ Len(r) = 1 /\ r = <<r[1]>> /\ r[1].key.name = m
                 /\ r[1].key = merchant_key(r[1].label) /\ r[1].amount = Average(c)
                 /\ r[1].amount \in Int /\ r[1].label = Label(m, prices)
                 /\ r[1].label.prices = prices
  <2> DEFINE label == Label(m, prices)
  <2>1. label.name = m /\ label.prices = prices
    BY <1>2
  <2>2. build_candidate(label, c) # <<>>
    BY <1>3
  <2>6. merchant_key(label).name = m
    BY KeyName
  <2> HIDE DEF label
  <2>3. /\ Len(build_candidate(label, c)) = 1
        /\ build_candidate(label, c) = <<build_candidate(label, c)[1]>>
        /\ build_candidate(label, c)[1].label = label
        /\ build_candidate(label, c)[1].key = merchant_key(label)
        /\ build_candidate(label, c)[1].amount = Average(c) /\ 2 <= Len(c)
    BY <2>2, BuildOne
  <2>4. Average(c) \in Int
    <3>1. Len(c) \in Nat /\ 1 <= Len(c)
      BY <2>3
    <3> QED
      BY <3>1, AverageType
  <2> DEFINE r == build_candidate(label, c)
  <2>5. Len(r) = 1 /\ r = <<r[1]>> /\ r[1].key.name = m /\ r[1].key = merchant_key(r[1].label)
        /\ r[1].amount = Average(c)
        /\ r[1].amount \in Int /\ r[1].label = label /\ r[1].label.prices = prices
    BY <2>1, <2>3, <2>4, <2>6
  <2> QED
    BY <2>5 DEF label
<1>4. CASE Len(cs) > 1
  <2> DEFINE b(i) == build_candidate(Label(m, <<Average(cs[i])>>), cs[i])
             ss == [i \in DOMAIN cs |-> b(i)]
             T == {b(i)[1] : i \in 1..Len(cs)}
             r == FlattenSeq(ss)
  <2>1. CandidatesOf(m, s) = r
    BY <1>4 DEF CandidatesOf
  <2>2. PICK h \in Int : Clustered(cs, h)
    BY <1>1
  <2> HIDE DEF cs
  <2>3. Len(cs) \in Nat /\ DOMAIN cs = 1..Len(cs)
    BY <1>1
  <2>4. ASSUME NEW k \in 1..Len(cs)
        PROVE  cs[k] \in Seq(Payment) /\ <<Average(cs[k])>> \in Seq(Int)
    <3>1. cs[k] \in Seq(Payment) /\ 1 <= Len(cs[k])
      BY <1>1, <2>2, ElementOfSeq DEF Clustered
    <3>2. Average(cs[k]) \in Int
      BY <3>1, AverageType
    <3> QED
      BY <3>1, <3>2
  <2>5. ASSUME NEW k \in 1..Len(cs), b(k) # <<>>
        PROVE  /\ Len(b(k)) = 1 /\ b(k) = <<b(k)[1]>> /\ b(k)[1].key.name = m
               /\ b(k)[1].key = merchant_key(b(k)[1].label) /\ b(k)[1].amount = Average(cs[k])
               /\ b(k)[1].amount \in Int /\ b(k)[1].label.prices = <<Average(cs[k])>>
               /\ b(k)[1].label = Label(m, <<Average(cs[k])>>)
    BY <1>3, <2>4, <2>5, ZenonT(30)
  <2> HIDE DEF b
  <2>6. ss \in Seq(Seq(T)) /\ Len(ss) = Len(cs) /\ \A k \in 1..Len(cs) : ss[k] = b(k)
    <3>1. ASSUME NEW k \in 1..Len(cs) PROVE b(k) \in Seq(T)
      <4>1. CASE b(k) = <<>>
        BY <4>1
      <4>2. CASE b(k) # <<>>
        <5>1. b(k) = <<b(k)[1]>> /\ b(k)[1] \in T
          BY <2>5, <4>2
        <5> DEFINE x == b(k)[1]
        <5>2. b(k) = <<x>> /\ x \in T
          BY <5>1
        <5> HIDE DEF x, T
        <5>3. <<x>> \in Seq(T)
          BY <5>2
        <5> QED
          BY <5>2, <5>3
      <4> QED
        BY <4>1, <4>2
    <3>2. ss = [k \in 1..Len(cs) |-> ss[k]] /\ \A k \in 1..Len(cs) : ss[k] = b(k)
      BY <2>3
    <3>3. \A k \in 1..Len(cs) : ss[k] \in Seq(T)
      BY <3>1, <3>2
    <3> HIDE DEF ss, T
    <3> QED
      BY <2>3, <3>2, <3>3, SequenceOf
  <2> HIDE DEF ss, T
  <2>7. r \in Seq(T) /\ \E at : Places(at, r, ss, Len(cs))
    BY <2>6, FlattenPlaces
  <2> HIDE DEF r
  <2>8. PICK at : Places(at, r, ss, Len(cs))
    BY <2>7
  <2>9. ASSUME NEW i \in 1..Len(r)
        PROVE  \E k \in 1..Len(cs) : r[i] = b(k)[1] /\ b(k) # <<>> /\ at[i] = <<k, 1>>
    <3> DEFINE k == at[i][1]
               l == at[i][2]
    <3>1. at[i] \in (1..Len(cs)) \X Nat /\ l \in 1..Len(ss[k]) /\ r[i] = ss[k][l]
      BY <2>8 DEF Places
    <3>2. k \in 1..Len(cs) /\ at[i] = <<k, l>>
      BY <3>1
    <3> HIDE DEF k, l
    <3>3. ss[k] = b(k)
      BY <2>6, <3>2
    <3>4. b(k) # <<>>
      <4>1. ASSUME b(k) = <<>> PROVE FALSE
        <5>1. Len(b(k)) = 0
          BY <4>1
        <5> QED
          BY <3>1, <3>3, <5>1
      <4> QED
        BY <4>1
    <3>5. Len(b(k)) = 1
      BY <2>5, <3>2, <3>4
    <3>6. l = 1
      BY <3>1, <3>3, <3>5
    <3> QED
      BY <3>1, <3>2, <3>3, <3>4, <3>6
  <2>10. ASSUME NEW i \in 1..Len(r)
         PROVE  /\ r[i].key.name = m /\ r[i].key = merchant_key(r[i].label)
                /\ r[i].amount \in Int /\ r[i].label.prices \in Seq(Int)
                /\ r[i].label = Label(m, r[i].label.prices)
                /\ r[i].label.prices # <<>> => r[i].label.prices[1] = r[i].amount
    <3>1. PICK k \in 1..Len(cs) : r[i] = b(k)[1] /\ b(k) # <<>>
      BY <2>9
    <3>2. <<Average(cs[k])>> \in Seq(Int)
      BY <2>4
    <3>3. r[i].label.prices = <<Average(cs[k])>> /\ r[i].amount = Average(cs[k])
      BY <2>5, <3>1
    <3>4. r[i].label.prices[1] = r[i].amount
      BY <3>3
    <3> QED
      BY <2>5, <3>1, <3>2, <3>4
  <2>11. ASSUME NEW i \in 1..Len(r), NEW j \in 1..Len(r), i # j PROVE ToldApart(r[i], r[j])
    <3>1. PICK k \in 1..Len(cs) : r[i] = b(k)[1] /\ b(k) # <<>> /\ at[i] = <<k, 1>>
      BY <2>9
    <3>2. PICK l \in 1..Len(cs) : r[j] = b(l)[1] /\ b(l) # <<>> /\ at[j] = <<l, 1>>
      BY <2>9
    <3>3. k # l
      <4>1. at[i] # at[j]
        BY <2>8, <2>11 DEF Places
      <4> QED
        BY <3>1, <3>2, <4>1
    <3>4. Average(cs[k]) # Average(cs[l])
      BY <1>1, <2>2, <3>3, ClusterAverages
    <3>5. r[i].amount = Average(cs[k]) /\ r[i].label.prices = <<Average(cs[k])>>
      BY <2>5, <3>1
    <3>6. r[j].amount = Average(cs[l]) /\ r[j].label.prices = <<Average(cs[l])>>
      BY <2>5, <3>2
    <3> DEFINE p == r[i].label.prices
               q == r[j].label.prices
               x == Average(cs[k])
               y == Average(cs[l])
    <3>7. p = <<x>> /\ q = <<y>> /\ x # y
      BY <3>4, <3>5, <3>6
    <3> HIDE DEF p, q, x, y
    <3>8. p # <<>> /\ q # <<>> /\ p[1] # q[1]
      BY <3>7
    <3>9. ASSUME r[i].key.name = Nameless PROVE r[i].key # r[j].key
      <4>1. /\ r[i].label.name = m /\ r[j].label.name = m
            /\ r[i].key = merchant_key(r[i].label) /\ r[j].key = merchant_key(r[j].label)
        BY <1>2, <2>10
      <4>2. m = Nameless
        BY <2>10, <3>9
      <4>3. r[i].key = r[i].label /\ r[j].key = r[j].label
        BY <4>1, <4>2 DEF merchant_key
      <4> QED
        BY <3>8, <4>3 DEF p, q
    <3> QED
      BY <3>4, <3>5, <3>6, <3>8, <3>9 DEF ToldApart, p, q
  <2>12. r \in Seq(ToSet(r))
    BY <2>7, InOwnRange
  <2> QED
    BY <2>1, <2>10, <2>11, <2>12 DEF Siblings
<1>5. CASE ~(Len(cs) > 1)
  <2> DEFINE r == build_candidate(Label(m, <<>>), s)
  <2>1. CandidatesOf(m, s) = r
    BY <1>5 DEF CandidatesOf
  <2>2. CASE r = <<>>
    <3>1. Len(<<>>) = 0 /\ <<>> \in Seq(ToSet(<<>>))
      OBVIOUS
    <3> HIDE DEF r
    <3> QED
      BY <2>1, <2>2, <3>1 DEF Siblings
  <2>3. CASE r # <<>>
    <3>1. /\ Len(r) = 1 /\ r = <<r[1]>> /\ r[1].key.name = m
          /\ r[1].key = merchant_key(r[1].label)
          /\ r[1].amount \in Int /\ r[1].label.prices = <<>> /\ r[1].label = Label(m, <<>>)
      <4>1. <<>> \in Seq(Int)
        OBVIOUS
      <4> QED
        BY <1>3, <2>3, <4>1
    <3> HIDE DEF r
    <3>2. r \in Seq(ToSet(r))
      <4> DEFINE x == r[1]
      <4>1. r = <<x>>
        BY <3>1
      <4> HIDE DEF x
      <4>2. <<x>> \in Seq({x})
        OBVIOUS
      <4>3. r \in Seq({x})
        BY <4>1, <4>2
      <4> QED
        BY <4>3, InOwnRange
    <3>3. \A i \in 1..Len(r) : i = 1
      BY <3>1
    <3>4. <<>> \in Seq(Int)
      OBVIOUS
    <3>5. \A i \in 1..Len(r) :
              /\ r[i].key.name = m /\ r[i].key = merchant_key(r[i].label)
              /\ r[i].amount \in Int /\ r[i].label.prices \in Seq(Int)
              /\ r[i].label = Label(m, r[i].label.prices) /\ r[i].label.prices = <<>>
      BY <3>1, <3>3, <3>4
    <3>6. \A i, j \in 1..Len(r) : i # j => ToldApart(r[i], r[j])
      BY <3>3
    <3> QED
      BY <2>1, <3>2, <3>5, <3>6 DEF Siblings
  <2> QED
    BY <2>2, <2>3
<1> QED
  BY <1>4, <1>5

---------------------------------------------------------------------------
(* Candidates of a bank *)

\* Where in a statement the charges of a merchant are: f tells for each of them.
Picked(f, t, m) ==
    /\ f \in [1..Len(merchant_groups(t, m)) -> 1..Len(t)]
    /\ \A i \in 1..Len(merchant_groups(t, m)) :
           merchant_groups(t, m)[i] = t[f[i]] /\ Charges(t[f[i]], m)
    /\ \A i, j \in 1..Len(merchant_groups(t, m)) : i # j => f[i] # f[j]
    /\ \A j \in 1..Len(t) : Charges(t[j], m) =>
           \E i \in 1..Len(merchant_groups(t, m)) : f[i] = j

\* Each charge is picked once (merchant_groups).
LEMMA GroupPicked ==
    ASSUME NEW t \in Seq(Transaction), NEW m
    PROVE  merchant_groups(t, m) \in Seq(Payment) /\ \E f : Picked(f, t, m)
<1> DEFINE b(i) == IF Charges(t[i], m) THEN <<t[i]>> ELSE <<>>
           ss == [i \in DOMAIN t |-> b(i)]
           r == FlattenSeq(ss)
<1>1. merchant_groups(t, m) = r
  BY DEF merchant_groups
<1>2. Len(t) \in Nat /\ DOMAIN t = 1..Len(t) /\ \A i \in 1..Len(t) : t[i] \in Transaction
  BY ElementOfSeq
<1>3. ASSUME NEW i \in 1..Len(t)
      PROVE  b(i) \in Seq(Payment) /\ (Len(b(i)) = IF Charges(t[i], m) THEN 1 ELSE 0)
             /\ (Charges(t[i], m) => b(i)[1] = t[i])
  <2> DEFINE x == t[i]
  <2>1. x \in Transaction
    BY <1>2
  <2> HIDE DEF x
  <2>2. CASE Charges(x, m)
    <3>1. x \in Payment
      BY <2>1, <2>2 DEF Charges, Payment
    <3>2. <<x>> \in Seq(Payment) /\ Len(<<x>>) = 1 /\ <<x>>[1] = x
      BY <3>1
    <3> QED
      BY <2>2, <3>2 DEF x
  <2>3. CASE ~Charges(x, m)
    <3>1. <<>> \in Seq(Payment) /\ Len(<<>>) = 0
      OBVIOUS
    <3> QED
      BY <2>3, <3>1 DEF x
  <2> QED
    BY <2>2, <2>3
<1> HIDE DEF b
<1>4. ss \in Seq(Seq(Payment)) /\ Len(ss) = Len(t) /\ \A k \in 1..Len(t) : ss[k] = b(k)
  <2>1. ss = [i \in 1..Len(t) |-> ss[i]] /\ \A k \in 1..Len(t) : ss[k] = b(k)
    BY <1>2
  <2>2. \A k \in 1..Len(t) : ss[k] \in Seq(Payment)
    BY <1>3, <2>1
  <2> HIDE DEF ss
  <2> QED
    BY <1>2, <2>1, <2>2, SequenceOf
<1> HIDE DEF ss
<1>5. r \in Seq(Payment) /\ \E at : Places(at, r, ss, Len(t))
  BY <1>4, FlattenPlaces
<1> HIDE DEF r
<1>6. PICK at : Places(at, r, ss, Len(t))
  BY <1>5
<1> DEFINE f == [i \in 1..Len(r) |-> at[i][1]]
<1>7. ASSUME NEW i \in 1..Len(r)
      PROVE  f[i] \in 1..Len(t) /\ at[i] = <<f[i], 1>> /\ r[i] = t[f[i]] /\ Charges(t[f[i]], m)
  <2> DEFINE k == at[i][1]
             l == at[i][2]
  <2>1. at[i] \in (1..Len(t)) \X Nat /\ l \in 1..Len(ss[k]) /\ r[i] = ss[k][l]
    BY <1>6 DEF Places
  <2>2. k \in 1..Len(t) /\ at[i] = <<k, l>> /\ f[i] = k
    BY <2>1
  <2> HIDE DEF k, l, f
  <2>3. ss[k] = b(k) /\ l \in 1..Len(b(k))
    BY <1>4, <2>1, <2>2
  <2>4. Charges(t[k], m)
    BY <1>3, <2>2, <2>3
  <2>5. Len(b(k)) = 1 /\ b(k)[1] = t[k]
    BY <1>3, <2>2, <2>4
  <2>6. l = 1
    BY <2>3, <2>5
  <2> QED
    BY <2>1, <2>2, <2>3, <2>4, <2>5, <2>6
<1>8. f \in [1..Len(r) -> 1..Len(t)]
  BY <1>7
<1> HIDE DEF f
<1>9. \A i, j \in 1..Len(r) : i # j => f[i] # f[j]
  <2>1. \A i, j \in 1..Len(r) : i # j => at[i] # at[j]
    BY <1>6 DEF Places
  <2> QED
    BY <1>7, <2>1
<1>10. ASSUME NEW j \in 1..Len(t), Charges(t[j], m) PROVE \E i \in 1..Len(r) : f[i] = j
  <2>1. Len(ss[j]) = 1
    BY <1>3, <1>4, <1>10
  <2>2. 1 \in 1..Len(ss[j])
    BY <2>1
  <2>3. PICK i \in 1..Len(r) : at[i] = <<j, 1>>
    BY <1>6, <2>2 DEF Places
  <2>4. at[i] = <<f[i], 1>>
    BY <1>7
  <2> QED
    BY <2>3, <2>4
<1>11. \A i \in 1..Len(r) : r[i] = t[f[i]] /\ Charges(t[f[i]], m)
  BY <1>7
<1>12. Picked(f, t, m)
  BY <1>1, <1>8, <1>9, <1>10, <1>11 DEF Picked
<1> QED
  BY <1>1, <1>5, <1>12

\* The charges of a merchant are transactions, and none is left out (merchant_groups).
LEMMA GroupCharges ==
    ASSUME NEW t \in Seq(Transaction), NEW m
    PROVE  /\ merchant_groups(t, m) \in Seq(Payment)
           /\ \A i \in 1..Len(merchant_groups(t, m)) :
                  \E j \in 1..Len(t) : merchant_groups(t, m)[i] = t[j] /\ Charges(t[j], m)
           /\ \A j \in 1..Len(t) : Charges(t[j], m) =>
                  \E i \in 1..Len(merchant_groups(t, m)) : merchant_groups(t, m)[i] = t[j]
<1> DEFINE r == merchant_groups(t, m)
<1>1. r \in Seq(Payment) /\ \E f : Picked(f, t, m)
  BY GroupPicked
<1>2. PICK f : Picked(f, t, m)
  BY <1>1
<1>3. ASSUME NEW i \in 1..Len(r) PROVE \E j \in 1..Len(t) : r[i] = t[j] /\ Charges(t[j], m)
  BY <1>2 DEF Picked
<1>4. ASSUME NEW j \in 1..Len(t), Charges(t[j], m) PROVE \E i \in 1..Len(r) : r[i] = t[j]
  <2>1. PICK i \in 1..Len(r) : f[i] = j
    BY <1>2, <1>4 DEF Picked
  <2>2. r[i] = t[f[i]]
    BY <1>2 DEF Picked
  <2> QED
    BY <2>1, <2>2
<1> QED
  BY <1>1, <1>3, <1>4

\* The candidates of the merchant m.
GroupCandidates(t, m) == CandidatesOf(m, merchant_groups(t, m))

\* The i-th transaction is the first charge of its merchant.
FirstCharge(t, i) ==
    /\ Charges(t[i], Canonical[t[i].name])
    /\ \A j \in 1..(i - 1) : ~Charges(t[j], Canonical[t[i].name])

\* The candidates r of the transactions t: those of each merchant, once.
Gathered(r, t) ==
    /\ r \in Seq(ToSet(r))
    /\ \A i \in 1..Len(r) : \E k \in 1..Len(GroupCandidates(t, r[i].key.name)) :
           r[i] = GroupCandidates(t, r[i].key.name)[k]
    /\ \A m : merchant_groups(t, m) # <<>> =>
           \A k \in 1..Len(GroupCandidates(t, m)) :
               \E i \in 1..Len(r) : r[i] = GroupCandidates(t, m)[k]
    /\ \A i, j \in 1..Len(r) : i # j => ToldApart(r[i], r[j])

\* All candidates of a bank: those of each merchant, once.
LEMMA AllGathered ==
    ASSUME NEW t \in Seq(Transaction)
    PROVE  Gathered(AllCandidates(t), t)
<1> DEFINE mer(i) == Canonical[t[i].name]
           b(i) == IF FirstCharge(t, i) THEN GroupCandidates(t, mer(i)) ELSE <<>>
           ss == [i \in DOMAIN t |-> b(i)]
           T == UNION {ToSet(b(i)) : i \in 1..Len(t)}
           r == FlattenSeq(ss)
<1>1. AllCandidates(t) = r
  BY DEF AllCandidates, FirstCharge, GroupCandidates
<1>2. Len(t) \in Nat /\ DOMAIN t = 1..Len(t)
  OBVIOUS
<1>3. ASSUME NEW m PROVE Siblings(GroupCandidates(t, m), m)
  BY GroupCharges, MerchantSiblings DEF GroupCandidates
<1>4. ASSUME NEW i \in 1..Len(t)
      PROVE  /\ b(i) \in Seq(ToSet(b(i)))
             /\ \A l \in 1..Len(b(i)) : FirstCharge(t, i) /\ b(i) = GroupCandidates(t, mer(i))
                                        /\ b(i)[l].key.name = mer(i)
             /\ \A k, l \in 1..Len(b(i)) : k # l => ToldApart(b(i)[k], b(i)[l])
  <2>1. CASE FirstCharge(t, i)
    <3>1. b(i) = GroupCandidates(t, mer(i))
      BY <2>1
    <3>2. Siblings(b(i), mer(i))
      BY <1>3, <3>1
    <3> HIDE DEF b, mer
    <3> QED
      BY <2>1, <3>1, <3>2 DEF Siblings
  <2>2. CASE ~FirstCharge(t, i)
    <3>1. b(i) = <<>>
      BY <2>2
    <3>2. Len(<<>>) = 0 /\ <<>> \in Seq(ToSet(<<>>))
      OBVIOUS
    <3> HIDE DEF b, mer
    <3> QED
      BY <3>1, <3>2
  <2> HIDE DEF b, mer
  <2> QED
    BY <2>1, <2>2
<1>5. \A i \in 1..Len(t) : FirstCharge(t, i) => b(i) = GroupCandidates(t, mer(i))
  OBVIOUS
<1> HIDE DEF b
<1>6. ss \in Seq(Seq(T)) /\ Len(ss) = Len(t) /\ \A k \in 1..Len(t) : ss[k] = b(k)
  <2>1. ASSUME NEW i \in 1..Len(t) PROVE b(i) \in Seq(T)
    <3> DEFINE c == b(i)
    <3>1. c \in Seq(ToSet(c)) /\ ToSet(c) \subseteq T
      BY <1>4
    <3> HIDE DEF c, T
    <3>2. c \in Seq(T)
      <4>1. Len(c) \in Nat /\ c \in [1..Len(c) -> ToSet(c)]
        BY <3>1
      <4>2. c \in [1..Len(c) -> T]
        BY <3>1, <4>1
      <4>3. \A n \in Nat : \A f \in [1..n -> T] : f \in Seq(T)
        OBVIOUS
      <4> QED
        BY <4>1, <4>2, <4>3
    <3> QED
      BY <3>2 DEF c
  <2>2. ss = [i \in 1..Len(t) |-> ss[i]] /\ \A k \in 1..Len(t) : ss[k] = b(k)
    BY <1>2
  <2>3. \A k \in 1..Len(t) : ss[k] \in Seq(T)
    BY <2>1, <2>2
  <2> HIDE DEF ss, T
  <2> QED
    BY <1>2, <2>2, <2>3, SequenceOf
<1> HIDE DEF ss, T
<1>7. r \in Seq(T) /\ \E at : Places(at, r, ss, Len(t))
  BY <1>6, FlattenPlaces
<1> HIDE DEF r
<1>8. PICK at : Places(at, r, ss, Len(t))
  BY <1>7
<1>9. ASSUME NEW i \in 1..Len(r)
      PROVE  \E k \in 1..Len(t) : \E l \in 1..Len(b(k)) : at[i] = <<k, l>> /\ r[i] = b(k)[l]
  <2> DEFINE k == at[i][1]
             l == at[i][2]
  <2>1. at[i] \in (1..Len(t)) \X Nat /\ l \in 1..Len(ss[k]) /\ r[i] = ss[k][l]
    BY <1>8 DEF Places
  <2>2. k \in 1..Len(t) /\ at[i] = <<k, l>>
    BY <2>1
  <2> HIDE DEF k, l
  <2> QED
    BY <1>6, <2>1, <2>2
<1>10. ASSUME NEW i \in 1..Len(r)
       PROVE  \E k \in 1..Len(GroupCandidates(t, r[i].key.name)) : r[i] = GroupCandidates(t, r[i].key.name)[k]
  <2>1. PICK k \in 1..Len(t) : \E l \in 1..Len(b(k)) : r[i] = b(k)[l]
    BY <1>9
  <2>2. PICK l \in 1..Len(b(k)) : r[i] = b(k)[l]
    BY <2>1
  <2>3. b(k) = GroupCandidates(t, mer(k)) /\ r[i].key.name = mer(k)
    BY <1>4, <2>2
  <2> HIDE DEF mer
  <2> QED
    BY <2>2, <2>3
<1>11. ASSUME NEW m, merchant_groups(t, m) # <<>>, NEW l \in 1..Len(GroupCandidates(t, m))
       PROVE  \E i \in 1..Len(r) : r[i] = GroupCandidates(t, m)[l]
  <2> DEFINE F == {k \in 1..Len(t) : Charges(t[k], m)}
             g == merchant_groups(t, m)
  <2>1. F # {}
    <3>1. g \in Seq(Payment) /\ \A i \in 1..Len(g) : \E j \in 1..Len(t) : Charges(t[j], m)
      BY GroupCharges
    <3>2. 1 \in 1..Len(g)
      <4> HIDE DEF g
      <4>1. Len(g) \in Nat /\ Len(g) # 0
        BY <1>11, <3>1, EmptySeq DEF g
      <4> QED
        BY <4>1
    <3> HIDE DEF g
    <3> QED
      BY <3>1, <3>2
  <2>2. F \subseteq Nat
    BY <1>2
  <2>3. PICK k \in F : \A j \in F : k <= j
    <3> HIDE DEF F
    <3> QED
      BY <2>1, <2>2, LeastNatural
  <2>4. k \in 1..Len(t) /\ mer(k) = m
    BY <2>3 DEF Charges
  <2>5. FirstCharge(t, k)
    <3>1. ASSUME NEW j \in 1..(k - 1) PROVE ~Charges(t[j], m)
      <4>1. j \in 1..Len(t) /\ ~(k <= j)
        BY <1>2, <2>4
      <4> QED
        BY <2>3, <4>1
    <3>2. Charges(t[k], m)
      BY <2>3
    <3> QED
      BY <2>4, <3>1, <3>2 DEF FirstCharge
  <2>6. b(k) = GroupCandidates(t, m)
    BY <1>5, <2>4, <2>5
  <2>7. l \in 1..Len(ss[k]) /\ ss[k] = GroupCandidates(t, m)
    BY <1>6, <1>11, <2>4, <2>6
  <2>8. PICK i \in 1..Len(r) : at[i] = <<k, l>>
    BY <1>8, <2>4, <2>7 DEF Places
  <2>9. r[i] = ss[at[i][1]][at[i][2]]
    BY <1>8 DEF Places
  <2>10. r[i] = ss[k][l]
    BY <2>8, <2>9
  <2> QED
    BY <2>7, <2>10
<1>12. ASSUME NEW i \in 1..Len(r), NEW j \in 1..Len(r), i # j PROVE ToldApart(r[i], r[j])
  <2>1. PICK k \in 1..Len(t) : \E l \in 1..Len(b(k)) : at[i] = <<k, l>> /\ r[i] = b(k)[l]
    BY <1>9
  <2>2. PICK l \in 1..Len(b(k)) : at[i] = <<k, l>> /\ r[i] = b(k)[l]
    BY <2>1
  <2>3. PICK n \in 1..Len(t) : \E o \in 1..Len(b(n)) : at[j] = <<n, o>> /\ r[j] = b(n)[o]
    BY <1>9
  <2>4. PICK o \in 1..Len(b(n)) : at[j] = <<n, o>> /\ r[j] = b(n)[o]
    BY <2>3
  <2>5. at[i] # at[j]
    BY <1>8, <1>12 DEF Places
  <2>6. CASE k = n
    <3>1. l # o
      BY <2>2, <2>4, <2>5, <2>6
    <3> QED
      BY <1>4, <2>2, <2>4, <2>6, <3>1
  <2>7. CASE k # n
    <3>1. /\ FirstCharge(t, k) /\ b(k)[l].key.name = mer(k)
          /\ FirstCharge(t, n) /\ b(n)[o].key.name = mer(n)
      BY <1>4
    <3>2. mer(k) # mer(n)
      <4>1. ASSUME NEW x \in 1..Len(t), NEW y \in 1..Len(t), x < y,
                   FirstCharge(t, x), FirstCharge(t, y)
            PROVE  mer(x) # mer(y)
        <5>1. x \in 1..(y - 1)
          BY <1>2, <4>1
        <5>2. ~Charges(t[x], mer(y)) /\ Charges(t[x], mer(x))
          BY <4>1, <5>1 DEF FirstCharge
        <5> HIDE DEF mer
        <5> QED
          BY <5>2
      <4>2. k < n \/ n < k
        BY <1>2, <2>7
      <4> HIDE DEF mer
      <4> QED
        BY <3>1, <4>1, <4>2
    <3> HIDE DEF mer
    <3> QED
      BY <2>2, <2>4, <3>1, <3>2 DEF ToldApart
  <2> QED
    BY <2>6, <2>7
<1>13. r \in Seq(ToSet(r))
  BY <1>7, InOwnRange
<1> QED
  BY <1>1, <1>10, <1>11, <1>12, <1>13 DEF Gathered

\* A permutation leaves no index out.
LEMMA PermutesOnto ==
    ASSUME NEW p, NEW s, NEW t, Len(s) \in Nat, Permutes(p, s, t)
    PROVE  \A j \in 1..Len(s) : \E i \in 1..Len(s) : p[i] = j
<1> DEFINE n == Len(s)
           S == 1..n
<1>1. p \in [S -> S] /\ \A i, j \in S : i # j => p[i] # p[j]
  BY DEF Permutes
<1>2. IsFiniteSet(S)
  BY FS_Interval
<1> HIDE DEF S
<1>3. p \in Injection(S, S)
  BY <1>1 DEF Injection, IsInjective
<1>4. p \in Surjection(S, S)
  BY <1>2, <1>3, FS_Injection
<1> QED
  BY <1>4 DEF Surjection, S

\* detect_subscription_candidates returns them all, surest first.
LEMMA DetectGathered ==
    ASSUME NEW t \in Seq(Transaction)
    PROVE  Gathered(detect_subscription_candidates(t), t)
<1> DEFINE found == AllCandidates(t)
           before == Surer(found)
           r == Sorted(found, before)
<1>1. detect_subscription_candidates(t) = r
  BY DEF detect_subscription_candidates
<1>2. Gathered(found, t)
  BY AllGathered
<1> HIDE DEF before, found
<1>3. found \in Seq(ToSet(found))
  BY <1>2 DEF Gathered
<1>4. r \in Seq(ToSet(found)) /\ \E p : Permutes(p, r, found)
  BY <1>3, SortedPermutes
<1> HIDE DEF r
<1>5. PICK p : Permutes(p, r, found)
  BY <1>4
<1>6. /\ Len(r) = Len(found) /\ p \in [1..Len(r) -> 1..Len(r)] /\ Len(r) \in Nat
      /\ (\A i, j \in 1..Len(r) : i # j => p[i] # p[j]) /\ \A i \in 1..Len(r) : r[i] = found[p[i]]
  BY <1>4, <1>5 DEF Permutes
<1>7. \A j \in 1..Len(r) : \E i \in 1..Len(r) : p[i] = j
  BY <1>5, <1>6, PermutesOnto
<1>8. r \in Seq(ToSet(r))
  BY <1>4, InOwnRange
<1>9. ASSUME NEW i \in 1..Len(r)
      PROVE  \E k \in 1..Len(GroupCandidates(t, r[i].key.name)) : r[i] = GroupCandidates(t, r[i].key.name)[k]
  <2> DEFINE x == found[p[i]]
  <2>1. p[i] \in 1..Len(found) /\ r[i] = x
    BY <1>6
  <2>2. \E k \in 1..Len(GroupCandidates(t, x.key.name)) : x = GroupCandidates(t, x.key.name)[k]
    BY <1>2, <2>1 DEF Gathered
  <2> HIDE DEF x
  <2> QED
    BY <2>1, <2>2
<1>10. ASSUME NEW m, merchant_groups(t, m) # <<>>, NEW k \in 1..Len(GroupCandidates(t, m))
       PROVE  \E i \in 1..Len(r) : r[i] = GroupCandidates(t, m)[k]
  <2>1. PICK j \in 1..Len(found) : found[j] = GroupCandidates(t, m)[k]
    BY <1>2, <1>10 DEF Gathered
  <2>2. PICK i \in 1..Len(r) : p[i] = j
    BY <1>6, <1>7
  <2> QED
    BY <1>6, <2>1, <2>2
<1>11. ASSUME NEW i \in 1..Len(r), NEW j \in 1..Len(r), i # j PROVE ToldApart(r[i], r[j])
  <2>1. p[i] \in 1..Len(found) /\ p[j] \in 1..Len(found) /\ p[i] # p[j]
        /\ r[i] = found[p[i]] /\ r[j] = found[p[j]]
    BY <1>6, <1>11
  <2> QED
    BY <1>2, <2>1 DEF Gathered
<1> QED
  BY <1>1, <1>8, <1>9, <1>10, <1>11 DEF Gathered

\* Candidates of one merchant are siblings, whatever the bank reports.
LEMMA GroupSiblings ==
    ASSUME NEW t \in Seq(Transaction), NEW m
    PROVE  Siblings(GroupCandidates(t, m), m)
  BY GroupCharges, MerchantSiblings DEF GroupCandidates

---------------------------------------------------------------------------
(* The loop over the candidates *)

\* The budget of calls is a number.
LEMMA BudgetNatural == MaxAICalls \in Nat
  BY PipelineAssumption, Zenon

\* What was detected.
AllFound == ToSet(detect_subscription_candidates(transactions))

\* What a candidate may be accepted as.
Acceptable ==
    {Found(c, "rules") : c \in AllFound}
    \cup {merge_candidate_and_ai(p[1], p[2]) : p \in AllFound \X Answers}

\* Where the loop is, and that what it holds comes from what was detected.
LoopInv ==
    /\ transactions \in Seq(Transaction)
    /\ candidates \in Seq(AllFound)
    /\ asked \in Seq(AllFound)
    /\ accepted \in Seq(Acceptable)
    /\ pc = "called" => accepted = <<>> /\ candidates = <<>> /\ asked = <<>>
    /\ pc = "done" => candidates = <<>>
    /\ pc \in {"called", "loop", "done"}
    /\ withAI \in BOOLEAN

\* The candidates gone through and the others are told apart.
ApartInv ==
    /\ \A i, j \in 1..Len(candidates) : i # j => ToldApart(candidates[i], candidates[j])
    /\ \A i, j \in 1..Len(accepted) : i # j => ToldApart(accepted[i], accepted[j])
    /\ \A i \in 1..Len(accepted), j \in 1..Len(candidates) :
           ToldApart(accepted[i], candidates[j])

\* What a candidate looks like, and where it comes from.
LEMMA CandidateFields ==
    ASSUME transactions \in Seq(Transaction), NEW c \in AllFound
    PROVE  /\ c.amount \in Int /\ c.label.prices \in Seq(Int)
           /\ c.label = Label(c.key.name, c.label.prices) /\ c.key = merchant_key(c.label)
           /\ c.label.prices # <<>> => c.label.prices[1] = c.amount
           /\ \E k \in 1..Len(GroupCandidates(transactions, c.key.name)) :
                  c = GroupCandidates(transactions, c.key.name)[k]
<1> DEFINE d == detect_subscription_candidates(transactions)
<1>1. Gathered(d, transactions)
  BY DetectGathered
<1>2. PICK i \in DOMAIN d : c = d[i]
  BY DEF AllFound, ToSet
<1> HIDE DEF d
<1>3. d \in Seq(ToSet(d))
  BY <1>1 DEF Gathered
<1>4. i \in 1..Len(d)
  BY <1>2, <1>3
<1>5. PICK k \in 1..Len(GroupCandidates(transactions, c.key.name)) :
          c = GroupCandidates(transactions, c.key.name)[k]
  BY <1>1, <1>2, <1>4 DEF Gathered
<1>6. Siblings(GroupCandidates(transactions, c.key.name), c.key.name)
  BY GroupSiblings
<1> QED
  BY <1>5, <1>6 DEF Siblings

\* Accepting a candidate keeps its key and its amount and, if the merchant has a name,
\* the first price of its label.
Keeps(a, c) ==
    /\ a.key = c.key /\ a.amount = c.amount
    /\ c.key.name # Nameless /\ c.label.prices # <<>> =>
           a.label.prices # <<>> /\ a.label.prices[1] = c.label.prices[1]

\* What keeps key, amount and price stays apart from the others.
LEMMA KeepsApart ==
    ASSUME NEW a, NEW c, NEW d, Keeps(a, c)
    PROVE  (ToldApart(c, d) => ToldApart(a, d)) /\ (ToldApart(d, c) => ToldApart(d, a))
  BY DEF Keeps, ToldApart

\* Accepting by the rules copies the candidate.
LEMMA FoundFields ==
    ASSUME NEW c, NEW method
    PROVE  /\ Found(c, method).key = c.key /\ Found(c, method).amount = c.amount
           /\ Found(c, method).label = c.label /\ Found(c, method).frequency = c.frequency
           /\ Found(c, method).last_charged = c.last_charged
           /\ Found(c, method).next_expected = c.next_expected
           /\ Found(c, method).occurrences = c.occurrences
           /\ Found(c, method).confidence = c.confidence
  BY DEF Found

\* Merging with an answer keeps key, amount, dates and price (merge_candidate_and_ai).
LEMMA MergeFields ==
    ASSUME NEW c, NEW answer, c.label.prices \in Seq(Int), c.amount \in Int,
           c.label = Label(c.key.name, c.label.prices), c.key = merchant_key(c.label),
           c.label.prices # <<>> => c.label.prices[1] = c.amount
    PROVE  /\ Keeps(merge_candidate_and_ai(c, answer), c)
           /\ merge_candidate_and_ai(c, answer).last_charged = c.last_charged
           /\ merge_candidate_and_ai(c, answer).next_expected = c.next_expected
           /\ merge_candidate_and_ai(c, answer).occurrences = c.occurrences
<1> DEFINE label == IF answer.name = "" THEN c.label ELSE Label(answer.name, <<>>)
           new == IF c.label = c.key THEN label
                  ELSE [label EXCEPT !.prices = Append(@, c.amount)]
           a == merge_candidate_and_ai(c, answer)
<1>1. /\ a.key = c.key /\ a.amount = c.amount /\ a.last_charged = c.last_charged
      /\ a.next_expected = c.next_expected /\ a.occurrences = c.occurrences
      /\ a.label = new
  BY DEF merge_candidate_and_ai, Found
<1> HIDE DEF a
<1>2. ASSUME c.key.name # Nameless, c.label.prices # <<>>
      PROVE  new.prices # <<>> /\ new.prices[1] = c.label.prices[1]
  <2> DEFINE o == c.label.prices
             x == c.amount
             n == IF answer.name = "" THEN c.key.name ELSE answer.name
             l == IF answer.name = "" THEN o ELSE <<>>
  <2>1. label = [name |-> n, prices |-> l]
    <3>1. CASE answer.name = ""
      BY <3>1, Zenon DEF Label
    <3>2. CASE answer.name # ""
      BY <3>2, Zenon DEF Label
    <3> QED
      BY <3>1, <3>2
  <2>2. new = [label EXCEPT !.prices = Append(@, x)]
    <3>1. c.label.name = c.key.name /\ c.key = merchant_key(c.label)
      BY DEF Label
    <3>2. c.key = Label(c.label.name, <<>>)
      BY <1>2, <3>1 DEF merchant_key
    <3>3. c.key.prices = <<>>
      BY <3>2 DEF Label
    <3>4. c.label # c.key
      BY <1>2, <3>3
    <3> QED
      BY <3>4
  <2> HIDE DEF label, new
  <2>3. new.prices = Append(l, x)
    BY <2>1, <2>2
  <2>4. l \in Seq(Int) /\ x \in Int /\ (l = o \/ l = <<>>)
    <3>1. o \in Seq(Int) /\ <<>> \in Seq(Int) /\ x \in Int
      OBVIOUS
    <3>2. l = o \/ l = <<>>
      BY Zenon
    <3> HIDE DEF o, x, l
    <3> QED
      BY <3>1, <3>2
  <2>5. o # <<>> /\ o[1] = x /\ o \in Seq(Int)
    BY <1>2
  <2> HIDE DEF l, x, o
  <2>6. Append(l, x) # <<>> /\ Append(l, x)[1] = x
    <3>1. CASE l = <<>>
      BY <2>4, <3>1
    <3>2. CASE l = o
      <4>1. 1 \in 1..Len(l)
        BY <2>5, <3>2, EmptySeq
      <4> QED
        BY <2>4, <2>5, <3>2, <4>1, AppendProperties
    <3> QED
      BY <2>4, <3>1, <3>2
  <2> QED
    BY <2>3, <2>5, <2>6 DEF o
<1> HIDE DEF new
<1> QED
  BY <1>1, <1>2 DEF Keeps, a

\* The first candidate and the others.
LEMMA HeadAndTail ==
    ASSUME NEW T, NEW s \in Seq(T), s # <<>>
    PROVE  /\ Head(s) \in T /\ Tail(s) \in Seq(T) /\ Len(s) \in Nat /\ 1 <= Len(s)
           /\ Head(s) = s[1] /\ Len(Tail(s)) = Len(s) - 1
           /\ \A i \in 1..Len(Tail(s)) : Tail(s)[i] = s[i + 1] /\ i + 1 \in 1..Len(s) /\ i + 1 # 1
<1>1. Len(s) \in Nat /\ 1 <= Len(s)
  BY EmptySeq
<1>2. Head(s) = s[1] /\ s[1] \in T
  BY <1>1, ElementOfSeq
<1>3. Tail(s) \in Seq(T) /\ Len(Tail(s)) = Len(s) - 1 /\ \A i \in 1..(Len(s) - 1) : Tail(s)[i] = s[i + 1]
  BY HeadTailProperties
<1> QED
  BY <1>1, <1>2, <1>3

\* A candidate is gone through: accepted as a, or not.
GoesThrough(a) ==
    /\ pc = "loop" /\ candidates # <<>> /\ candidates' = Tail(candidates)
    /\ transactions' = transactions /\ withAI' = withAI /\ pc' = pc
    /\ asked' = asked \/ asked' = Append(asked, Head(candidates))
    /\ \/ accepted' = accepted
       \/ a \in Acceptable /\ Keeps(a, Head(candidates)) /\ accepted' = Append(accepted, a)

\* The steps of the loop: one goes through the first candidate, or begins, ends or starts over.
LEMMA LoopSteps ==
    ASSUME LoopInv, PipelineNext
    PROVE  Detect \/ ModelFails \/ Finish \/ \E a : GoesThrough(a)
<1> DEFINE c == Head(candidates)
<1>1. ASSUME candidates # <<>>
      PROVE  /\ c \in AllFound /\ c.label.prices \in Seq(Int) /\ c.amount \in Int
             /\ c.label = Label(c.key.name, c.label.prices) /\ c.key = merchant_key(c.label)
             /\ c.label.prices # <<>> => c.label.prices[1] = c.amount
  <2>1. c \in AllFound
    BY <1>1, HeadAndTail DEF LoopInv
  <2>2. transactions \in Seq(Transaction)
    BY DEF LoopInv
  <2> HIDE DEF c
  <2> QED
    BY <2>1, <2>2, CandidateFields
<1>2. CASE AcceptByRules
  <2> DEFINE a == Found(c, "rules")
  <2>1. candidates # <<>>
    BY <1>2 DEF AcceptByRules, Sure
  <2>2. a \in Acceptable
    BY <1>1, <2>1 DEF Acceptable
  <2>3. Keeps(a, c)
    BY FoundFields DEF Keeps
  <2>4. GoesThrough(a)
    <3> HIDE DEF a
    <3>1. accepted' = Append(accepted, a)
      BY <1>2 DEF AcceptByRules, a
    <3> QED
      BY <1>2, <2>2, <2>3, <3>1 DEF AcceptByRules, Sure, GoesThrough
  <2> QED
    BY <2>4
<1>3. CASE PassOver
  <2>1. GoesThrough(0)
    BY <1>3 DEF PassOver, Unsure, GoesThrough
  <2> QED
    BY <2>1
<1>4. CASE ModelSaysNo
  <2>1. GoesThrough(0)
    BY <1>4 DEF ModelSaysNo, Ask, Unsure, GoesThrough
  <2> QED
    BY <2>1
<1>5. ASSUME NEW answer \in Answers, ModelSaysYes(answer) PROVE \E a : GoesThrough(a)
  <2> DEFINE a == merge_candidate_and_ai(c, answer)
  <2>1. candidates # <<>>
    BY <1>5 DEF ModelSaysYes, Ask, Unsure
  <2>2. a \in Acceptable
    <3> HIDE DEF c
    <3>1. <<c, answer>> \in AllFound \X Answers /\ <<c, answer>>[1] = c /\ <<c, answer>>[2] = answer
      BY <1>1, <2>1
    <3> QED
      BY <3>1 DEF Acceptable
  <2>3. Keeps(a, c)
    <3> HIDE DEF c
    <3> QED
      BY <1>1, <2>1, MergeFields
  <2>4. GoesThrough(a)
    <3>1. accepted' = accepted \/ accepted' = Append(accepted, a)
      BY <1>5 DEF ModelSaysYes
    <3> HIDE DEF a
    <3> QED
      BY <1>5, <2>2, <2>3, <3>1 DEF ModelSaysYes, Ask, Unsure, GoesThrough
  <2> QED
    BY <2>4
<1> QED
  BY <1>2, <1>3, <1>4, <1>5 DEF PipelineNext

\* The invariants hold before a job.
LEMMA LoopInit ==
    ASSUME PipelineInit
    PROVE  LoopInv /\ ApartInv
<1>1. transactions \in Seq(Transaction)
  BY PipelineAssumption DEF PipelineInit
<1>2. <<>> \in Seq(AllFound) /\ <<>> \in Seq(Acceptable) /\ Len(<<>>) = 0
  OBVIOUS
<1>3. LoopInv
  BY <1>1, <1>2 DEF PipelineInit, LoopInv
<1>4. ApartInv
  BY <1>2 DEF PipelineInit, ApartInv
<1> QED
  BY <1>3, <1>4

\* What a step must keep, part by part.
LEMMA LoopKept ==
    ASSUME LoopInv, transactions' = transactions,
           candidates' \in Seq(AllFound), asked' \in Seq(AllFound), accepted' \in Seq(Acceptable),
           pc' = "called" => accepted' = <<>> /\ candidates' = <<>> /\ asked' = <<>>,
           pc' = "done" => candidates' = <<>>,
           pc' \in {"called", "loop", "done"}, withAI' \in BOOLEAN
    PROVE  LoopInv'
<1>1. transactions \in Seq(Transaction)
  BY DEF LoopInv
<1>2. AllFound' = AllFound
  BY DEF AllFound
<1>3. Acceptable' = Acceptable
  BY <1>2 DEF Acceptable
<1> QED
  BY <1>1, <1>2, <1>3 DEF LoopInv

\* Finish rearranges what was accepted.
LEMMA SortedAccepted ==
    ASSUME LoopInv, Finish
    PROVE  /\ accepted' \in Seq(Acceptable)
           /\ \E p : Permutes(p, accepted', accepted)
  BY SortedPermutes DEF LoopInv, Finish

\* Every step keeps the types of the loop.
LEMMA LoopNext ==
    ASSUME LoopInv, [PipelineNext]_pipelineVars
    PROVE  LoopInv'
<1>1. CASE UNCHANGED pipelineVars
  BY <1>1 DEF pipelineVars, LoopInv, AllFound, Acceptable
<1>2. CASE PipelineNext
  <2>1. CASE Detect
    <3> DEFINE d == detect_subscription_candidates(transactions)
    <3>1. transactions \in Seq(Transaction)
      BY DEF LoopInv
    <3>2. d \in Seq(AllFound)
      BY <3>1, DetectGathered DEF Gathered, AllFound
    <3>3. candidates' \in Seq(AllFound)
      BY <2>1, <3>2 DEF Detect
    <3> HIDE DEF d
    <3>4. /\ asked' \in Seq(AllFound) /\ accepted' \in Seq(Acceptable) /\ pc' = "loop"
          /\ transactions' = transactions /\ withAI' \in BOOLEAN
      BY <2>1 DEF Detect, LoopInv
    <3> QED
      BY <3>3, <3>4, LoopKept
  <2>2. CASE ModelFails
    <3>1. <<>> \in Seq(AllFound) /\ <<>> \in Seq(Acceptable)
      OBVIOUS
    <3>2. /\ candidates' = <<>> /\ asked' = <<>> /\ accepted' = <<>> /\ pc' = "called"
          /\ transactions' = transactions /\ withAI' = FALSE
      BY <2>2 DEF ModelFails, StartOver
    <3> QED
      BY <3>1, <3>2, LoopKept
  <2>3. CASE Finish
    <3>1. accepted' \in Seq(Acceptable)
      BY <2>3, SortedAccepted
    <3>2. /\ candidates' = <<>> /\ candidates' \in Seq(AllFound) /\ asked' \in Seq(AllFound)
          /\ pc' = "done" /\ transactions' = transactions /\ withAI' \in BOOLEAN
      BY <2>3 DEF Finish, LoopInv
    <3> QED
      BY <3>1, <3>2, LoopKept
  <2>4. ASSUME NEW a, GoesThrough(a) PROVE LoopInv'
    <3>1. candidates # <<>> /\ candidates \in Seq(AllFound)
      BY <2>4 DEF GoesThrough, LoopInv
    <3>2. Head(candidates) \in AllFound /\ Tail(candidates) \in Seq(AllFound)
      BY <3>1, HeadAndTail
    <3>3. candidates' \in Seq(AllFound)
      BY <2>4, <3>2 DEF GoesThrough
    <3>4. asked' \in Seq(AllFound)
      <4>1. asked \in Seq(AllFound)
        BY DEF LoopInv
      <4>2. Append(asked, Head(candidates)) \in Seq(AllFound)
        BY <3>2, <4>1, AppendProperties
      <4> QED
        BY <2>4, <4>1, <4>2 DEF GoesThrough
    <3>5. accepted' \in Seq(Acceptable)
      <4>1. accepted \in Seq(Acceptable)
        BY DEF LoopInv
      <4>2. a \in Acceptable => Append(accepted, a) \in Seq(Acceptable)
        BY <4>1, AppendProperties
      <4> QED
        BY <2>4, <4>1, <4>2 DEF GoesThrough
    <3>6. pc' = "loop" /\ transactions' = transactions /\ withAI' \in BOOLEAN
      BY <2>4 DEF GoesThrough, LoopInv
    <3> QED
      BY <3>3, <3>4, <3>5, <3>6, LoopKept
  <2> QED
    BY <1>2, <2>1, <2>2, <2>3, <2>4, LoopSteps
<1> QED
  BY <1>1, <1>2

\* Every step keeps the candidates apart.
LEMMA ApartNext ==
    ASSUME LoopInv, ApartInv, [PipelineNext]_pipelineVars
    PROVE  ApartInv'
<1>1. CASE UNCHANGED pipelineVars
  BY <1>1 DEF pipelineVars, ApartInv
<1>2. CASE PipelineNext
  <2>1. CASE Detect
    <3>1. Gathered(detect_subscription_candidates(transactions), transactions)
      BY DetectGathered DEF LoopInv
    <3>2. \A i, j \in 1..Len(candidates') : i # j => ToldApart(candidates'[i], candidates'[j])
      BY <2>1, <3>1 DEF Detect, Gathered
    <3>3. Len(accepted') = 0
      BY <2>1 DEF Detect, LoopInv
    <3> QED
      BY <3>2, <3>3 DEF ApartInv
  <2>2. CASE ModelFails
    <3>1. Len(candidates') = 0 /\ Len(accepted') = 0
      BY <2>2 DEF ModelFails, StartOver
    <3> QED
      BY <3>1 DEF ApartInv
  <2>3. CASE Finish
    <3>1. PICK p : Permutes(p, accepted', accepted)
      BY <2>3, SortedAccepted
    <3>2. /\ Len(accepted') = Len(accepted)
          /\ \A i \in 1..Len(accepted') : p[i] \in 1..Len(accepted) /\ accepted'[i] = accepted[p[i]]
          /\ \A i, j \in 1..Len(accepted') : i # j => p[i] # p[j]
      BY <3>1 DEF Permutes
    <3>3. \A i, j \in 1..Len(accepted') : i # j => ToldApart(accepted'[i], accepted'[j])
      BY <3>2 DEF ApartInv
    <3>4. Len(candidates') = 0
      BY <2>3 DEF Finish
    <3> QED
      BY <3>3, <3>4 DEF ApartInv
  <2>4. ASSUME NEW a, GoesThrough(a) PROVE ApartInv'
    <3> DEFINE c == candidates
               d == candidates'
               x == accepted
               y == accepted'
    <3>1. /\ Len(c) \in Nat /\ 1 <= Len(c) /\ Head(c) = c[1] /\ Len(d) = Len(c) - 1
          /\ \A i \in 1..Len(d) : d[i] = c[i + 1] /\ i + 1 \in 1..Len(c) /\ i + 1 # 1
      BY <2>4, HeadAndTail DEF GoesThrough, LoopInv
    <3>2. /\ \A i, j \in 1..Len(c) : i # j => ToldApart(c[i], c[j])
          /\ \A i, j \in 1..Len(x) : i # j => ToldApart(x[i], x[j])
          /\ \A i \in 1..Len(x), j \in 1..Len(c) : ToldApart(x[i], c[j])
      BY DEF ApartInv
    <3>3. \A i, j \in 1..Len(d) : i # j => ToldApart(d[i], d[j])
      <4>1. ASSUME NEW i \in 1..Len(d), NEW j \in 1..Len(d), i # j PROVE i + 1 # j + 1
        BY <4>1
      <4> HIDE DEF c, d
      <4> QED
        BY <3>1, <3>2, <4>1
    <3>4. \A i \in 1..Len(x), j \in 1..Len(d) : ToldApart(x[i], d[j])
      BY <3>1, <3>2
    <3>5. CASE y = x
      BY <3>2, <3>3, <3>4, <3>5 DEF ApartInv
    <3>6. CASE y = Append(x, a) /\ Keeps(a, Head(c)) /\ a \in Acceptable
      <4>1. x \in Seq(Acceptable)
        BY DEF LoopInv
      <4> HIDE DEF x
      <4>2. /\ Len(y) = Len(x) + 1 /\ Len(x) \in Nat /\ (\A i \in 1..Len(x) : y[i] = x[i])
            /\ y[Len(x) + 1] = a
        <5>1. Append(x, a) \in Seq(Acceptable) /\ Len(Append(x, a)) = Len(x) + 1
              /\ (\A i \in 1..Len(x) : Append(x, a)[i] = x[i]) /\ Append(x, a)[Len(x) + 1] = a
          BY <3>6, <4>1, AppendProperties
        <5>2. Len(x) \in Nat
          BY <4>1
        <5> QED
          BY <3>6, <5>1, <5>2
      <4>3. Keeps(a, c[1]) /\ 1 \in 1..Len(c)
        BY <3>1, <3>6
      <4> HIDE DEF c, d, y
      <4>4. \A i \in 1..Len(x) : ToldApart(x[i], a) /\ ToldApart(a, x[i])
        <5>1. \A i \in 1..Len(x) : ToldApart(x[i], c[1])
          BY <3>2, <4>3
        <5>2. \A i \in 1..Len(x) : ToldApart(c[1], x[i])
          BY <5>1 DEF ToldApart
        <5> QED
          BY <4>3, <5>1, <5>2, KeepsApart
      <4>5. \A j \in 1..Len(d) : ToldApart(a, d[j])
        <5>1. \A j \in 1..Len(d) : ToldApart(c[1], d[j])
          BY <3>1, <3>2, <4>3
        <5> QED
          BY <4>3, <5>1, KeepsApart
      <4>6. ASSUME NEW i \in 1..Len(y) PROVE (i \in 1..Len(x) /\ y[i] = x[i]) \/ (i = Len(x) + 1 /\ y[i] = a)
        <5>1. i \in 1..Len(x) \/ i = Len(x) + 1
          BY <4>2
        <5> QED
          BY <4>2, <5>1
      <4>7. \A i, j \in 1..Len(y) : i # j => ToldApart(y[i], y[j])
        BY <3>2, <4>4, <4>6
      <4>8. \A i \in 1..Len(y), j \in 1..Len(d) : ToldApart(y[i], d[j])
        BY <3>4, <4>5, <4>6
      <4> QED
        BY <3>3, <4>7, <4>8 DEF ApartInv, d, y
    <3> QED
      BY <2>4, <3>5, <3>6 DEF GoesThrough
  <2> QED
    BY <1>2, <2>1, <2>2, <2>3, <2>4, LoopSteps
<1> QED
  BY <1>1, <1>2

\* Two accepted candidates of one merchant have different amounts and different
\* labels, or, if nothing is left of its name, different keys, whatever the bank
\* reports and whatever the model calls them (_cluster_by_amount, build_candidate,
\* merge_candidate_and_ai).
THEOREM SiblingsDistinctCorrect == PipelineSpec => []SiblingsDistinct
<1>1. LoopInv /\ ApartInv => SiblingsDistinct
  <2> SUFFICES ASSUME LoopInv, ApartInv,
                      NEW i \in DOMAIN accepted, NEW j \in DOMAIN accepted,
                      i # j, accepted[i].key.name = accepted[j].key.name
               PROVE  /\ accepted[i].amount # accepted[j].amount
                      /\ accepted[i].key.name = Nameless => accepted[i].key # accepted[j].key
                      /\ accepted[i].key.name # Nameless => accepted[i].label # accepted[j].label
    BY DEF SiblingsDistinct
  <2>1. i \in 1..Len(accepted) /\ j \in 1..Len(accepted)
    BY DEF LoopInv
  <2>2. ToldApart(accepted[i], accepted[j])
    BY <2>1 DEF ApartInv
  <2> QED
    BY <2>2 DEF ToldApart
<1> QED
  BY <1>1, LoopInit, LoopNext, ApartNext, PTL DEF PipelineSpec

---------------------------------------------------------------------------
(* The calendar *)

\* A month has 28 to 31 days.
LEMMA DaysInRange ==
    ASSUME NEW y \in Int, NEW m \in 1..12
    PROVE  DaysIn(y, m) \in 28..31
<1>1. CASE m = 2
  BY <1>1 DEF DaysIn
<1>2. CASE m # 2
  <2>1. CASE m \in {4, 6, 9, 11}
    BY <2>1 DEF DaysIn
  <2>2. CASE m \notin {4, 6, 9, 11}
    BY <1>2, <2>2 DEF DaysIn
  <2> QED
    BY <2>1, <2>2
<1> QED
  BY <1>1, <1>2

\* Days before a month of a year, leap days aside.
Before(m) == << 0, 31, 59, 90, 120, 151, 181, 212, 243, 273, 304, 334 >>[m]

\* Days of the first z years.
Years(z) == 365 * z + z \div 4 - z \div 100 + z \div 400

\* Days of whole years are an integer.
LEMMA YearsType ==
    ASSUME NEW z \in Int
    PROVE  Years(z) \in Int
  BY DEF Years

\* A year has 365 days, or 366.
LEMMA YearStep ==
    ASSUME NEW z \in Nat
    PROVE  Years(z + 1) = Years(z) + (IF Leap(z + 1) THEN 366 ELSE 365)
<1>1. (z + 1) \div 4 = z \div 4 + (IF (z + 1) % 4 = 0 THEN 1 ELSE 0)
  OBVIOUS
<1>2. (z + 1) \div 100 = z \div 100 + (IF (z + 1) % 100 = 0 THEN 1 ELSE 0)
  OBVIOUS
<1>3. (z + 1) \div 400 = z \div 400 + (IF (z + 1) % 400 = 0 THEN 1 ELSE 0)
  OBVIOUS
<1>4. (z + 1) % 100 = 0 => (z + 1) % 4 = 0
  OBVIOUS
<1>5. (z + 1) % 400 = 0 => (z + 1) % 100 = 0
  OBVIOUS
<1> DEFINE a == z \div 4
           b == z \div 100
           c == z \div 400
<1>6. a \in Int /\ b \in Int /\ c \in Int
  OBVIOUS
<1>7. Years(z) = 365 * z + a - b + c
  BY DEF Years
<1>8. Years(z + 1) = 365 * (z + 1) + (z + 1) \div 4 - (z + 1) \div 100 + (z + 1) \div 400
  BY DEF Years
<1> HIDE DEF a, b, c
<1>9. /\ (z + 1) \div 4 = a + (IF (z + 1) % 4 = 0 THEN 1 ELSE 0)
      /\ (z + 1) \div 100 = b + (IF (z + 1) % 100 = 0 THEN 1 ELSE 0)
      /\ (z + 1) \div 400 = c + (IF (z + 1) % 400 = 0 THEN 1 ELSE 0)
  BY <1>1, <1>2, <1>3 DEF a, b, c
<1>10. Years(z + 1) = 365 * z + 365 + (a + (IF (z + 1) % 4 = 0 THEN 1 ELSE 0))
          - (b + (IF (z + 1) % 100 = 0 THEN 1 ELSE 0)) + (c + (IF (z + 1) % 400 = 0 THEN 1 ELSE 0))
  BY <1>8, <1>9
<1> QED
  BY <1>4, <1>5, <1>6, <1>7, <1>10 DEF Leap

\* A day number is its year's, its month's and its day's (DayNumber).
LEMMA DayNumberIs ==
    ASSUME NEW y \in Int, NEW m \in 1..12, NEW a \in Int
    PROVE  /\ DayNumber(<<y, m, a>>)
                  = Years(y - 1) + Before(m) + (IF m > 2 /\ Leap(y) THEN 1 ELSE 0) + a
           /\ DayNumber(<<y, m, a>>) \in Int
           /\ Before(m) \in Int
<1>1. Before(m) \in Int
  BY DEF Before
<1>2. Years(y - 1) \in Int
  BY YearsType
<1>3. DayNumber(<<y, m, a>>) = Years(y - 1) + Before(m) + (IF m > 2 /\ Leap(y) THEN 1 ELSE 0) + a
  BY DEF DayNumber, Years, Before
<1> QED
  BY <1>1, <1>2, <1>3

\* Within a year, a month begins when the one before it is over.
LEMMA MonthStep ==
    ASSUME NEW y \in Int, NEW m \in 1..11
    PROVE  Before(m + 1) + (IF m + 1 > 2 /\ Leap(y) THEN 1 ELSE 0)
               = Before(m) + (IF m > 2 /\ Leap(y) THEN 1 ELSE 0) + DaysIn(y, m)
<1>1. m \in {1, 2, 3, 4, 5, 6, 7, 8, 9, 10, 11}
  OBVIOUS
<1>2. CASE m = 2
  BY <1>2 DEF Before, DaysIn
<1>3. CASE m = 1
  BY <1>3 DEF Before, DaysIn
<1>4. CASE m \in {4, 6, 9, 11}
  BY <1>4 DEF Before, DaysIn
<1>5. CASE m \in {3, 5, 7, 8, 10}
  BY <1>5 DEF Before, DaysIn
<1> QED
  BY <1>1, <1>2, <1>3, <1>4, <1>5

\* The months, numbered: month k starts after day Start(k) and has Length(k) days.
Start(k) == DayNumber(<<k \div 12, (k % 12) + 1, 0>>)

\* Days of the month k.
Length(k) == DaysIn(k \div 12, (k % 12) + 1)

\* The year and the month of a month's number, and of the next.
LEMMA MonthParts ==
    ASSUME NEW k \in Int
    PROVE  /\ k \div 12 \in Int /\ (k % 12) + 1 \in 1..12 /\ k = 12 * (k \div 12) + (k % 12)
           /\ (k % 12 # 11 => (k + 1) \div 12 = k \div 12 /\ (k + 1) % 12 = (k % 12) + 1)
           /\ (k % 12 = 11 => (k + 1) \div 12 = (k \div 12) + 1 /\ (k + 1) % 12 = 0)
  OBVIOUS

\* So has a month by its number.
LEMMA LengthRange ==
    ASSUME NEW k \in Int
    PROVE  Length(k) \in 28..31
  BY MonthParts, DaysInRange DEF Length

\* The start of a month is a day number.
LEMMA StartType ==
    ASSUME NEW k \in Int
    PROVE  Start(k) \in Int
  BY MonthParts, DayNumberIs DEF Start

\* A month begins when the one before it is over, over a year's end too.
LEMMA StartStep ==
    ASSUME NEW k \in Nat, 12 <= k
    PROVE  Start(k + 1) = Start(k) + Length(k)
<1> DEFINE y == k \div 12
           m == (k % 12) + 1
           l == IF Leap(y) THEN 1 ELSE 0
<1>1. y \in Int /\ m \in 1..12 /\ 1 <= y
  OBVIOUS
<1>2. Start(k) = Years(y - 1) + Before(m) + (IF m > 2 /\ Leap(y) THEN 1 ELSE 0) + 0
  <2> HIDE DEF y, m
  <2>1. DayNumber(<<y, m, 0>>) = Years(y - 1) + Before(m) + (IF m > 2 /\ Leap(y) THEN 1 ELSE 0) + 0
    BY <1>1, DayNumberIs
  <2> QED
    BY <2>1 DEF Start, y, m
<1>3. Length(k) = DaysIn(y, m)
  BY DEF Length
<1>4. Length(k) \in Int
  BY LengthRange
<1>5. CASE k % 12 # 11
  <2>1. (k + 1) \div 12 = y /\ ((k + 1) % 12) + 1 = m + 1 /\ m \in 1..11 /\ m + 1 \in 1..12
    BY <1>5, MonthParts
  <2> HIDE DEF y, m
  <2>2. DayNumber(<<y, m + 1, 0>>)
            = Years(y - 1) + Before(m + 1) + (IF m + 1 > 2 /\ Leap(y) THEN 1 ELSE 0) + 0
    BY <1>1, <2>1, DayNumberIs
  <2>3. Start(k + 1) = DayNumber(<<y, m + 1, 0>>)
    BY <2>1 DEF Start
  <2>4. Before(m + 1) + (IF m + 1 > 2 /\ Leap(y) THEN 1 ELSE 0)
            = Before(m) + (IF m > 2 /\ Leap(y) THEN 1 ELSE 0) + DaysIn(y, m)
    BY <1>1, <2>1, MonthStep
  <2>5. Years(y - 1) \in Int /\ Before(m) \in Int /\ Before(m + 1) \in Int
    <3>1. y - 1 \in Int
      BY <1>1
    <3>2. Years(y - 1) \in Int
      BY <3>1, YearsType
    <3>3. Before(m) \in Int
      BY <1>1, DayNumberIs
    <3>4. Before(m + 1) \in Int
      BY <1>1, <2>1, DayNumberIs
    <3> QED
      BY <3>2, <3>3, <3>4
  <2> QED
    BY <1>2, <1>3, <1>4, <2>2, <2>3, <2>4, <2>5
<1>6. CASE k % 12 = 11
  <2>1. (k + 1) \div 12 = y + 1 /\ ((k + 1) % 12) + 1 = 1 /\ m = 12
    BY <1>6, MonthParts
  <2> HIDE DEF y, m
  <2>2. DayNumber(<<y + 1, 1, 0>>)
            = Years((y + 1) - 1) + Before(1) + (IF 1 > 2 /\ Leap(y + 1) THEN 1 ELSE 0) + 0
    BY <1>1, DayNumberIs
  <2>3. Start(k + 1) = DayNumber(<<y + 1, 1, 0>>)
    BY <2>1 DEF Start
  <2>4. y - 1 \in Nat /\ (y - 1) + 1 = y /\ (y + 1) - 1 = y
    BY <1>1
  <2>5. Years(y) = Years(y - 1) + (IF Leap(y) THEN 366 ELSE 365)
    BY <2>4, YearStep
  <2>6. Before(1) = 0 /\ Before(12) = 334 /\ DaysIn(y, 12) = 31
    BY DEF Before, DaysIn
  <2>7. Years(y - 1) \in Int /\ Years(y) \in Int
    BY <1>1, YearsType
  <2>8. Start(k + 1) = Years(y)
    BY <2>2, <2>3, <2>4, <2>6, <2>7
  <2>9. Start(k) = Years(y - 1) + 334 + (IF Leap(y) THEN 1 ELSE 0)
    BY <1>2, <2>1, <2>6, <2>7
  <2> QED
    BY <1>3, <2>1, <2>5, <2>6, <2>7, <2>8, <2>9
<1> QED
  BY <1>5, <1>6

\* A later month begins after the end of this one.
LEMMA StartLater ==
    ASSUME NEW k \in Nat, 12 <= k, NEW n \in Nat
    PROVE  Start(k) + Length(k) <= Start((k + 1) + n)
<1> DEFINE S == {i \in Nat : Start(k) + Length(k) <= Start((k + 1) + i)}
<1>1. 0 \in S
  <2>1. Start(k + 1) = Start(k) + Length(k) /\ Start(k + 1) \in Int /\ (k + 1) + 0 = k + 1
    BY StartStep, StartType
  <2> QED
    BY <2>1
<1>2. ASSUME NEW i \in Nat, i \in S PROVE i + 1 \in S
  <2> DEFINE l == (k + 1) + i
  <2>1. l \in Nat /\ 12 <= l /\ (k + 1) + (i + 1) = l + 1
    OBVIOUS
  <2>2. Start(k) + Length(k) <= Start(l)
    BY <1>2
  <2> HIDE DEF l
  <2>3. Start(l + 1) = Start(l) + Length(l) /\ Length(l) \in 28..31 /\ Start(l) \in Int
    BY <2>1, StartStep, StartType, LengthRange
  <2>4. Start(k) \in Int /\ Length(k) \in 28..31
    BY StartType, LengthRange
  <2>5. Start(k) + Length(k) <= Start(l + 1)
    BY <2>2, <2>3, <2>4
  <2> QED
    BY <2>1, <2>5
<1> HIDE DEF S
<1>3. Nat \subseteq S
  BY <1>1, <1>2, Induction
<1> QED
  BY <1>3 DEF S

\* The parts of a date and the number of its month.
LEMMA DateIs ==
    ASSUME NEW d \in Date
    PROVE  /\ d[1] \in Nat /\ 1 <= d[1] /\ d[2] \in 1..12 /\ d[3] \in 1..31
           /\ d = <<d[1], d[2], d[3]>> /\ d[3] <= DaysIn(d[1], d[2])
           /\ MonthOf(d) \in Nat /\ MonthOf(d) - 1 \in Nat /\ 12 <= MonthOf(d) - 1
           /\ (MonthOf(d) - 1) \div 12 = d[1] /\ ((MonthOf(d) - 1) % 12) + 1 = d[2]
<1>1. \A c \in Nat : \A a \in 1..c : a \in Nat /\ 1 <= a
  OBVIOUS
<1> DEFINE c == MAXYEAR
<1>2. c \in Nat
  BY DEF MAXYEAR
<1>3. d[1] \in 1..c
  BY DEF Date
<1>4. d[2] \in 1..12 /\ d[3] \in 1..31 /\ d = <<d[1], d[2], d[3]>> /\ d[3] <= DaysIn(d[1], d[2])
  BY DEF Date
<1> HIDE DEF c
<1> DEFINE y == d[1]
           m == d[2]
           k == MonthOf(d) - 1
<1>5. y \in Nat /\ 1 <= y
  BY <1>1, <1>2, <1>3
<1>6. MonthOf(d) = 12 * y + m
  BY DEF MonthOf
<1>7. \A a \in Nat, b \in 1..12 : 1 <= a =>
          /\ 12 * a + b \in Nat /\ (12 * a + b) - 1 \in Nat /\ 12 <= (12 * a + b) - 1
          /\ ((12 * a + b) - 1) \div 12 = a /\ (((12 * a + b) - 1) % 12) + 1 = b
  OBVIOUS
<1> HIDE DEF y, m
<1>8. m \in 1..12
  BY <1>4 DEF m
<1>9. /\ MonthOf(d) \in Nat /\ k \in Nat /\ 12 <= k
      /\ k \div 12 = y /\ (k % 12) + 1 = m
  BY <1>5, <1>6, <1>7, <1>8
<1> QED
  BY <1>4, <1>5, <1>9 DEF y, m

\* The day number of a date from the start of its month.
LEMMA DateNumber ==
    ASSUME NEW d \in Date
    PROVE  /\ DayNumber(d) = Start(MonthOf(d) - 1) + d[3] /\ d[3] <= Length(MonthOf(d) - 1)
           /\ DayNumber(d) \in Int /\ d[3] \in 1..31
<1> DEFINE y == d[1]
           m == d[2]
           a == d[3]
           k == MonthOf(d) - 1
<1>1. /\ y \in Int /\ m \in 1..12 /\ a \in 1..31 /\ d = <<y, m, a>> /\ a <= DaysIn(y, m)
      /\ k \div 12 = y /\ (k % 12) + 1 = m /\ k \in Nat
  BY DateIs
<1> HIDE DEF y, m, a, k
<1>2. DayNumber(<<y, m, a>>) = Years(y - 1) + Before(m) + (IF m > 2 /\ Leap(y) THEN 1 ELSE 0) + a
  BY <1>1, DayNumberIs
<1>3. DayNumber(<<y, m, 0>>) = Years(y - 1) + Before(m) + (IF m > 2 /\ Leap(y) THEN 1 ELSE 0) + 0
  BY <1>1, DayNumberIs
<1>4. Years(y - 1) \in Int /\ Before(m) \in Int
  <2>1. y - 1 \in Int
    BY <1>1
  <2>2. Years(y - 1) \in Int
    BY <2>1, YearsType
  <2>3. Before(m) \in Int
    BY <1>1, DayNumberIs
  <2> QED
    BY <2>2, <2>3
<1>5. Start(k) = DayNumber(<<y, m, 0>>) /\ Length(k) = DaysIn(y, m)
  BY <1>1 DEF Start, Length
<1> QED
  BY <1>1, <1>2, <1>3, <1>4, <1>5 DEF a, k

\* A date of a later month is later.
LEMMA LaterMonth ==
    ASSUME NEW d \in Date, NEW e \in Date, MonthOf(d) < MonthOf(e)
    PROVE  DayNumber(d) < DayNumber(e)
<1> DEFINE k == MonthOf(d) - 1
           l == MonthOf(e) - 1
           n == l - (k + 1)
<1>1. k \in Nat /\ 12 <= k /\ l \in Nat /\ k < l
  <2>1. k \in Nat /\ 12 <= k /\ l \in Nat
    BY DateIs
  <2>2. MonthOf(d) \in Int /\ MonthOf(e) \in Int
    BY DateIs
  <2> QED
    BY <2>1, <2>2
<1>2. /\ DayNumber(d) = Start(k) + d[3] /\ d[3] <= Length(k) /\ DayNumber(d) \in Int /\ d[3] \in Int
      /\ DayNumber(e) = Start(l) + e[3] /\ 1 <= e[3] /\ DayNumber(e) \in Int /\ e[3] \in Int
  BY DateNumber
<1> HIDE DEF k, l
<1>3. n \in Nat /\ (k + 1) + n = l
  BY <1>1
<1> HIDE DEF n
<1>4. Start(k) + Length(k) <= Start(l)
  BY <1>1, <1>3, StartLater
<1>5. Start(k) \in Int /\ Start(l) \in Int /\ Length(k) \in 28..31
  BY <1>1, StartType, LengthRange
<1> QED
  BY <1>2, <1>4, <1>5

\* The minimum of two.
LEMMA SmallerIs ==
    ASSUME NEW a \in Int, NEW b \in Int
    PROVE  Min({a, b}) = IF a <= b THEN a ELSE b
<1> DEFINE m == IF a <= b THEN a ELSE b
           S == {a, b}
<1>1. m \in S /\ \A y \in S : m <= y
  OBVIOUS
<1>2. \A x \in S : (\A y \in S : x <= y) => x = m
  OBVIOUS
<1>3. Min(S) \in S /\ \A y \in S : Min(S) <= y
  BY <1>1 DEF Min
<1> HIDE DEF S
<1> QED
  BY <1>2, <1>3 DEF S

\* The minimum of a set of naturals.
LEMMA MinIs ==
    ASSUME NEW S, S \subseteq Nat, S # {}
    PROVE  Min(S) \in S /\ \A y \in S : Min(S) <= y
<1>1. PICK x \in S : \A y \in S : x <= y
  BY LeastNatural
<1> QED
  BY <1>1 DEF Min

\* The maximum of a bounded set of naturals.
LEMMA MaxIs ==
    ASSUME NEW S, S \subseteq Nat, S # {}, NEW b \in Nat, \A y \in S : y <= b
    PROVE  Max(S) \in S /\ \A y \in S : Max(S) >= y
<1> DEFINE T == {n \in 0..b : b - n \in S}
<1>1. PICK s \in S : TRUE
  OBVIOUS
<1>2. b - s \in T
  <2>1. s \in Nat /\ s <= b /\ b - (b - s) = s
    BY <1>1
  <2>2. b - s \in 0..b
    BY <2>1
  <2> QED
    BY <1>1, <2>1, <2>2
<1>3. T \subseteq Nat
  OBVIOUS
<1>4. \A y \in S : b - y \in T
  <2>1. ASSUME NEW y \in S PROVE b - y \in T
    <3>1. y \in Nat /\ y <= b /\ b - (b - y) = y
      OBVIOUS
    <3>2. b - y \in 0..b
      BY <3>1
    <3> QED
      BY <3>1, <3>2
  <2> QED
    BY <2>1
<1>5. \A t \in T : t \in 0..b /\ b - t \in S
  OBVIOUS
<1> HIDE DEF T
<1>6. PICK t \in T : \A u \in T : t <= u
  BY <1>2, <1>3, LeastNatural
<1>7. b - t \in S /\ t \in Nat
  BY <1>3, <1>5
<1>8. ASSUME NEW y \in S PROVE b - t >= y
  <2>1. t <= b - y /\ y \in Nat
    BY <1>4, <1>6
  <2> QED
    BY <1>7, <2>1
<1> QED
  BY <1>7, <1>8 DEF Max

\* A strictly increasing enumeration of n consecutive numbers.
LEMMA Staircase ==
    ASSUME NEW n \in Nat, 1 <= n, NEW a \in Int, NEW f \in [1..n -> a..(a + n - 1)],
           \A i, j \in 1..n : i < j => f[i] < f[j]
    PROVE  \A i \in 1..n : f[i] = a + i - 1
<1>1. \A i \in 1..n : f[i] \in Int /\ a <= f[i] /\ f[i] <= a + n - 1
  <2>1. ASSUME NEW i \in 1..n PROVE f[i] \in a..(a + n - 1)
    OBVIOUS
  <2>2. \A x \in a..(a + n - 1) : x \in Int /\ a <= x /\ x <= a + n - 1
    OBVIOUS
  <2> QED
    BY <2>1, <2>2
<1> DEFINE S == {k \in 0..(n - 1) : a + k <= f[k + 1]}
           R == {k \in 0..(n - 1) : f[n - k] <= a + n - 1 - k}
<1>2. n - 1 \in Nat
  OBVIOUS
<1>3. 0 \in S
  <2>1. 1 \in 1..n /\ 0 + 1 = 1 /\ 0 \in 0..(n - 1)
    OBVIOUS
  <2> QED
    BY <1>1, <2>1
<1>4. ASSUME NEW k \in 0..((n - 1) - 1), k \in S PROVE k + 1 \in S
  <2>1. k + 1 \in 1..n /\ (k + 1) + 1 \in 1..n /\ k + 1 < (k + 1) + 1 /\ k + 1 \in 0..(n - 1)
    OBVIOUS
  <2>2. f[k + 1] < f[(k + 1) + 1] /\ f[k + 1] \in Int /\ f[(k + 1) + 1] \in Int /\ a + k <= f[k + 1]
    BY <1>1, <1>4, <2>1
  <2>3. a + (k + 1) <= f[(k + 1) + 1]
    BY <2>1, <2>2
  <2> QED
    BY <2>1, <2>3
<1>5. 0..(n - 1) \subseteq S
  <2> HIDE DEF S
  <2> QED
    BY <1>2, <1>3, <1>4, InductionUpTo
<1>6. 0 \in R
  <2>1. n \in 1..n /\ n - 0 = n /\ 0 \in 0..(n - 1) /\ a + n - 1 - 0 = a + n - 1
    OBVIOUS
  <2>2. f[n - 0] <= a + n - 1
    BY <1>1, <2>1
  <2> QED
    BY <2>1, <2>2
<1>7. ASSUME NEW k \in 0..((n - 1) - 1), k \in R PROVE k + 1 \in R
  <2>1. n - k \in 1..n /\ n - (k + 1) \in 1..n /\ n - (k + 1) < n - k /\ k + 1 \in 0..(n - 1)
    OBVIOUS
  <2>2. f[n - (k + 1)] < f[n - k] /\ f[n - (k + 1)] \in Int /\ f[n - k] \in Int /\ f[n - k] <= a + n - 1 - k
    BY <1>1, <1>7, <2>1
  <2>3. f[n - (k + 1)] <= a + n - 1 - (k + 1)
    BY <2>1, <2>2
  <2> QED
    BY <2>1, <2>3
<1>8. 0..(n - 1) \subseteq R
  <2> HIDE DEF R
  <2> QED
    BY <1>2, <1>6, <1>7, InductionUpTo
<1>9. ASSUME NEW i \in 1..n PROVE f[i] = a + i - 1
  <2>1. i - 1 \in 0..(n - 1) /\ n - i \in 0..(n - 1) /\ (i - 1) + 1 = i /\ n - (n - i) = i
    OBVIOUS
  <2>2. a + (i - 1) <= f[(i - 1) + 1] /\ f[n - (n - i)] <= a + n - 1 - (n - i)
    BY <1>5, <1>8, <2>1
  <2>3. f[i] \in Int /\ a + (i - 1) <= f[i] /\ f[i] <= a + n - 1 - (n - i)
    BY <1>1, <2>1, <2>2
  <2> QED
    BY <2>3
<1> QED
  BY <1>9

\* The charges in the order of their dates, as build_candidate sorts them.
LEMMA ByDate ==
    ASSUME NEW s \in Seq(Payment)
    PROVE  /\ Sorted(s, Earlier(s)) \in Seq(Payment)
           /\ \E p : Permutes(p, Sorted(s, Earlier(s)), s)
           /\ \A i, j \in 1..Len(Sorted(s, Earlier(s))) :
                  i < j => DayNumber(Sorted(s, Earlier(s))[i].date)
                               <= DayNumber(Sorted(s, Earlier(s))[j].date)
<1> DEFINE T == ToSet(s)
           before == Earlier(s)
           u == Sorted(s, before)
<1>1. s \in Seq(T) /\ T \subseteq Payment
  BY InOwnRange
<1>2. \A x \in T : DayNumber(x.date) \in Int
  <2>1. \A x \in T : x.date \in Date
    BY <1>1 DEF Payment, Transaction
  <2> QED
    BY <2>1, DateNumber
<1>3. \A x, y \in T : <<x, y>> \in before <=> DayNumber(x.date) < DayNumber(y.date)
  BY DEF Earlier
<1> HIDE DEF T, before
<1>4. WeakOrder(before, T)
  <2>1. \A a, b \in Int : a < b => ~(b < a)
    OBVIOUS
  <2>2. \A a, b, c \in Int : a < c => a < b \/ b < c
    OBVIOUS
  <2>3. \A x, y \in T : <<x, y>> \in before => <<y, x>> \notin before
    BY <1>2, <1>3, <2>1
  <2>4. \A x, y, z \in T : <<x, z>> \in before => <<x, y>> \in before \/ <<y, z>> \in before
    BY <1>2, <1>3, <2>2
  <2> QED
    BY <2>3, <2>4 DEF WeakOrder
<1>5. u \in Seq(T) /\ Ascends(u, before)
  BY <1>1, <1>4, SortedPermutes, SortedAscends
<1>6. u \in Seq(Payment) /\ \E p : Permutes(p, u, s)
  BY SortedPermutes
<1>7. ASSUME NEW i \in 1..Len(u), NEW j \in 1..Len(u), i < j
      PROVE  DayNumber(u[i].date) <= DayNumber(u[j].date)
  <2>1. u[i] \in T /\ u[j] \in T
    BY <1>5, ElementOfSeq
  <2>2. <<u[j], u[i]>> \notin before
    BY <1>5, <1>7 DEF Ascends
  <2>3. /\ DayNumber(u[i].date) \in Int /\ DayNumber(u[j].date) \in Int
        /\ ~(DayNumber(u[j].date) < DayNumber(u[i].date))
    BY <1>2, <1>3, <2>1, <2>2
  <2> QED
    BY <2>3
<1> QED
  BY <1>6, <1>7 DEF before

\* A month later on the same day.
LEMMA MonthApart ==
    ASSUME NEW d \in Date, NEW e \in Date, MonthOf(e) = MonthOf(d) + 1,
           NEW day \in 1..31, OnDay(d, day), OnDay(e, day)
    PROVE  DayNumber(e) - DayNumber(d) \in 28..31
<1> DEFINE k == MonthOf(d) - 1
           m == Length(k)
           n == Length(k + 1)
<1>1. k \in Nat /\ 12 <= k /\ MonthOf(e) - 1 = k + 1
  <2>1. MonthOf(d) \in Int
    BY DateIs
  <2>2. MonthOf(d) - 1 \in Nat /\ 12 <= MonthOf(d) - 1
    BY DateIs
  <2> QED
    BY <2>1, <2>2
<1>2. DayNumber(d) = Start(k) + d[3] /\ DayNumber(e) = Start(k + 1) + e[3]
  BY <1>1, DateNumber
<1>3. k + 1 \in Int /\ k \in Int
  BY <1>1
<1>4. m \in 28..31 /\ n \in 28..31 /\ Start(k) \in Int
  BY <1>3, LengthRange, StartType
<1>5. Start(k + 1) = Start(k) + m
  BY <1>1, StartStep
<1>6. d[3] = Min({day, m}) /\ e[3] = Min({day, n})
  <2>1. DaysIn(d[1], d[2]) = m
    BY DateIs DEF Length
  <2>2. DaysIn(e[1], e[2]) = n
    BY <1>1, DateIs DEF Length
  <2> QED
    BY <2>1, <2>2 DEF OnDay
<1> HIDE DEF k, m, n
<1>7. m \in Int /\ n \in Int /\ day \in Int
  BY <1>4
<1>8. d[3] = (IF day <= m THEN day ELSE m) /\ e[3] = (IF day <= n THEN day ELSE n)
  BY <1>6, <1>7, SmallerIs
<1>9. DayNumber(e) - DayNumber(d) = m + e[3] - d[3]
  BY <1>2, <1>4, <1>5, <1>7, <1>8
<1> QED
  BY <1>4, <1>7, <1>8, <1>9

\* Months are numbered with naturals, up to a bound.
LEMMA MonthRange ==
    \E b \in Nat : \A d \in Date : MonthOf(d) \in Nat /\ MonthOf(d) <= b
<1>1. ASSUME NEW c \in Nat, NEW y \in 1..c, NEW m \in 1..12
      PROVE  12 * y + m \in Nat /\ 12 * y + m <= 12 * c + 12
  OBVIOUS
<1> DEFINE c == MAXYEAR
<1>3. \A d \in Date : d[1] \in 1..c /\ d[2] \in 1..12
  BY DEF Date
<1>4. c \in Nat
  BY DEF MAXYEAR
<1> HIDE DEF c
<1>5. ASSUME NEW d \in Date PROVE MonthOf(d) \in Nat /\ MonthOf(d) <= 12 * c + 12
  <2>1. 12 * d[1] + d[2] \in Nat /\ 12 * d[1] + d[2] <= 12 * c + 12
    BY <1>1, <1>3, <1>4
  <2> QED
    BY <2>1 DEF MonthOf
<1>6. 12 * c + 12 \in Nat
  BY <1>4
<1> QED
  BY <1>5, <1>6

\* A charge has a date and a name.
LEMMA PaymentDate ==
    ASSUME NEW t \in Payment
    PROVE  t.date \in Date /\ t.name \in Name
  BY DEF Payment, Transaction

\* Monthly charges in the order of their dates are a month apart.
LEMMA MonthlySorted ==
    ASSUME NEW s \in Seq(Payment), NEW day \in 1..31, Monthly(s, day)
    PROVE  /\ Len(Sorted(s, Earlier(s))) = Len(s) /\ 2 <= Len(s)
           /\ Sorted(s, Earlier(s)) \in Seq(Payment)
           /\ \A i \in 1..Len(s) : OnDay(Sorted(s, Earlier(s))[i].date, day)
           /\ \A i \in 1..(Len(s) - 1) :
                  DayNumber(Sorted(s, Earlier(s))[i + 1].date)
                      - DayNumber(Sorted(s, Earlier(s))[i].date) \in 28..31
<1> DEFINE n == Len(s)
           u == Sorted(s, Earlier(s))
           M == {MonthOf(s[i].date) : i \in DOMAIN s}
           f == [i \in 1..n |-> MonthOf(u[i].date)]
<1>1. n \in Nat /\ DOMAIN s = 1..n /\ \A i \in 1..n : s[i] \in Payment /\ s[i].date \in Date
  BY ElementOfSeq, PaymentDate
<1>2. 2 <= n /\ M = Min(M)..Max(M) /\ Cardinality(M) = n /\ \A i \in 1..n : OnDay(s[i].date, day)
  BY <1>1 DEF Monthly
<1>0. PICK b \in Nat : \A d \in Date : MonthOf(d) \in Nat /\ MonthOf(d) <= b
  BY MonthRange
<1>3. M \subseteq Nat /\ M # {} /\ \A y \in M : y <= b
  <2>1. \A i \in 1..n : MonthOf(s[i].date) \in Nat /\ MonthOf(s[i].date) <= b
    BY <1>0, <1>1
  <2>2. 1 \in 1..n
    BY <1>1, <1>2
  <2>3. MonthOf(s[1].date) \in M
    BY <1>1, <2>2
  <2>4. ASSUME NEW y \in M PROVE y \in Nat /\ y <= b
    <3>1. PICK i \in DOMAIN s : y = MonthOf(s[i].date)
      OBVIOUS
    <3> QED
      BY <1>1, <2>1, <3>1
  <2> QED
    BY <2>3, <2>4
<1>4. PICK p : Permutes(p, u, s)
  BY ByDate
<1>5. /\ u \in Seq(Payment) /\ Len(u) = n
      /\ \A i \in 1..n : p[i] \in 1..n /\ u[i] = s[p[i]]
      /\ \A j \in 1..n : \E i \in 1..n : p[i] = j
  <2>1. Len(u) = n /\ p \in [1..Len(u) -> 1..Len(u)] /\ \A i \in 1..Len(u) : u[i] = s[p[i]]
    BY <1>4 DEF Permutes
  <2>2. u \in Seq(Payment)
    BY ByDate
  <2>3. \A j \in 1..Len(u) : \E i \in 1..Len(u) : p[i] = j
    BY <1>1, <1>4, <2>1, PermutesOnto
  <2> QED
    BY <2>1, <2>2, <2>3
<1>6. \A i, j \in 1..n : i < j => DayNumber(u[i].date) <= DayNumber(u[j].date)
  BY <1>5, ByDate
<1>7. \A i \in 1..n : u[i].date \in Date /\ OnDay(u[i].date, day)
  BY <1>1, <1>2, <1>5
<1>8. \A i \in 1..n : MonthOf(u[i].date) \in M
  BY <1>1, <1>5
<1>9. \A x \in M : \E i \in 1..n : MonthOf(u[i].date) = x
  <2>1. ASSUME NEW x \in M PROVE \E i \in 1..n : MonthOf(u[i].date) = x
    <3>1. PICK j \in 1..n : x = MonthOf(s[j].date)
      BY <1>1
    <3>2. PICK i \in 1..n : p[i] = j
      BY <1>5
    <3>3. u[i] = s[j]
      BY <1>5, <3>2
    <3> QED
      BY <3>1, <3>3
  <2> QED
    BY <2>1
<1> HIDE DEF u, n, M
<1>10. f \in Surjection(1..n, M)
  <2>1. f \in [1..n -> M]
    BY <1>8
  <2>2. \A x \in M : \E i \in 1..n : f[i] = x
    BY <1>9
  <2> HIDE DEF f
  <2> QED
    BY <2>1, <2>2 DEF Surjection
<1>11. f \in Injection(1..n, M)
  <2>1. IsFiniteSet(1..n) /\ Cardinality(1..n) = n
    <3>1. 1 \in Int /\ n \in Int
      BY <1>1
    <3>2. IsFiniteSet(1..n) /\ Cardinality(1..n) = IF 1 > n THEN 0 ELSE n - 1 + 1
      BY <3>1, FS_Interval
    <3> QED
      BY <1>1, <1>2, <3>2
  <2> HIDE DEF f
  <2>2. Cardinality(1..n) = Cardinality(M)
    BY <1>2, <2>1
  <2> QED
    BY <1>10, <2>1, <2>2, FS_SurjSameCardinalityImpliesInj
<1>12. \A i, j \in 1..n : i < j => f[i] < f[j]
  <2>1. ASSUME NEW i \in 1..n, NEW j \in 1..n, i < j PROVE f[i] < f[j]
    <3>1. f[i] = MonthOf(u[i].date) /\ f[j] = MonthOf(u[j].date)
      OBVIOUS
    <3>2. i # j /\ f[i] \in Nat /\ f[j] \in Nat
      <4>1. i # j
        BY <1>1, <2>1
      <4>2. f[i] \in M /\ f[j] \in M
        BY <1>8, <3>1
      <4> HIDE DEF f
      <4> QED
        BY <1>3, <4>1, <4>2
    <3>3. f[i] # f[j]
      <4>1. \A x, y \in DOMAIN f : f[x] = f[y] => x = y
        BY <1>11 DEF Injection, IsInjective
      <4>2. DOMAIN f = 1..n
        OBVIOUS
      <4> HIDE DEF f
      <4> QED
        BY <3>2, <4>1, <4>2
    <3>4. ~(f[j] < f[i])
      <4>1. SUFFICES ASSUME f[j] < f[i] PROVE FALSE
        OBVIOUS
      <4>2. u[i].date \in Date /\ u[j].date \in Date /\ MonthOf(u[j].date) < MonthOf(u[i].date)
        BY <1>7, <3>1, <4>1
      <4>3. DayNumber(u[j].date) < DayNumber(u[i].date)
        BY <4>2, LaterMonth
      <4>4. DayNumber(u[i].date) <= DayNumber(u[j].date)
        BY <1>6, <2>1
      <4>5. DayNumber(u[i].date) \in Int /\ DayNumber(u[j].date) \in Int
        BY <4>2, DateNumber
      <4> QED
        BY <4>3, <4>4, <4>5
    <3> HIDE DEF f
    <3> QED
      BY <3>2, <3>3, <3>4
  <2> QED
    BY <2>1
<1>13. PICK a \in Nat : M = a..(a + n - 1)
  <2>1. Min(M) \in M /\ \A y \in M : Min(M) <= y
    BY <1>3, MinIs
  <2>2. Max(M) \in M /\ \A y \in M : Max(M) >= y
    BY <1>3, MaxIs
  <2> DEFINE a == Min(M)
             c == Max(M)
  <2>3. a \in Nat /\ c \in Nat /\ M = a..c
    BY <1>2, <1>3, <2>1, <2>2
  <2>6. a <= c
    <3>1. a \in M /\ \A y \in M : c >= y
      BY <2>1, <2>2
    <3> HIDE DEF a, c
    <3> QED
      BY <2>3, <3>1
  <2> HIDE DEF a, c
  <2>7. a \in Int /\ c \in Int
    BY <2>3
  <2>4. Cardinality(a..c) = IF a > c THEN 0 ELSE c - a + 1
    BY <2>7, FS_Interval
  <2>5. c = a + n - 1
    BY <1>1, <1>2, <2>3, <2>4, <2>6
  <2> QED
    BY <2>3, <2>5
<1>14. \A i \in 1..n : f[i] = a + i - 1
  <2>1. f \in [1..n -> a..(a + n - 1)]
    BY <1>8, <1>13
  <2>2. n \in Nat /\ 1 <= n /\ a \in Int
    BY <1>1, <1>2
  <2> HIDE DEF f
  <2> QED
    BY <1>12, <2>1, <2>2, Staircase
<1>15. ASSUME NEW i \in 1..(n - 1)
       PROVE  DayNumber(u[i + 1].date) - DayNumber(u[i].date) \in 28..31
  <2>1. i \in 1..n /\ i + 1 \in 1..n
    BY <1>1
  <2>2. MonthOf(u[i].date) = a + i - 1 /\ MonthOf(u[i + 1].date) = a + (i + 1) - 1
    BY <1>14, <2>1
  <2>3. MonthOf(u[i + 1].date) = MonthOf(u[i].date) + 1
    BY <1>1, <2>2
  <2> QED
    BY <1>7, <2>1, <2>3, MonthApart
<1> QED
  BY <1>2, <1>5, <1>7, <1>15 DEF u, n

---------------------------------------------------------------------------
(* Forecasts *)

\* A sum lies between its length times the bounds of its terms.
LEMMA SumBounds ==
    ASSUME NEW s \in Seq(Int), NEW lo \in Int, NEW hi \in Int,
           \A i \in 1..Len(s) : lo <= s[i] /\ s[i] <= hi
    PROVE  Len(s) * lo <= SumSeq(s) /\ SumSeq(s) <= Len(s) * hi
<1>1. PICK f \in [0..Len(s) -> Int] :
          f[0] = 0 /\ (\A i \in 1..Len(s) : f[i] = f[i - 1] + s[i]) /\ SumSeq(s) = f[Len(s)]
  BY SumDef
<1>2. Len(s) \in Nat /\ \A i \in 1..Len(s) : s[i] \in Int
  OBVIOUS
<1> DEFINE S == {i \in 0..Len(s) : i * lo <= f[i] /\ f[i] <= i * hi}
<1>3. 0 \in S
  BY <1>1, <1>2
<1>4. ASSUME NEW k \in 0..(Len(s) - 1), k \in S PROVE k + 1 \in S
  <2>1. k + 1 \in 1..Len(s) /\ k + 1 \in 0..Len(s) /\ k \in 0..Len(s) /\ (k + 1) - 1 = k
    BY <1>2
  <2>2. f[k + 1] = f[k] + s[k + 1] /\ f[k] \in Int /\ s[k + 1] \in Int
    BY <1>1, <1>2, <2>1
  <2>3. lo <= s[k + 1] /\ s[k + 1] <= hi /\ k * lo <= f[k] /\ f[k] <= k * hi
    BY <1>4, <2>1
  <2> DEFINE a == k * lo
             b == k * hi
  <2>4. a \in Int /\ b \in Int /\ (k + 1) * lo = a + lo /\ (k + 1) * hi = b + hi
    BY <2>1
  <2> DEFINE p == f[k]
             q == s[k + 1]
             r == f[k + 1]
  <2>5. p \in Int /\ q \in Int /\ r = p + q /\ lo <= q /\ q <= hi /\ a <= p /\ p <= b
    BY <2>2, <2>3
  <2> HIDE DEF a, b, p, q
  <2>6. a + lo <= r /\ r <= b + hi
    BY <2>4, <2>5
  <2>7. (k + 1) * lo <= f[k + 1] /\ f[k + 1] <= (k + 1) * hi
    BY <2>4, <2>6
  <2> QED
    BY <2>1, <2>7
<1>5. 0..Len(s) \subseteq S
  <2> HIDE DEF S
  <2> QED
    BY <1>2, <1>3, <1>4, InductionUpTo
<1>6. Len(s) \in 0..Len(s)
  BY <1>2
<1> QED
  BY <1>1, <1>5, <1>6

\* n charges are in clusters of at least one, so none has them all beside another.
Sized(cs, n) ==
    /\ Len(cs) <= n
    /\ \A k \in 1..Len(cs) : 1 <= Len(cs[k]) /\ Len(cs[k]) + Len(cs) <= n + 1

\* The next charge leaves the sizes of the clusters right.
LEMMA WithNextSized ==
    ASSUME NEW T, NEW cs \in Seq(Seq(T)), NEW t \in T, NEW n \in Nat, Sized(cs, n)
    PROVE  Sized(WithNext(cs, t), n + 1)
<1> DEFINE l == Len(cs)
           r == WithNext(cs, t)
<1>1. l \in Nat /\ \A k \in 1..l : cs[k] \in Seq(T) /\ Len(cs[k]) \in Nat
  <2>1. \A k \in 1..l : cs[k] \in Seq(T)
    BY ElementOfSeq
  <2> QED
    BY <2>1
<1>2. l <= n /\ \A k \in 1..l : 1 <= Len(cs[k]) /\ Len(cs[k]) + l <= n + 1
  BY DEF Sized
<1>3. CASE /\ 1 <= l /\ Len(r) = l
           /\ \A k \in 1..(l - 1) : r[k] = cs[k]
           /\ r[l] = Append(cs[l], t)
  <2>1. Len(r[l]) = Len(cs[l]) + 1 /\ l \in 1..l
    <3>1. l \in 1..l
      BY <1>1, <1>3
    <3>2. cs[l] \in Seq(T)
      BY <1>1, <3>1
    <3>3. Len(Append(cs[l], t)) = Len(cs[l]) + 1
      BY <3>2, AppendProperties
    <3> QED
      BY <1>3, <3>1, <3>3
  <2>2. ASSUME NEW k \in 1..l PROVE 1 <= Len(r[k]) /\ Len(r[k]) + l <= (n + 1) + 1
    <3>1. CASE k = l
      <4> DEFINE x == Len(cs[k])
                 y == Len(r[k])
      <4>1. x \in Nat /\ x + l <= n + 1 /\ y = x + 1
        BY <1>1, <1>2, <2>1, <3>1
      <4> HIDE DEF r, x, y
      <4>2. 1 <= y /\ y + l <= (n + 1) + 1
        BY <1>1, <4>1
      <4> QED
        BY <4>2 DEF y
    <3>2. CASE k # l
      <4>1. k \in 1..(l - 1)
        BY <1>1, <3>2
      <4>2. r[k] = cs[k]
        BY <1>3, <4>1
      <4> QED
        BY <1>1, <1>2, <4>2
    <3> QED
      BY <3>1, <3>2
  <2> HIDE DEF r
  <2>3. l <= n + 1
    BY <1>1, <1>2
  <2> QED
    BY <1>3, <2>2, <2>3 DEF Sized, r
<1>4. CASE /\ Len(r) = l + 1
           /\ \A k \in 1..l : r[k] = cs[k]
           /\ r[l + 1] = <<t>>
  <2>1. ASSUME NEW k \in 1..(l + 1) PROVE 1 <= Len(r[k]) /\ Len(r[k]) + (l + 1) <= (n + 1) + 1
    <3>1. CASE k = l + 1
      <4>1. Len(r[k]) = 1
        BY <1>4, <3>1
      <4> QED
        BY <1>1, <1>2, <4>1
    <3>2. CASE k # l + 1
      <4>1. k \in 1..l
        BY <1>1, <3>2
      <4> DEFINE a == Len(cs[k])
      <4>2. Len(r[k]) = a /\ a \in Nat /\ 1 <= a /\ a + l <= n + 1
        BY <1>1, <1>2, <1>4, <4>1
      <4> HIDE DEF a, r, l
      <4> QED
        BY <1>1, <4>2
    <3> QED
      BY <3>1, <3>2
  <2>2. l + 1 <= n + 1
    BY <1>1, <1>2
  <2> HIDE DEF r
  <2> QED
    BY <1>4, <2>1, <2>2 DEF Sized, r
<1> QED
  BY <1>3, <1>4, WithNextParts

\* Clusters together hold as many charges as there are.
LEMMA ClusterSizes ==
    ASSUME NEW T, NEW s \in Seq(T)
    PROVE  Sized(Cluster(s), Len(s))
<1>1. PICK f \in [0..Len(s) -> Seq(Seq(T))] : ClustersUpTo(f, s) /\ Cluster(s) = f[Len(s)]
  BY ClusterDef
<1>2. Len(s) \in Nat /\ \A i \in 1..Len(s) : s[i] \in T
  BY ElementOfSeq
<1> DEFINE S == {i \in 0..Len(s) : Sized(f[i], i)}
<1>3. 0 \in S
  <2>1. f[0] = <<>> /\ 0 \in 0..Len(s) /\ Len(<<>>) = 0
    BY <1>1, <1>2 DEF ClustersUpTo
  <2>2. Sized(<<>>, 0)
    BY <2>1 DEF Sized
  <2> QED
    BY <2>1, <2>2
<1>4. ASSUME NEW k \in 0..(Len(s) - 1), k \in S PROVE k + 1 \in S
  <2>1. k + 1 \in 1..Len(s) /\ k + 1 \in 0..Len(s) /\ k \in 0..Len(s) /\ (k + 1) - 1 = k /\ k \in Nat
    BY <1>2
  <2>2. f[k + 1] = WithNext(f[k], s[k + 1]) /\ f[k] \in Seq(Seq(T)) /\ s[k + 1] \in T
    BY <1>1, <1>2, <2>1 DEF ClustersUpTo
  <2>3. Sized(f[k], k)
    BY <1>4
  <2>4. Sized(WithNext(f[k], s[k + 1]), k + 1)
    BY <2>1, <2>2, <2>3, WithNextSized
  <2> QED
    BY <2>1, <2>2, <2>4
<1>5. 0..Len(s) \subseteq S
  <2> HIDE DEF S
  <2> QED
    BY <1>2, <1>3, <1>4, InductionUpTo
<1>6. Len(s) \in 0..Len(s)
  BY <1>2
<1> QED
  BY <1>1, <1>5, <1>6

\* The charges of a candidate: a cluster, or all of its merchant if there is but one.
CandidateFrom(c, m, s) ==
    LET cs == _cluster_by_amount(s)
    IN  \/ /\ Len(cs) > 1
           /\ \E k \in 1..Len(cs) : \E prices \in Seq(Int) :
                  /\ build_candidate(Label(m, prices), cs[k]) # <<>>
                  /\ c = build_candidate(Label(m, prices), cs[k])[1]
        \/ /\ ~(Len(cs) > 1)
           /\ build_candidate(Label(m, <<>>), s) # <<>>
           /\ c = build_candidate(Label(m, <<>>), s)[1]

\* A candidate of a merchant is made of a cluster of its charges, or of all.
LEMMA CandidatesFrom ==
    ASSUME NEW s \in Seq(Payment), NEW m, NEW i \in 1..Len(CandidatesOf(m, s))
    PROVE  CandidateFrom(CandidatesOf(m, s)[i], m, s)
<1> DEFINE cs == _cluster_by_amount(s)
<1>1. cs \in Seq(Seq(Payment)) /\ \E h \in Int : Clustered(cs, h)
  BY ClusteredByAmount
<1>2. CASE Len(cs) > 1
  <2> DEFINE b(k) == build_candidate(Label(m, <<Average(cs[k])>>), cs[k])
             ss == [k \in DOMAIN cs |-> b(k)]
             T == {b(k)[1] : k \in 1..Len(cs)}
             r == FlattenSeq(ss)
  <2>1. CandidatesOf(m, s) = r
    BY <1>2 DEF CandidatesOf
  <2>2. PICK h \in Int : Clustered(cs, h)
    BY <1>1
  <2> HIDE DEF cs
  <2>3. Len(cs) \in Nat /\ DOMAIN cs = 1..Len(cs)
    BY <1>1
  <2>4. ASSUME NEW k \in 1..Len(cs)
        PROVE  cs[k] \in Seq(Payment) /\ <<Average(cs[k])>> \in Seq(Int)
    <3>1. cs[k] \in Seq(Payment) /\ 1 <= Len(cs[k])
      BY <1>1, <2>2, ElementOfSeq DEF Clustered
    <3>2. Average(cs[k]) \in Int
      BY <3>1, AverageType
    <3> QED
      BY <3>1, <3>2
  <2>5. ASSUME NEW k \in 1..Len(cs), b(k) # <<>>
        PROVE  Len(b(k)) = 1 /\ b(k) = <<b(k)[1]>>
    BY <2>4, <2>5, BuildOne
  <2>6. \A k \in 1..Len(cs) : b(k) = build_candidate(Label(m, <<Average(cs[k])>>), cs[k])
    OBVIOUS
  <2> HIDE DEF b
  <2>7. ss \in Seq(Seq(T)) /\ Len(ss) = Len(cs) /\ \A k \in 1..Len(cs) : ss[k] = b(k)
    <3>1. ASSUME NEW k \in 1..Len(cs) PROVE b(k) \in Seq(T)
      <4>1. CASE b(k) = <<>>
        BY <4>1
      <4>2. CASE b(k) # <<>>
        <5> DEFINE x == b(k)[1]
        <5>1. b(k) = <<x>> /\ x \in T
          BY <2>5, <4>2
        <5> HIDE DEF x, T
        <5>2. <<x>> \in Seq(T)
          BY <5>1
        <5> QED
          BY <5>1, <5>2
      <4> QED
        BY <4>1, <4>2
    <3>2. ss = [k \in 1..Len(cs) |-> ss[k]] /\ \A k \in 1..Len(cs) : ss[k] = b(k)
      BY <2>3
    <3>3. \A k \in 1..Len(cs) : ss[k] \in Seq(T)
      BY <3>1, <3>2
    <3> HIDE DEF ss, T
    <3> QED
      BY <2>3, <3>2, <3>3, SequenceOf
  <2> HIDE DEF ss, T
  <2>8. r \in Seq(T) /\ \E at : Places(at, r, ss, Len(cs))
    BY <2>7, FlattenPlaces
  <2> HIDE DEF r
  <2>9. PICK at : Places(at, r, ss, Len(cs))
    BY <2>8
  <2> DEFINE k == at[i][1]
             l == at[i][2]
  <2>10. k \in 1..Len(cs) /\ l \in 1..Len(ss[k]) /\ r[i] = ss[k][l]
    BY <2>1, <2>9 DEF Places
  <2> HIDE DEF k, l
  <2>11. ss[k] = b(k)
    BY <2>7, <2>10
  <2>12. b(k) # <<>>
    <3>1. ASSUME b(k) = <<>> PROVE FALSE
      <4>1. Len(b(k)) = 0
        BY <3>1
      <4> QED
        BY <2>10, <2>11, <4>1
    <3> QED
      BY <3>1
  <2>13. l = 1
    BY <2>5, <2>10, <2>11, <2>12
  <2>14. r[i] = b(k)[1]
    BY <2>10, <2>11, <2>13
  <2>15. <<Average(cs[k])>> \in Seq(Int)
    BY <2>4, <2>10
  <2>16. \E prices \in Seq(Int) :
             /\ build_candidate(Label(m, prices), cs[k]) # <<>>
             /\ r[i] = build_candidate(Label(m, prices), cs[k])[1]
    BY <2>6, <2>10, <2>12, <2>14, <2>15
  <2> QED
    BY <1>2, <2>1, <2>10, <2>16 DEF CandidateFrom, cs
<1>3. CASE ~(Len(cs) > 1)
  <2> DEFINE r == build_candidate(Label(m, <<>>), s)
  <2>1. CandidatesOf(m, s) = r
    BY <1>3 DEF CandidatesOf
  <2>2. r # <<>>
    <3>1. ASSUME r = <<>> PROVE FALSE
      <4>1. Len(r) = 0
        BY <3>1
      <4> HIDE DEF r
      <4> QED
        BY <2>1, <4>1
    <3> QED
      BY <3>1
  <2>3. Len(r) = 1
    BY <2>2, BuildOne
  <2>4. i = 1
    <3>1. Len(CandidatesOf(m, s)) = 1
      BY <2>1, <2>3
    <3> HIDE DEF r
    <3> QED
      BY <3>1
  <2> QED
    BY <1>3, <2>1, <2>2, <2>4 DEF CandidateFrom
<1> QED
  BY <1>2, <1>3

\* The score of charges a month apart.
ScoredMonthly(label, s) ==
    \E d : /\ d \in Seq(28..31) /\ 1 <= Len(d)
           /\ build_candidate(label, s)[1].confidence
                  = Confidence(label.name, Amounts(Sorted(s, Earlier(s))), d)

\* What build_candidate makes of monthly charges: a monthly candidate, expected
\* a month after the last of them.
LEMMA BuildMonthly ==
    ASSUME NEW s \in Seq(Payment), NEW day \in 1..31, Monthly(s, day), NEW label
    PROVE  /\ build_candidate(label, s) # <<>>
           /\ build_candidate(label, s)[1].last_charged \in Date
           /\ OnDay(build_candidate(label, s)[1].last_charged, day)
           /\ build_candidate(label, s)[1].next_expected
                  = AddMonths(build_candidate(label, s)[1].last_charged, 1)
           /\ ScoredMonthly(label, s)
<1> DEFINE u == Sorted(s, Earlier(s))
           n == Len(s)
           a == [i \in DOMAIN u |-> DayNumber(u[i].date)]
           d == [i \in 1..(Len(u) - 1) |-> a[i + 1] - a[i]]
           t == SumSeq(d)
           f == infer_frequency(t, Len(d))
           last == u[Len(u)].date
           r == build_candidate(label, s)
<1>1. /\ Len(u) = n /\ 2 <= n /\ u \in Seq(Payment) /\ n \in Nat
      /\ \A i \in 1..n : OnDay(u[i].date, day)
      /\ \A i \in 1..(n - 1) : DayNumber(u[i + 1].date) - DayNumber(u[i].date) \in 28..31
  <2>1. n \in Nat
    OBVIOUS
  <2>2. \A i \in 1..n : OnDay(u[i].date, day)
    BY MonthlySorted
  <2>3. \A i \in 1..(n - 1) : DayNumber(u[i + 1].date) - DayNumber(u[i].date) \in 28..31
    BY MonthlySorted
  <2>4. Len(u) = n /\ 2 <= n /\ u \in Seq(Payment)
    BY MonthlySorted
  <2> QED
    BY <2>1, <2>2, <2>3, <2>4
<1>2. r = IF Len(u) < 2 \/ f = "none" THEN <<>>
          ELSE <<[label |-> label, key |-> merchant_key(label), amount |-> Average(u),
                  frequency |-> f, last_charged |-> last,
                  next_expected |-> next_expected(f, last, d),
                  category |-> u[Len(u)].category,
                  occurrences |-> Len(u),
                  confidence |-> Confidence(label.name, Amounts(u), d)]>>
  BY Zenon DEF build_candidate
<1> HIDE DEF u, n, r
<1>3. d \in Seq(28..31) /\ Len(d) = n - 1
  <2>1. DOMAIN u = 1..n /\ n - 1 \in Nat
    BY <1>1
  <2>2. ASSUME NEW i \in 1..(n - 1) PROVE d[i] \in 28..31
    <3>1. i \in DOMAIN u /\ i + 1 \in DOMAIN u /\ i \in 1..(Len(u) - 1)
      BY <1>1, <2>1
    <3>2. d[i] = DayNumber(u[i + 1].date) - DayNumber(u[i].date)
      BY <3>1
    <3> HIDE DEF d
    <3> QED
      BY <1>1, <3>2
  <2>3. d = [i \in 1..(n - 1) |-> d[i]]
    BY <1>1
  <2> HIDE DEF d
  <2> QED
    BY <2>1, <2>2, <2>3, SequenceOf, SMTT(30)
<1>4. last \in Date /\ OnDay(last, day)
  <2>1. Len(u) \in 1..n
    BY <1>1
  <2>2. u[Len(u)] \in Payment
    BY <1>1, <2>1, ElementOfSeq
  <2> QED
    BY <1>1, <2>1, <2>2, PaymentDate
<1> HIDE DEF d
<1>5. f = "monthly"
  <2>1. d \in Seq(Int) /\ \A i \in 1..Len(d) : 28 <= d[i] /\ d[i] <= 31
    <3>1. \A i \in 1..Len(d) : d[i] \in 28..31
      BY <1>3, ElementOfSeq
    <3>2. \A x \in 28..31 : x \in Int /\ 28 <= x /\ x <= 31
      OBVIOUS
    <3>3. Len(d) \in Nat /\ d \in [1..Len(d) -> 28..31]
      BY <1>3
    <3>4. d \in [1..Len(d) -> Int]
      BY <3>1, <3>2, <3>3
    <3> QED
      BY <3>1, <3>2, <3>3, <3>4
  <2>2. t \in Int
    BY <2>1, SumType
  <2>3. Len(d) * 28 <= t /\ t <= Len(d) * 31
    BY <2>1, SumBounds
  <2> DEFINE l == Len(d)
  <2>4. l \in Nat /\ 1 <= l
    BY <1>1, <1>3
  <2> HIDE DEF l, t
  <2>5. l * 28 <= t /\ t <= l * 31
    BY <2>3 DEF l
  <2>6. infer_frequency(t, l) = "monthly"
    BY <2>2, <2>4, <2>5 DEF infer_frequency
  <2> QED
    BY <2>6 DEF l
<1> HIDE DEF f, last
<1>6. next_expected(f, last, d) = AddMonths(last, 1)
  BY <1>5 DEF next_expected
<1>7. r = <<[label |-> label, key |-> merchant_key(label), amount |-> Average(u),
             frequency |-> f, last_charged |-> last,
             next_expected |-> AddMonths(last, 1),
             category |-> u[Len(u)].category,
             occurrences |-> Len(u),
             confidence |-> Confidence(label.name, Amounts(u), d)]>>
  <2>1. ~(Len(u) < 2 \/ f = "none")
    BY <1>1, <1>5
  <2> QED
    BY <1>2, <1>6, <2>1
<1>8. /\ r # <<>> /\ r[1].last_charged = last /\ r[1].next_expected = AddMonths(last, 1)
      /\ r[1].confidence = Confidence(label.name, Amounts(u), d)
  BY <1>7
<1>9. 1 <= Len(d)
  BY <1>1, <1>3
<1>10. ScoredMonthly(label, s)
  BY <1>3, <1>8, <1>9 DEF ScoredMonthly, u, r
<1> QED
  BY <1>4, <1>8, <1>10 DEF r

\* _add_months, with its year and month named.
LEMMA MonthsAdded ==
    ASSUME NEW d, NEW n, NEW y, NEW m,
           y = d[1] + (d[2] + n - 1) \div 12, m = ((d[2] + n - 1) % 12) + 1
    PROVE  AddMonths(d, n) = DayNumber(<<y, m, Min({d[3], DaysIn(y, m)})>>)
  BY Zenon DEF AddMonths

\* The due date of a day: as that day of the month after d, or its end.
LEMMA DueDate ==
    ASSUME NEW d \in Date, NEW day \in 1..31, OnDay(d, day)
    PROVE  LET y == MonthOf(d) \div 12
               m == (MonthOf(d) % 12) + 1
               due == DayNumber(<<y, m, Min({day, DaysIn(y, m)})>>)
           IN  AddMonths(d, 1) \in (due - 3)..due
<1> DEFINE y == MonthOf(d) \div 12
           m == (MonthOf(d) % 12) + 1
           l == DaysIn(d[1], d[2])
           k == DaysIn(y, m)
           e == d[3]
<1>1. d[1] \in Int /\ d[2] \in 1..12 /\ e \in 1..31
  BY DateIs
<1>2. MonthOf(d) = 12 * d[1] + d[2]
  BY DEF MonthOf
<1>3. y = d[1] + d[2] \div 12 /\ m = (d[2] % 12) + 1 /\ y \in Int /\ m \in 1..12
  <2> DEFINE a == d[1]
             b == d[2]
  <2>1. a \in Int /\ b \in 1..12
    BY <1>1
  <2> HIDE DEF a, b
  <2>2. (12 * a + b) \div 12 = a + b \div 12 /\ (12 * a + b) % 12 = b % 12
    BY <2>1
  <2>3. a + b \div 12 \in Int /\ (b % 12) + 1 \in 1..12
    BY <2>1
  <2> QED
    BY <1>2, <2>2, <2>3 DEF a, b
<1>4. AddMonths(d, 1) = DayNumber(<<y, m, Min({e, k})>>)
  <2>1. d[2] + 1 - 1 = d[2]
    BY <1>1
  <2>2. y = d[1] + (d[2] + 1 - 1) \div 12 /\ m = ((d[2] + 1 - 1) % 12) + 1
    BY <1>3, <2>1
  <2> HIDE DEF y, m
  <2>3. AddMonths(d, 1) = DayNumber(<<y, m, Min({d[3], DaysIn(y, m)})>>)
    BY <2>2, MonthsAdded
  <2> QED
    BY <2>3
<1>5. l \in 28..31 /\ k \in 28..31
  <2>1. l \in 28..31
    BY <1>1, DaysInRange
  <2> HIDE DEF y, m
  <2>2. k \in 28..31
    BY <1>3, DaysInRange
  <2> QED
    BY <2>1, <2>2 DEF y, m
<1>6. e = Min({day, l})
  BY DEF OnDay
<1> HIDE DEF y, m, l, k, e
<1>7. /\ l \in Int /\ k \in Int /\ e \in Int /\ day \in Int
  BY <1>1, <1>5
<1>8. /\ e = (IF day <= l THEN day ELSE l)
      /\ Min({e, k}) = (IF e <= k THEN e ELSE k)
      /\ Min({day, k}) = (IF day <= k THEN day ELSE k)
  BY <1>6, <1>7, SmallerIs
<1> DEFINE p == Min({e, k})
           q == Min({day, k})
<1>9. p \in Int /\ q \in Int /\ q - 3 <= p /\ p <= q
  <2> HIDE DEF p, q
  <2>1. /\ e = (IF day <= l THEN day ELSE l)
        /\ p = (IF e <= k THEN e ELSE k)
        /\ q = (IF day <= k THEN day ELSE k)
    BY <1>8 DEF p, q
  <2> QED
    BY <1>5, <1>7, <2>1
<1> HIDE DEF p, q
<1>10. PICK c \in Int : /\ DayNumber(<<y, m, p>>) = c + p
                        /\ DayNumber(<<y, m, q>>) = c + q
  <2> DEFINE o == Years(y - 1) + Before(m) + (IF m > 2 /\ Leap(y) THEN 1 ELSE 0)
  <2>1. Years(y - 1) \in Int /\ Before(m) \in Int
    <3>1. y - 1 \in Int
      BY <1>3
    <3>2. Years(y - 1) \in Int
      BY <3>1, YearsType
    <3>3. Before(m) \in Int
      BY <1>3, DayNumberIs
    <3> QED
      BY <3>2, <3>3
  <2>2. o \in Int
    BY <2>1
  <2>3. DayNumber(<<y, m, p>>) = o + p
    BY <1>3, <1>9, DayNumberIs
  <2>4. DayNumber(<<y, m, q>>) = o + q
    BY <1>3, <1>9, DayNumberIs
  <2> HIDE DEF o
  <2> QED
    BY <2>2, <2>3, <2>4
<1>11. DayNumber(<<y, m, p>>) \in (DayNumber(<<y, m, q>>) - 3)..DayNumber(<<y, m, q>>)
  BY <1>9, <1>10
<1> QED
  BY <1>4, <1>11 DEF p, q, y, m, k

\* What an accepted candidate keeps of the one that was detected.
LEMMA AcceptedFrom ==
    ASSUME transactions \in Seq(Transaction), NEW a \in Acceptable
    PROVE  \E c \in AllFound :
               /\ a.key = c.key /\ a.last_charged = c.last_charged
               /\ a.next_expected = c.next_expected /\ a.occurrences = c.occurrences
<1>1. CASE \E c \in AllFound : a = Found(c, "rules")
  <2>1. PICK c \in AllFound : a = Found(c, "rules")
    BY <1>1
  <2>2. /\ a.key = c.key /\ a.last_charged = c.last_charged
        /\ a.next_expected = c.next_expected /\ a.occurrences = c.occurrences
    BY <2>1, FoundFields
  <2> QED
    BY <2>2
<1>2. CASE \E p \in AllFound \X Answers : a = merge_candidate_and_ai(p[1], p[2])
  <2>1. PICK p \in AllFound \X Answers : a = merge_candidate_and_ai(p[1], p[2])
    BY <1>2
  <2> DEFINE c == p[1]
  <2>2. c \in AllFound
    OBVIOUS
  <2>3. a = merge_candidate_and_ai(c, p[2])
    BY <2>1
  <2> HIDE DEF c
  <2>4. /\ c.label.prices \in Seq(Int) /\ c.amount \in Int
        /\ c.label = Label(c.key.name, c.label.prices) /\ c.key = merchant_key(c.label)
        /\ c.label.prices # <<>> => c.label.prices[1] = c.amount
    BY <2>2, CandidateFields
  <2>5. /\ Keeps(a, c) /\ a.last_charged = c.last_charged
        /\ a.next_expected = c.next_expected /\ a.occurrences = c.occurrences
    BY <2>3, <2>4, MergeFields
  <2> QED
    BY <2>2, <2>5 DEF Keeps
<1> QED
  BY <1>1, <1>2 DEF Acceptable

\* A candidate of as many charges as its merchant has is made of all of them.
LEMMA MadeOfAll ==
    ASSUME NEW s \in Seq(Payment), NEW m, NEW c, CandidateFrom(c, m, s), c.occurrences = Len(s)
    PROVE  build_candidate(Label(m, <<>>), s) # <<>> /\ c = build_candidate(Label(m, <<>>), s)[1]
<1> DEFINE cs == _cluster_by_amount(s)
           u == Sorted(s, Cheaper(s))
<1>1. CASE Len(cs) > 1
  <2>1. PICK k \in 1..Len(cs) : \E prices \in Seq(Int) :
                  /\ build_candidate(Label(m, prices), cs[k]) # <<>>
                  /\ c = build_candidate(Label(m, prices), cs[k])[1]
    BY <1>1 DEF CandidateFrom
  <2>2. PICK prices \in Seq(Int) :
                  /\ build_candidate(Label(m, prices), cs[k]) # <<>>
                  /\ c = build_candidate(Label(m, prices), cs[k])[1]
    BY <2>1
  <2>3. cs \in Seq(Seq(Payment))
    BY ClusteredByAmount
  <2>4. Sized(cs, Len(s))
    <3>1. u \in Seq(Payment) /\ Len(u) = Len(s)
      BY ByAmount, Reordered
    <3> HIDE DEF u
    <3>2. Sized(Cluster(u), Len(u))
      BY <3>1, ClusterSizes
    <3> QED
      BY <3>1, <3>2 DEF u, _cluster_by_amount
  <2> HIDE DEF cs
  <2>5. cs[k] \in Seq(Payment)
    BY <2>3, ElementOfSeq
  <2>6. c.occurrences = Len(cs[k])
    BY <2>2, <2>5, BuildOne
  <2> DEFINE l == Len(cs[k])
             j == Len(cs)
             n == Len(s)
  <2>7. l \in Nat /\ j \in Nat /\ n \in Nat /\ l + j <= n + 1 /\ l = n /\ j > 1
    BY <1>1, <2>3, <2>4, <2>5, <2>6 DEF Sized
  <2> HIDE DEF l, j, n
  <2> QED
    BY <2>7
<1>2. CASE ~(Len(cs) > 1)
  BY <1>2 DEF CandidateFrom
<1> QED
  BY <1>1, <1>2

\* A merchant that charges on one day of the month is expected on that day of
\* the next month, and at most three days earlier, at the end of a February,
\* whatever it charges and whenever it began (_add_months, build_candidate).
THEOREM ForecastInTimeCorrect == PipelineSpec => []ForecastInTime
<1>1. LoopInv => ForecastInTime
  <2> SUFFICES ASSUME LoopInv, NEW i \in DOMAIN accepted, NEW day \in 1..31,
                      Monthly(ChargesOf(accepted[i].key.name), day),
                      accepted[i].occurrences = Len(ChargesOf(accepted[i].key.name))
               PROVE  LET c == accepted[i]
                          month == MonthOf(c.last_charged)
                          next == <<month \div 12, (month % 12) + 1>>
                          due == DayNumber(<<next[1], next[2], Min({day, DaysIn(next[1], next[2])})>>)
                      IN  c.next_expected \in (due - 3)..due
    BY Zenon DEF ForecastInTime
  <2> DEFINE a == accepted[i]
             s == ChargesOf(a.key.name)
  <2>1. transactions \in Seq(Transaction) /\ a \in Acceptable
    <3>1. accepted \in Seq(Acceptable)
      BY DEF LoopInv
    <3>2. i \in 1..Len(accepted)
      BY <3>1
    <3> QED
      BY <3>1, <3>2, ElementOfSeq DEF LoopInv
  <2>2. Monthly(s, day) /\ a.occurrences = Len(s)
    OBVIOUS
  <2>3. s = merchant_groups(transactions, a.key.name)
    BY DEF ChargesOf
  <2> HIDE DEF a, s
  <2>4. PICK c \in AllFound :
                /\ a.key = c.key /\ a.last_charged = c.last_charged
                /\ a.next_expected = c.next_expected /\ a.occurrences = c.occurrences
    BY <2>1, AcceptedFrom
  <2>5. s \in Seq(Payment)
    BY <2>1, <2>3, GroupCharges
  <2>6. CandidateFrom(c, a.key.name, s)
    <3>1. PICK k \in 1..Len(GroupCandidates(transactions, c.key.name)) :
              c = GroupCandidates(transactions, c.key.name)[k]
      BY <2>1, CandidateFields
    <3>2. GroupCandidates(transactions, c.key.name) = CandidatesOf(a.key.name, s)
      BY <2>3, <2>4 DEF GroupCandidates
    <3>3. k \in 1..Len(CandidatesOf(a.key.name, s)) /\ c = CandidatesOf(a.key.name, s)[k]
      BY <3>1, <3>2
    <3> QED
      BY <2>5, <3>3, CandidatesFrom
  <2>7. c = build_candidate(Label(a.key.name, <<>>), s)[1]
    <3>1. c.occurrences = Len(s)
      BY <2>2, <2>4
    <3> QED
      BY <2>5, <2>6, <3>1, MadeOfAll
  <2> DEFINE last == a.last_charged
  <2>8. last \in Date /\ OnDay(last, day) /\ a.next_expected = AddMonths(last, 1)
    BY <2>2, <2>4, <2>5, <2>7, BuildMonthly
  <2> HIDE DEF last
  <2> DEFINE y == MonthOf(last) \div 12
             m == (MonthOf(last) % 12) + 1
             due == DayNumber(<<y, m, Min({day, DaysIn(y, m)})>>)
  <2>9. a.next_expected \in (due - 3)..due
    BY <2>8, DueDate
  <2> HIDE DEF y, m
  <2>10. <<y, m>>[1] = y /\ <<y, m>>[2] = m
    OBVIOUS
  <2> QED
    BY <2>9, <2>10 DEF a, last, y, m
<1> QED
  BY <1>1, LoopInit, LoopNext, PTL DEF PipelineSpec

---------------------------------------------------------------------------
(* The score of steady charges *)

\* The maximum of two.
LEMMA LargerIs ==
    ASSUME NEW a \in Int, NEW b \in Int
    PROVE  Max({a, b}) = IF a >= b THEN a ELSE b
<1> DEFINE m == IF a >= b THEN a ELSE b
           S == {a, b}
<1>1. m \in S /\ \A y \in S : m >= y
  OBVIOUS
<1>2. \A x \in S : (\A y \in S : x >= y) => x = m
  OBVIOUS
<1>3. Max(S) \in S /\ \A y \in S : Max(S) >= y
  BY <1>1 DEF Max
<1> HIDE DEF S
<1> QED
  BY <1>2, <1>3 DEF S

\* The deviation of some values is that of one of them.
LEMMA DeviationIs ==
    ASSUME NEW s \in Seq(Int), 1 <= Len(s), NEW b \in Nat,
           \A i \in 1..Len(s) : Distance(Len(s) * s[i], SumSeq(s)) \in 0..b
    PROVE  Deviation(s) \in 0..b
<1> DEFINE S == {Distance(Len(s) * s[i], SumSeq(s)) : i \in DOMAIN s}
<1>1. DOMAIN s = 1..Len(s) /\ 1 \in 1..Len(s)
  OBVIOUS
<1>2. S \subseteq 0..b /\ S # {}
  BY <1>1
<1>3. Deviation(s) = Max(S)
  BY DEF Deviation
<1> HIDE DEF S
<1>4. S \subseteq Nat /\ \A y \in S : y <= b
  <2>1. \A y \in 0..b : y \in Nat /\ y <= b
    OBVIOUS
  <2> QED
    BY <1>2, <2>1
<1>5. Max(S) \in S
  BY <1>2, <1>4, MaxIs
<1> QED
  BY <1>2, <1>3, <1>5

\* A tier that covers the deviation bounds the score from below.
LEMMA TierCovers ==
    ASSUME NEW s, NEW tiers, NEW t \in tiers, \A u \in tiers : u[2] \in 0..100,
           100 * Deviation(s) <= t[1] * SumSeq(s)
    PROVE  Tier(s, tiers) \in 0..100 /\ t[2] <= Tier(s, tiers)
<1> DEFINE U == {u \in tiers : 100 * Deviation(s) <= u[1] * SumSeq(s)}
           S == {0} \cup {u[2] : u \in U}
<1>1. Tier(s, tiers) = Max(S)
  BY DEF Tier
<1>2. t \in U /\ \A u \in U : u[2] \in 0..100
  OBVIOUS
<1> HIDE DEF U
<1>3. t[2] \in S /\ 0 \in S /\ \A y \in S : y \in 0..100
  BY <1>2
<1> HIDE DEF S
<1>4. S \subseteq Nat /\ \A y \in S : y <= 100
  <2>1. \A y \in 0..100 : y \in Nat /\ y <= 100
    OBVIOUS
  <2> QED
    BY <1>3, <2>1
<1>5. Max(S) \in S /\ \A y \in S : Max(S) >= y
  <2>1. 100 \in Nat /\ S # {}
    BY <1>3
  <2> QED
    BY <1>4, <2>1, MaxIs
<1> DEFINE x == t[2]
           r == Max(S)
<1>6. x \in 0..100 /\ r \in 0..100 /\ r >= x
  BY <1>3, <1>5
<1> HIDE DEF x, r
<1>7. r \in 0..100 /\ x <= r
  BY <1>6
<1> QED
  BY <1>1, <1>7 DEF x, r

\* Equal amounts score 100 (amount_consistency_score).
LEMMA EqualAmounts ==
    ASSUME NEW a \in Nat, 1 <= a, NEW s \in Seq(Int), 2 <= Len(s), \A i \in 1..Len(s) : s[i] = a
    PROVE  amount_consistency_score(s) = 100
<1> DEFINE tiers == {<<5, 100>>, <<10, 90>>, <<20, 75>>, <<30, 50>>}
           t == SumSeq(s)
           n == Len(s)
           dev == Deviation(s)
<1>1. n \in Nat /\ 2 <= n
  OBVIOUS
<1>2. t = n * a
  <2>1. (\A i \in 1..n : a <= s[i] /\ s[i] <= a) /\ a \in Int
    OBVIOUS
  <2>2. n * a <= t /\ t <= n * a
    BY <2>1, SumBounds
  <2>3. t \in Int /\ n * a \in Int
    BY <1>1, SumType
  <2> HIDE DEF t, n
  <2> QED
    BY <2>2, <2>3
<1>3. dev = 0
  <2>1. ASSUME NEW i \in 1..n PROVE Distance(n * s[i], t) \in 0..0
    <3>1. n * s[i] = t /\ n * a \in Int
      BY <1>1, <1>2
    <3> HIDE DEF t, n
    <3> QED
      BY <1>2, <3>1 DEF Distance
  <2>2. 0 \in Nat /\ 1 <= Len(s)
    BY <1>1
  <2>3. Deviation(s) \in 0..0
    BY <2>1, <2>2, DeviationIs
  <2> QED
    BY <2>3
<1>4. t \in Int /\ 0 < t
  <2>1. n * 1 <= n * a /\ n * a \in Int
    BY <1>1
  <2> HIDE DEF t, n
  <2> QED
    BY <1>1, <1>2, <2>1
<1>5. Tier(s, tiers) = 100
  <2> DEFINE u == <<5, 100>>
  <2>1. u \in tiers /\ \A v \in tiers : v[2] \in 0..100
    OBVIOUS
  <2>2. u[1] = 5 /\ u[2] = 100
    OBVIOUS
  <2> HIDE DEF tiers, u
  <2>3. 100 * dev <= u[1] * t
    <3> HIDE DEF dev, t
    <3> QED
      BY <1>3, <1>4, <2>2
  <2>4. Tier(s, tiers) \in 0..100 /\ u[2] <= Tier(s, tiers)
    BY <2>1, <2>3, TierCovers
  <2> DEFINE r == Tier(s, tiers)
  <2>5. r \in 0..100 /\ 100 <= r
    BY <2>2, <2>4
  <2> HIDE DEF r
  <2>6. r = 100
    BY <2>5
  <2> QED
    BY <2>6 DEF r
<1>6. ~(n < 2 \/ t <= 0)
  <2> HIDE DEF n, t
  <2> QED
    BY <1>1, <1>4
<1> QED
  BY <1>5, <1>6 DEF amount_consistency_score

\* Intervals of a month score 85 at least (interval_consistency_score).
LEMMA MonthlyIntervals ==
    ASSUME NEW d \in Seq(28..31), 1 <= Len(d)
    PROVE  interval_consistency_score(d) \in 85..100
<1> DEFINE tiers == {<<7, 100>>, <<15, 85>>, <<25, 65>>, <<35, 45>>}
           t == SumSeq(d)
           l == Len(d)
           dev == Deviation(d)
<1>1. l \in Nat /\ 1 <= l /\ d \in Seq(Int)
      /\ \A i \in 1..l : d[i] \in Int /\ 28 <= d[i] /\ d[i] <= 31
  <2>1. \A i \in 1..l : d[i] \in 28..31
    BY ElementOfSeq
  <2>2. \A x \in 28..31 : x \in Int /\ 28 <= x /\ x <= 31
    OBVIOUS
  <2>3. l \in Nat /\ d \in [1..l -> 28..31]
    OBVIOUS
  <2>4. d \in [1..l -> Int]
    BY <2>1, <2>2, <2>3
  <2> QED
    BY <2>1, <2>2, <2>3, <2>4
<1>2. t \in Int /\ l * 28 <= t /\ t <= l * 31
  <2>1. t \in Int
    BY <1>1, SumType
  <2>2. 28 \in Int /\ 31 \in Int
    OBVIOUS
  <2>3. l * 28 <= t /\ t <= l * 31
    BY <1>1, <2>2, SumBounds
  <2> QED
    BY <2>1, <2>3
<1>3. dev \in 0..(3 * l)
  <2>1. ASSUME NEW i \in 1..l PROVE Distance(l * d[i], t) \in 0..(3 * l)
    <3> DEFINE x == d[i]
    <3>1. x \in Int /\ 28 <= x /\ x <= 31
      BY <1>1
    <3> HIDE DEF x, l, t
    <3>2. l * 28 <= l * x /\ l * x <= l * 31
      BY <1>1, <3>1
    <3> DEFINE y == l * x
    <3>3. y \in Int /\ l * 28 <= y /\ y <= l * 31
      BY <1>1, <3>1, <3>2
    <3> HIDE DEF y
    <3>4. Distance(y, t) \in 0..(3 * l)
      BY <1>1, <1>2, <3>3 DEF Distance
    <3> QED
      BY <3>4 DEF x, y
  <2>2. 3 * l \in Nat
    BY <1>1
  <2>3. Deviation(d) \in 0..(3 * l)
    BY <1>1, <2>1, <2>2, DeviationIs
  <2> QED
    BY <2>3
<1>4. Tier(d, tiers) \in 85..100
  <2> DEFINE u == <<15, 85>>
  <2>1. u \in tiers /\ \A v \in tiers : v[2] \in 0..100
    OBVIOUS
  <2>2. u[1] = 15 /\ u[2] = 85
    OBVIOUS
  <2> HIDE DEF tiers, u
  <2>3. 100 * dev <= u[1] * t
    <3> HIDE DEF dev, t, l
    <3> QED
      BY <1>1, <1>2, <1>3, <2>2
  <2>4. Tier(d, tiers) \in 0..100 /\ u[2] <= Tier(d, tiers)
    BY <2>1, <2>3, TierCovers
  <2> DEFINE r == Tier(d, tiers)
  <2>5. r \in 0..100 /\ 85 <= r
    BY <2>2, <2>4
  <2> HIDE DEF r
  <2>6. r \in 85..100
    BY <2>5
  <2> QED
    BY <2>6 DEF r
<1>5. ~(d = <<>> \/ t = 0)
  <2>1. d # <<>>
    BY <1>1
  <2> HIDE DEF t, l
  <2> QED
    BY <1>1, <1>2, <2>1
<1> QED
  BY <1>4, <1>5 DEF interval_consistency_score

\* Monthly charges of one amount are sure, unless their merchant has a hint.
LEMMA SteadyConfidence ==
    ASSUME NEW m, m \notin Hinted, NEW a \in Nat, 1 <= a,
           NEW s \in Seq(Int), 2 <= Len(s), \A i \in 1..Len(s) : s[i] = a,
           NEW d \in Seq(28..31), 1 <= Len(d)
    PROVE  Confidence(m, s, d) \in Int /\ 65 <= Confidence(m, s, d)
<1> DEFINE i == interval_consistency_score(d)
           k == IF m \in Keyworded THEN 1000 ELSE 0
           w == Weighed(m, s, d)
           n == Len(s)
           f == Min({n, 6})
<1>1. amount_consistency_score(s) = 100 /\ i \in 85..100
  BY EqualAmounts, MonthlyIntervals
<1>2. f \in Int /\ 2 <= f
  <2>1. n \in Int /\ 6 \in Int /\ 2 <= n
    OBVIOUS
  <2>2. f = IF n <= 6 THEN n ELSE 6
    BY <2>1, SmallerIs
  <2> HIDE DEF n, f
  <2> QED
    BY <2>1, <2>2
<1>3. w = 40 * 100 + 35 * i + 250 * f + k - 0
  BY <1>1 DEF Weighed
<1>4. k \in {0, 1000}
  OBVIOUS
<1>5. Confidence(m, s, d) = (Max({0, Min({w, 9900})}) + 50) \div 100
  BY DEF Confidence
<1> HIDE DEF i, k, w, n, f
<1>6. w \in Int /\ 7475 <= w
  BY <1>1, <1>2, <1>3, <1>4
<1> DEFINE c == 9900
           p == Min({w, c})
           q == Max({0, p})
<1>7. c \in Int /\ 7475 <= c
  OBVIOUS
<1>8. p \in Int /\ 7475 <= p
  <2> HIDE DEF c
  <2>1. p = IF w <= c THEN w ELSE c
    BY <1>6, <1>7, SmallerIs
  <2> HIDE DEF p
  <2> QED
    BY <1>6, <1>7, <2>1
<1>9. q \in Int /\ 7475 <= q
  <2> HIDE DEF p
  <2>1. 0 \in Int
    OBVIOUS
  <2>2. q = IF 0 >= p THEN 0 ELSE p
    BY <1>8, <2>1, LargerIs
  <2> HIDE DEF q
  <2> QED
    BY <1>8, <2>2
<1>10. Confidence(m, s, d) = (q + 50) \div 100
  BY <1>5
<1> HIDE DEF q
<1> QED
  BY <1>9, <1>10

\* Charges of one amount are one cluster.
LEMMA OneCluster ==
    ASSUME NEW s \in Seq(Payment), NEW a, \A i \in 1..Len(s) : s[i].amount = a
    PROVE  ~(Len(_cluster_by_amount(s)) > 1)
<1> DEFINE P == {t \in Payment : t.amount = a}
           u == Sorted(s, Cheaper(s))
           cs == _cluster_by_amount(s)
<1>1. s \in Seq(P)
  <2>1. s \in [1..Len(s) -> Payment] /\ Len(s) \in Nat
    OBVIOUS
  <2>2. s \in [1..Len(s) -> P]
    BY <2>1
  <2>3. \A n \in Nat : \A f \in [1..n -> P] : f \in Seq(P)
    OBVIOUS
  <2> QED
    BY <2>1, <2>2, <2>3
<1>2. \A t \in P : t.amount = a /\ t \in Payment
  OBVIOUS
<1> HIDE DEF P
<1>3. u \in Seq(P)
  BY <1>1, SortedPermutes
<1>4. cs \in Seq(Seq(P))
  <2> HIDE DEF u
  <2>1. PICK f \in [0..Len(u) -> Seq(Seq(P))] : Cluster(u) = f[Len(u)]
    BY <1>3, ClusterDef
  <2>2. Len(u) \in 0..Len(u)
    BY <1>3
  <2>3. Cluster(u) \in Seq(Seq(P))
    BY <2>1, <2>2
  <2> QED
    BY <2>3 DEF u, _cluster_by_amount
<1>5. cs \in Seq(Seq(Payment)) /\ \E h \in Int : Clustered(cs, h)
  BY ClusteredByAmount
<1> HIDE DEF cs
<1>6. PICK h \in Int : Clustered(cs, h)
  BY <1>5
<1> SUFFICES ASSUME Len(cs) > 1 PROVE FALSE
  BY DEF cs
<1>7. 1 \in 1..Len(cs) /\ 2 \in 1..Len(cs) /\ 1 < 2
  BY <1>4
<1> DEFINE c == cs[1]
           d == cs[2]
<1>8. c \in Seq(P) /\ d \in Seq(P) /\ c \in Seq(Payment) /\ d \in Seq(Payment)
  BY <1>4, <1>5, <1>7, ElementOfSeq
<1>9. /\ 1 <= Len(c) /\ 1 <= Len(d)
      /\ 2 * Total(c) + Len(c) < 2 * (Len(c) * d[1].amount)
  BY <1>6, <1>7 DEF Clustered
<1> HIDE DEF c, d
<1>10. d[1].amount = a /\ a \in Int
  <2>1. 1 \in 1..Len(d)
    BY <1>8, <1>9
  <2>2. d[1] \in P
    BY <1>8, <2>1, ElementOfSeq
  <2>3. d[1].amount \in Int
    BY <1>2, <2>2, PaymentAmount
  <2> QED
    BY <1>2, <2>2, <2>3
<1>11. Total(c) = Len(c) * a /\ Len(c) \in Nat
  <2> DEFINE b == Amounts(c)
             n == Len(c)
             t == SumSeq(b)
  <2>1. b \in Seq(Int) /\ Len(b) = n /\ n \in Nat /\ \A i \in 1..n : b[i] = c[i].amount
    BY <1>8, AmountsType
  <2>2. \A i \in 1..n : c[i].amount = a
    <3>1. \A i \in 1..n : c[i] \in P
      BY <1>8, ElementOfSeq
    <3> QED
      BY <1>2, <3>1
  <2> HIDE DEF b
  <2>3. \A i \in 1..Len(b) : a <= b[i] /\ b[i] <= a
    <3>1. a <= a
      BY <1>10
    <3> QED
      BY <2>1, <2>2, <3>1
  <2>4. Len(b) * a <= SumSeq(b) /\ SumSeq(b) <= Len(b) * a /\ t \in Int
    BY <1>10, <2>1, <2>3, SumBounds, SumType
  <2> HIDE DEF n, t
  <2>5. n * a <= t /\ t <= n * a /\ n * a \in Int
    BY <1>10, <2>1, <2>4 DEF t
  <2>6. t = n * a
    BY <2>4, <2>5
  <2> QED
    BY <2>1, <2>6 DEF Total, n, t, b
<1> DEFINE n == Len(c)
           p == n * a
<1>12. n \in Nat /\ p \in Int /\ 1 <= n /\ 2 * p + n < 2 * p
  BY <1>9, <1>10, <1>11
<1> HIDE DEF n, p
<1> QED
  BY <1>12

\* A merchant with monthly charges of one amount and no hint has a sure candidate.
LEMMA SteadyCandidate ==
    ASSUME transactions \in Seq(Transaction), NEW m, m \notin Hinted, NEW day \in 1..31,
           Monthly(ChargesOf(m), day),
           \A i, j \in DOMAIN ChargesOf(m) : ChargesOf(m)[i].amount = ChargesOf(m)[j].amount
    PROVE  \E c \in AllFound : c.key.name = m /\ c.confidence \in Int /\ 65 <= c.confidence
<1> DEFINE s == ChargesOf(m)
           u == Sorted(s, Earlier(s))
           label == Label(m, <<>>)
           r == build_candidate(label, s)
           a == s[1].amount
<1>1. s = merchant_groups(transactions, m) /\ s \in Seq(Payment)
  BY GroupCharges DEF ChargesOf
<1>2. Monthly(s, day) /\ \A i, j \in DOMAIN s : s[i].amount = s[j].amount
  OBVIOUS
<1>3. label.name = m
  BY DEF Label
<1> HIDE DEF s, label
<1>4. /\ Len(u) = Len(s) /\ 2 <= Len(s) /\ u \in Seq(Payment)
  BY <1>1, <1>2, MonthlySorted
<1>5. DOMAIN s = 1..Len(s) /\ 1 \in 1..Len(s) /\ \A i \in 1..Len(s) : s[i] \in Payment
  BY <1>1, <1>4, ElementOfSeq
<1>6. a \in Nat /\ 1 <= a /\ \A i \in 1..Len(s) : s[i].amount = a
  <2>1. s[1] \in Payment
    BY <1>5
  <2>2. a \in Int /\ 1 <= a
    BY <2>1, PaymentAmount
  <2>3. \A i \in 1..Len(s) : s[i].amount = a
    BY <1>2, <1>5
  <2> HIDE DEF a
  <2> QED
    BY <2>2, <2>3
<1> HIDE DEF a
<1>7. r # <<>> /\ ScoredMonthly(label, s)
  BY <1>1, <1>2, BuildMonthly
<1>8. PICK d : /\ d \in Seq(28..31) /\ 1 <= Len(d)
               /\ r[1].confidence = Confidence(m, Amounts(u), d)
  BY <1>3, <1>7 DEF ScoredMonthly
<1>9. Len(r) = 1 /\ r[1].key.name = m
  <2>1. Len(r) = 1 /\ r[1].key = merchant_key(label)
    BY <1>1, <1>7, BuildOne
  <2>2. merchant_key(label).name = m
    BY KeyName DEF label
  <2> QED
    BY <2>1, <2>2
<1>10. \A i \in 1..Len(u) : u[i].amount = a
  <2>1. PICK p : Permutes(p, u, s)
    BY <1>1, ByDate
  <2>2. \A i \in 1..Len(u) : p[i] \in 1..Len(s) /\ u[i] = s[p[i]]
    BY <1>4, <2>1 DEF Permutes
  <2> QED
    BY <1>6, <2>2
<1> DEFINE b == Amounts(u)
<1> HIDE DEF u
<1>11. b \in Seq(Int) /\ 2 <= Len(b) /\ \A i \in 1..Len(b) : b[i] = a
  <2>1. b \in Seq(Int) /\ Len(b) = Len(u) /\ \A i \in 1..Len(u) : b[i] = u[i].amount
    BY <1>4, AmountsType
  <2> HIDE DEF b
  <2> QED
    BY <1>4, <1>10, <2>1
<1> HIDE DEF b
<1>12. Confidence(m, b, d) \in Int /\ 65 <= Confidence(m, b, d)
  BY <1>6, <1>8, <1>11, SteadyConfidence
<1>13. ~(Len(_cluster_by_amount(s)) > 1)
  BY <1>1, <1>6, OneCluster
<1>14. GroupCandidates(transactions, m) = r
  BY <1>1, <1>13 DEF GroupCandidates, CandidatesOf, label
<1> DEFINE c == r[1]
<1>15. c.key.name = m /\ c.confidence \in Int /\ 65 <= c.confidence
  BY <1>8, <1>9, <1>12 DEF b
<1>16. c \in AllFound
  <2> DEFINE o == detect_subscription_candidates(transactions)
  <2>1. Gathered(o, transactions)
    BY DetectGathered
  <2> HIDE DEF o
  <2>2. merchant_groups(transactions, m) # <<>>
    <3>1. s # <<>>
      BY <1>1, <1>4
    <3> QED
      BY <1>1, <3>1
  <2>3. 1 \in 1..Len(GroupCandidates(transactions, m))
    <3>1. Len(GroupCandidates(transactions, m)) = 1
      BY <1>9, <1>14
    <3> QED
      BY <3>1
  <2>4. PICK i \in 1..Len(o) : o[i] = GroupCandidates(transactions, m)[1]
    BY <2>1, <2>2, <2>3 DEF Gathered
  <2>5. o[i] = c
    BY <1>14, <2>4
  <2>6. i \in DOMAIN o
    <3>1. o \in Seq(ToSet(o))
      BY <2>1 DEF Gathered
    <3> QED
      BY <3>1
  <2>7. c \in ToSet(o)
    BY <2>5, <2>6 DEF ToSet
  <2> QED
    BY <2>7 DEF AllFound, o
<1> QED
  BY <1>15, <1>16

\* Candidates that the rules alone accept.
SureOnes == {c \in AllFound : c.confidence \in Int /\ 65 <= c.confidence}

\* A candidate that was gone through was accepted, or the model was asked about
\* it, or there was no call left to ask.
GoneThrough(c) ==
    \/ \E i \in 1..Len(accepted) : accepted[i].key.name = c.key.name
    \/ withAI /\ \E i \in 1..Len(asked) : asked[i].key.name = c.key.name
    \/ withAI /\ Len(asked) = MaxAICalls

\* No sure candidate is dropped on the way.
NothingLost ==
    /\ Len(asked) <= MaxAICalls
    /\ pc # "called" => \A c \in SureOnes :
           (\E i \in 1..Len(candidates) : candidates[i] = c) \/ GoneThrough(c)

\* The keys of a sequence with one more record.
LEMMA AppendSays ==
    ASSUME NEW T, NEW s \in Seq(T), NEW x \in T
    PROVE  /\ Len(Append(s, x)) = Len(s) + 1
           /\ \A k : (\E i \in 1..Len(Append(s, x)) : Append(s, x)[i].key.name = k)
                 <=> (\E i \in 1..Len(s) : s[i].key.name = k) \/ x.key.name = k
<1> DEFINE r == Append(s, x)
<1>1. /\ Len(s) \in Nat /\ Len(r) = Len(s) + 1 /\ (\A i \in 1..Len(s) : r[i] = s[i])
      /\ r[Len(s) + 1] = x
  BY AppendProperties
<1> HIDE DEF r
<1>2. \A i \in 1..Len(r) : i \in 1..Len(s) \/ i = Len(s) + 1
  BY <1>1
<1>3. (\A i \in 1..Len(s) : i \in 1..Len(r)) /\ Len(s) + 1 \in 1..Len(r)
  BY <1>1
<1>4. ASSUME NEW k
      PROVE  (\E i \in 1..Len(r) : r[i].key.name = k)
                 <=> (\E i \in 1..Len(s) : s[i].key.name = k) \/ x.key.name = k
  BY <1>1, <1>2, <1>3
<1> QED
  BY <1>1, <1>4 DEF r

\* Going through the first candidate loses no other.
LEMMA TailKept ==
    ASSUME LoopInv, candidates # <<>>, candidates' = Tail(candidates),
           transactions' = transactions, NEW c \in SureOnes, GoneThrough(c) => GoneThrough(c)',
           c = Head(candidates) => GoneThrough(c)',
           (\E i \in 1..Len(candidates) : candidates[i] = c) \/ GoneThrough(c)
    PROVE  (\E i \in 1..Len(candidates') : candidates'[i] = c) \/ GoneThrough(c)'
<1>1. CASE GoneThrough(c)
  BY <1>1
<1>2. CASE \E i \in 1..Len(candidates) : candidates[i] = c
  <2>1. PICK i \in 1..Len(candidates) : candidates[i] = c
    BY <1>2
  <2> DEFINE s == candidates
             t == candidates'
  <2>2. /\ Len(s) \in Nat /\ Head(s) = s[1] /\ Len(t) = Len(s) - 1
        /\ \A j \in 1..Len(t) : t[j] = s[j + 1]
    BY HeadAndTail DEF LoopInv
  <2>3. CASE i = 1
    BY <2>1, <2>2, <2>3
  <2>4. CASE i # 1
    <3>1. i - 1 \in 1..Len(t) /\ (i - 1) + 1 = i
      BY <2>2, <2>4
    <3>2. t[i - 1] = s[i]
      BY <2>2, <3>1
    <3> QED
      BY <2>1, <3>1, <3>2
  <2> QED
    BY <2>3, <2>4
<1> QED
  BY <1>1, <1>2

\* Asking the model loses no candidate but to its answer.
LEMMA AskLoses ==
    ASSUME LoopInv, NothingLost, Ask, accepted' = accepted \/ (\E a \in Acceptable : accepted' = Append(accepted, a))
    PROVE  /\ Len(asked') <= MaxAICalls
           /\ \A c \in SureOnes : GoneThrough(c) => GoneThrough(c)'
           /\ \A c \in SureOnes : c = Head(candidates) => GoneThrough(c)'
<1> DEFINE h == Head(candidates)
<1>1. /\ asked \in Seq(AllFound) /\ h \in AllFound /\ accepted \in Seq(Acceptable)
  BY HeadAndTail DEF LoopInv, Ask, Unsure
<1>2. /\ asked' = Append(asked, h) /\ withAI /\ withAI' = withAI /\ Len(asked) < MaxAICalls
  BY DEF Ask, Worth
<1> HIDE DEF h
<1>3. \A k : (\E i \in 1..Len(asked') : asked'[i].key.name = k)
            <=> (\E i \in 1..Len(asked) : asked[i].key.name = k) \/ h.key.name = k
  BY <1>1, <1>2, AppendSays
<1>4. \A k : (\E i \in 1..Len(accepted) : accepted[i].key.name = k)
            => (\E i \in 1..Len(accepted') : accepted'[i].key.name = k)
  <2>1. CASE accepted' = accepted
    BY <2>1
  <2>2. CASE \E a \in Acceptable : accepted' = Append(accepted, a)
    <3>1. PICK a \in Acceptable : accepted' = Append(accepted, a)
      BY <2>2
    <3> QED
      BY <1>1, <3>1, AppendSays
  <2> QED
    BY <2>1, <2>2
<1>5. Len(asked') <= MaxAICalls /\ Len(asked) # MaxAICalls
  <2>1. Len(asked') = Len(asked) + 1 /\ Len(asked) \in Nat
    BY <1>1, <1>2, AppendSays
  <2>2. MaxAICalls \in Nat
    BY PipelineAssumption
  <2> QED
    BY <1>2, <2>1, <2>2
<1>6. ASSUME NEW c \in SureOnes, GoneThrough(c) PROVE GoneThrough(c)'
  <2>1. (\E i \in 1..Len(accepted) : accepted[i].key.name = c.key.name) \/ (\E i \in 1..Len(asked) : asked[i].key.name = c.key.name)
    BY <1>5, <1>6 DEF GoneThrough
  <2> QED
    BY <1>2, <1>3, <1>4, <2>1 DEF GoneThrough
<1>7. ASSUME NEW c \in SureOnes, c = h PROVE GoneThrough(c)'
  BY <1>2, <1>3, <1>7 DEF GoneThrough
<1> QED
  BY <1>5, <1>6, <1>7 DEF h

\* No step loses a sure candidate.
LEMMA NothingLostNext ==
    ASSUME LoopInv, NothingLost, [PipelineNext]_pipelineVars
    PROVE  NothingLost'
<1>0. transactions' = transactions
  BY DEF PipelineNext, pipelineVars, Detect, AcceptByRules, PassOver, ModelSaysNo, ModelSaysYes,
         ModelFails, StartOver, Finish, Ask
<1>1. SureOnes' = SureOnes
  BY <1>0 DEF SureOnes, AllFound
<1>2. \A c \in SureOnes : c \in AllFound /\ c.confidence \in Int /\ 65 <= c.confidence
  BY DEF SureOnes
<1>3. CASE UNCHANGED pipelineVars
  BY <1>1, <1>3 DEF pipelineVars, NothingLost, GoneThrough
<1>4. ASSUME pc = "loop", pc' = "loop", candidates # <<>>, candidates' = Tail(candidates),
             Len(asked') <= MaxAICalls,
             \A c \in SureOnes : GoneThrough(c) => GoneThrough(c)',
             \A c \in SureOnes : c = Head(candidates) => GoneThrough(c)'
      PROVE  NothingLost'
  <2>1. ASSUME NEW c \in SureOnes
        PROVE  (\E i \in 1..Len(candidates') : candidates'[i] = c) \/ GoneThrough(c)'
    <3>1. (\E i \in 1..Len(candidates) : candidates[i] = c) \/ GoneThrough(c)
      BY <1>4 DEF NothingLost
    <3>2. (GoneThrough(c) => GoneThrough(c)') /\ (c = Head(candidates) => GoneThrough(c)')
      BY <1>4
    <3> QED
      BY <1>0, <1>4, <3>1, <3>2, TailKept
  <2> QED
    BY <1>1, <1>4, <2>1 DEF NothingLost
<1>5. CASE Detect
  <2> DEFINE d == detect_subscription_candidates(transactions)
  <2>1. candidates' = d /\ asked' = asked /\ accepted' = accepted
    BY <1>5 DEF Detect
  <2>2. \A c \in AllFound : \E i \in DOMAIN d : d[i] = c
    BY DEF AllFound, ToSet
  <2>3. Gathered(d, transactions)
    BY DetectGathered DEF LoopInv
  <2> HIDE DEF d
  <2>4. DOMAIN d = 1..Len(d)
    BY <2>3 DEF Gathered
  <2>5. Len(asked') <= MaxAICalls
    BY <2>1 DEF NothingLost
  <2> QED
    BY <1>1, <1>2, <2>1, <2>2, <2>4, <2>5 DEF NothingLost
<1>6. CASE AcceptByRules
  <2> DEFINE h == Head(candidates)
             a == Found(h, "rules")
  <2>1. h \in AllFound /\ accepted \in Seq(Acceptable) /\ a.key.name = h.key.name
    BY <1>6, HeadAndTail, FoundFields DEF LoopInv, AcceptByRules, Sure
  <2>2. a \in Acceptable
    BY <2>1 DEF Acceptable
  <2>3. accepted' = Append(accepted, a) /\ asked' = asked /\ withAI' = withAI
    BY <1>6 DEF AcceptByRules
  <2> HIDE DEF a, h
  <2>4. \A k : (\E i \in 1..Len(accepted') : accepted'[i].key.name = k)
            <=> (\E i \in 1..Len(accepted) : accepted[i].key.name = k) \/ a.key.name = k
    BY <2>1, <2>2, <2>3, AppendSays
  <2>5. \A c \in SureOnes : GoneThrough(c) => GoneThrough(c)'
    BY <2>3, <2>4 DEF GoneThrough
  <2>6. \A c \in SureOnes : c = h => GoneThrough(c)'
    BY <2>1, <2>4 DEF GoneThrough
  <2>7. Len(asked') <= MaxAICalls
    BY <2>3 DEF NothingLost
  <2>8. pc = "loop" /\ pc' = "loop" /\ candidates # <<>> /\ candidates' = Tail(candidates)
    BY <1>6 DEF AcceptByRules, Sure
  <2> QED
    BY <1>4, <2>5, <2>6, <2>7, <2>8 DEF h
<1>7. CASE PassOver
  <2> DEFINE h == Head(candidates)
  <2>1. /\ pc = "loop" /\ pc' = "loop" /\ candidates # <<>> /\ candidates' = Tail(candidates)
        /\ accepted' = accepted /\ asked' = asked /\ withAI' = withAI
        /\ h.confidence < high_threshold /\ ~Worth(h)
    BY <1>7 DEF PassOver, Unsure
  <2> HIDE DEF h
  <2>2. \A c \in SureOnes : GoneThrough(c) => GoneThrough(c)'
    BY <2>1 DEF GoneThrough
  <2>3. ASSUME NEW c \in SureOnes, c = h PROVE GoneThrough(c)'
    <3>1. Len(asked) \in Nat /\ Len(asked) <= MaxAICalls /\ MaxAICalls \in Nat
      BY BudgetNatural DEF LoopInv, NothingLost
    <3>2. c.confidence \in Int /\ 65 <= c.confidence /\ c.confidence < high_threshold
      BY <1>2, <2>1, <2>3
    <3>3. withAI
      <4>1. CASE withAI
        BY <4>1
      <4>2. CASE ~withAI
        BY <3>2, <4>2 DEF high_threshold
      <4> QED
        BY <4>1, <4>2
    <3>4. ~(c.confidence >= 55 /\ Len(asked) < MaxAICalls)
      BY <2>1, <2>3, <3>3 DEF Worth
    <3>5. Len(asked) = MaxAICalls
      BY <3>1, <3>2, <3>4
    <3> QED
      BY <2>1, <3>3, <3>5 DEF GoneThrough
  <2>4. Len(asked') <= MaxAICalls
    BY <2>1 DEF NothingLost
  <2> QED
    BY <1>4, <2>1, <2>2, <2>3, <2>4 DEF h
<1>8. CASE ModelSaysNo \/ \E answer \in Answers : ModelSaysYes(answer)
  <2>1. Ask /\ pc = "loop" /\ pc' = "loop" /\ candidates # <<>> /\ candidates' = Tail(candidates)
    BY <1>8 DEF ModelSaysNo, ModelSaysYes, Ask, Unsure
  <2>2. accepted' = accepted \/ \E a \in Acceptable : accepted' = Append(accepted, a)
    <3>1. CASE ModelSaysNo
      BY <3>1 DEF ModelSaysNo
    <3>2. ASSUME NEW answer \in Answers, ModelSaysYes(answer)
          PROVE  accepted' = accepted \/ \E a \in Acceptable : accepted' = Append(accepted, a)
      <4> DEFINE h == Head(candidates)
                 a == merge_candidate_and_ai(h, answer)
      <4>1. h \in AllFound
        BY <2>1, HeadAndTail DEF LoopInv
      <4>2. accepted' = accepted \/ accepted' = Append(accepted, a)
        BY <3>2 DEF ModelSaysYes
      <4>3. a \in Acceptable
        <5> HIDE DEF h
        <5>1. <<h, answer>> \in AllFound \X Answers /\ <<h, answer>>[1] = h /\ <<h, answer>>[2] = answer
          BY <4>1
        <5> QED
          BY <5>1 DEF Acceptable
      <4> HIDE DEF a
      <4> QED
        BY <4>2, <4>3
    <3> QED
      BY <1>8, <3>1, <3>2
  <2> QED
    BY <1>4, <2>1, <2>2, AskLoses
<1>9. CASE ModelFails
  <2>1. pc' = "called" /\ asked' = <<>>
    BY <1>9 DEF ModelFails, StartOver
  <2>2. Len(asked') <= MaxAICalls
    <3>1. Len(<<>>) = 0
      OBVIOUS
    <3> QED
      BY <2>1, <3>1, BudgetNatural
  <2> QED
    BY <2>1, <2>2 DEF NothingLost
<1>10. CASE Finish
  <2>1. PICK p : Permutes(p, accepted', accepted)
    BY <1>10, SortedAccepted
  <2>2. accepted' \in Seq(Acceptable) /\ accepted \in Seq(Acceptable)
    BY <1>10, SortedAccepted DEF LoopInv
  <2>3. \A j \in 1..Len(accepted') : \E i \in 1..Len(accepted') : p[i] = j
    <3>1. Len(accepted') \in Nat
      BY <2>2
    <3> QED
      BY <2>1, <3>1, PermutesOnto
  <2>4. Len(accepted') = Len(accepted) /\ \A i \in 1..Len(accepted') : accepted'[i] = accepted[p[i]]
    BY <2>1 DEF Permutes
  <2>5. \A k : (\E i \in 1..Len(accepted) : accepted[i].key.name = k)
            => (\E i \in 1..Len(accepted') : accepted'[i].key.name = k)
    <3>1. ASSUME NEW j \in 1..Len(accepted)
          PROVE  \E i \in 1..Len(accepted') : accepted'[i].key.name = accepted[j].key.name
      <4>1. PICK i \in 1..Len(accepted') : p[i] = j
        BY <2>3, <2>4
      <4>2. accepted'[i] = accepted[j]
        BY <2>4, <4>1
      <4> QED
        BY <4>2
    <3> QED
      BY <3>1
  <2>6. /\ pc = "loop" /\ asked' = asked /\ withAI' = withAI
        /\ candidates = <<>> /\ candidates' = candidates
    BY <1>10 DEF Finish
  <2>7. ASSUME NEW c \in SureOnes PROVE GoneThrough(c)'
    <3>1. GoneThrough(c)
      <4>1. Len(candidates) = 0
        BY <2>6
      <4> QED
        BY <2>6, <4>1 DEF NothingLost
    <3> QED
      BY <2>5, <2>6, <3>1 DEF GoneThrough
  <2>8. Len(asked') <= MaxAICalls
    BY <2>6 DEF NothingLost
  <2> QED
    BY <1>1, <2>7, <2>8 DEF NothingLost
<1> QED
  BY <1>3, <1>5, <1>6, <1>7, <1>8, <1>9, <1>10 DEF PipelineNext

\* A charge of one amount in every month is never lost to an outage of the model,
\* and with the model only to its answer or to the budget of calls, whatever the
\* bank reports (run_subscription_pipeline, detect_from_transactions).
THEOREM SteadyFoundCorrect == PipelineSpec => []SteadyFound
<1>1. PipelineInit => NothingLost
  <2>1. Len(<<>>) = 0
    OBVIOUS
  <2> QED
    BY <2>1, BudgetNatural DEF PipelineInit, NothingLost
<1>2. LoopInv /\ NothingLost => SteadyFound
  <2> SUFFICES ASSUME LoopInv, NothingLost, pc = "done", NEW m \in Merchant \ Hinted,
                      \E day \in 1..31 : Monthly(ChargesOf(m), day),
                      \A i, j \in DOMAIN ChargesOf(m) : ChargesOf(m)[i].amount = ChargesOf(m)[j].amount
               PROVE  \/ \E i \in DOMAIN accepted : accepted[i].key.name = m
                      \/ withAI /\ \E i \in DOMAIN asked : asked[i].key.name = m
                      \/ withAI /\ Len(asked) = MaxAICalls
    BY DEF SteadyFound
  <2>1. transactions \in Seq(Transaction) /\ m \notin Hinted
    BY DEF LoopInv
  <2>2. PICK day \in 1..31 : Monthly(ChargesOf(m), day)
    OBVIOUS
  <2>3. PICK c \in AllFound : c.key.name = m /\ c.confidence \in Int /\ 65 <= c.confidence
    BY <2>1, <2>2, SteadyCandidate
  <2>4. c \in SureOnes
    BY <2>3 DEF SureOnes
  <2>5. Len(candidates) = 0
    BY DEF LoopInv
  <2>6. GoneThrough(c)
    BY <2>4, <2>5 DEF NothingLost
  <2>7. DOMAIN accepted = 1..Len(accepted) /\ DOMAIN asked = 1..Len(asked)
    BY DEF LoopInv
  <2> QED
    BY <2>3, <2>6, <2>7 DEF GoneThrough
<1> QED
  BY <1>1, <1>2, LoopInit, LoopNext, NothingLostNext, PTL DEF PipelineSpec

---------------------------------------------------------------------------
(* Rearrangements *)

\* The same, in another order.
Rearranged(s, t) == \E p : Permutes(p, s, t)

\* q tells where in t each element of s is; t may have more.
Embeds(q, s, t) ==
    /\ q \in [1..Len(s) -> 1..Len(t)]
    /\ \A i, j \in 1..Len(s) : i # j => q[i] # q[j]
    /\ \A i \in 1..Len(s) : s[i] = t[q[i]]

\* An interval is not mapped one to one into a shorter one.
LEMMA NoMore ==
    ASSUME NEW m \in Nat, NEW n \in Nat, NEW q \in [1..m -> 1..n],
           \A i, j \in 1..m : i # j => q[i] # q[j]
    PROVE  m <= n
<1> DEFINE S == 1..m
           T == 1..n
<1>1. IsFiniteSet(S) /\ IsFiniteSet(T)
  BY FS_Interval
<1>2. Cardinality(S) = m /\ Cardinality(T) = n
  <2>1. Cardinality(1..m) = IF 1 > m THEN 0 ELSE m - 1 + 1
    BY FS_Interval
  <2>2. Cardinality(1..n) = IF 1 > n THEN 0 ELSE n - 1 + 1
    BY FS_Interval
  <2> QED
    BY <2>1, <2>2
<1>3. q \in [S -> T] /\ ~\E x, y \in S : x # y /\ q[x] = q[y]
  OBVIOUS
<1> HIDE DEF S, T
<1>4. ~(Cardinality(T) < Cardinality(S))
  BY <1>1, <1>3, FS_PigeonHole
<1> QED
  BY <1>2, <1>4

\* What embeds both ways is rearranged.
LEMMA EmbedsBothWays ==
    ASSUME NEW s, NEW t, Len(s) \in Nat, Len(t) \in Nat,
           NEW q, Embeds(q, s, t), NEW r, Embeds(r, t, s)
    PROVE  Len(s) = Len(t) /\ Rearranged(s, t)
<1> DEFINE m == Len(s)
           n == Len(t)
<1>1. q \in [1..m -> 1..n] /\ \A i, j \in 1..m : i # j => q[i] # q[j]
  BY DEF Embeds
<1>2. r \in [1..n -> 1..m] /\ \A i, j \in 1..n : i # j => r[i] # r[j]
  BY DEF Embeds
<1> HIDE DEF m, n
<1>3. m \in Nat /\ n \in Nat
  BY DEF m, n
<1>4. m <= n
  BY <1>1, <1>3, NoMore
<1>5. n <= m
  BY <1>2, <1>3, NoMore
<1>6. Len(s) = Len(t)
  BY <1>3, <1>4, <1>5 DEF m, n
<1>7. Permutes(q, s, t)
  BY <1>6 DEF Permutes, Embeds
<1> QED
  BY <1>6, <1>7 DEF Rearranged

\* A rearrangement can be undone.
LEMMA RearrangedBack ==
    ASSUME NEW s, NEW t, Len(s) \in Nat, Rearranged(s, t)
    PROVE  Rearranged(t, s)
<1>1. PICK p : Permutes(p, s, t)
  BY DEF Rearranged
<1> DEFINE n == Len(s)
           q == [j \in 1..n |-> CHOOSE i \in 1..n : p[i] = j]
<1>2. Len(t) = n /\ \A i \in 1..n : s[i] = t[p[i]]
  BY <1>1 DEF Permutes
<1>3. \A j \in 1..n : \E i \in 1..n : p[i] = j
  BY <1>1, PermutesOnto
<1> HIDE DEF n
<1>4. \A j \in 1..n : q[j] \in 1..n /\ p[q[j]] = j
  BY <1>3
<1>5. q \in [1..n -> 1..n]
  BY <1>4
<1> HIDE DEF q
<1>6. \A i, j \in 1..n : i # j => q[i] # q[j]
  BY <1>4
<1>7. \A j \in 1..n : t[j] = s[q[j]]
  BY <1>2, <1>4
<1>8. Permutes(q, t, s)
  BY <1>2, <1>5, <1>6, <1>7 DEF Permutes, n
<1> QED
  BY <1>8 DEF Rearranged

\* Two rearrangements are one.
LEMMA RearrangedOn ==
    ASSUME NEW s, NEW t, NEW u, Rearranged(s, t), Rearranged(t, u)
    PROVE  Rearranged(s, u)
<1>1. PICK p : Permutes(p, s, t)
  BY DEF Rearranged
<1>2. PICK q : Permutes(q, t, u)
  BY DEF Rearranged
<1> DEFINE n == Len(s)
           r == [i \in 1..n |-> q[p[i]]]
<1>3. /\ Len(t) = n /\ Len(u) = n
      /\ \A i \in 1..n : p[i] \in 1..n /\ q[i] \in 1..n /\ s[i] = t[p[i]] /\ t[i] = u[q[i]]
      /\ \A i, j \in 1..n : i # j => p[i] # p[j] /\ q[i] # q[j]
  BY <1>1, <1>2 DEF Permutes
<1> HIDE DEF n
<1>4. \A i \in 1..n : r[i] = q[p[i]] /\ r[i] \in 1..n /\ s[i] = u[r[i]]
  BY <1>3
<1>5. r \in [1..n -> 1..n]
  BY <1>4
<1>6. \A i, j \in 1..n : i # j => r[i] # r[j]
  BY <1>3, <1>4
<1> HIDE DEF r
<1>7. Permutes(r, s, u)
  BY <1>3, <1>4, <1>5, <1>6 DEF Permutes, n
<1> QED
  BY <1>7 DEF Rearranged

\* In ascending order, a rearrangement is nowhere below what it rearranges.
LEMMA AscendingAbove ==
    ASSUME NEW a \in Seq(Int), NEW b \in Seq(Int), Rearranged(a, b),
           \A i, j \in 1..Len(a) : i < j => a[i] <= a[j],
           \A i, j \in 1..Len(b) : i < j => b[i] <= b[j],
           NEW k \in 1..Len(a)
    PROVE  b[k] <= a[k]
<1>1. PICK p : Permutes(p, a, b)
  BY DEF Rearranged
<1> DEFINE n == Len(a)
<1>2. n \in Nat /\ Len(b) = n /\ \A i \in 1..n : p[i] \in 1..n /\ a[i] = b[p[i]]
  BY <1>1 DEF Permutes
<1>3. \A i, j \in 1..n : i # j => p[i] # p[j]
  BY <1>1 DEF Permutes
<1>4. (\A i \in 1..n : a[i] \in Int) /\ \A i \in 1..n : b[i] \in Int
  BY <1>2
<1>5. k \in 1..n
  OBVIOUS
<1>6. (\A i, j \in 1..n : i < j => a[i] <= a[j]) /\ \A i, j \in 1..n : i < j => b[i] <= b[j]
  BY <1>2
<1> HIDE DEF n
<1>7. PICK j \in 1..k : k <= p[j]
  <2>1. SUFFICES ASSUME \A i \in 1..k : ~(k <= p[i]) PROVE FALSE
    OBVIOUS
  <2> DEFINE l == k - 1
             q == [i \in 1..k |-> p[i]]
  <2>2. k \in Nat /\ l \in Nat /\ ~(k <= l) /\ \A i \in 1..k : i \in 1..n
    BY <1>2, <1>5
  <2>3. ASSUME NEW i \in 1..k PROVE q[i] \in 1..l
    <3>1. p[i] \in 1..n /\ ~(k <= p[i])
      BY <1>2, <2>1, <2>2
    <3> QED
      BY <1>2, <2>2, <3>1
  <2>4. q \in [1..k -> 1..l]
    BY <2>3
  <2>5. \A i, j \in 1..k : i # j => q[i] # q[j]
    BY <1>3, <2>2
  <2> HIDE DEF q, l
  <2>6. k <= l
    BY <2>2, <2>4, <2>5, NoMore
  <2> QED
    BY <2>2, <2>6
<1>8. j \in 1..n /\ p[j] \in 1..n /\ a[j] = b[p[j]]
  <2>1. j \in 1..n
    BY <1>2, <1>5
  <2> QED
    BY <1>2, <2>1
<1>9. a[j] <= a[k]
  <2>1. CASE j = k
    BY <1>4, <1>5, <2>1
  <2>2. CASE j # k
    <3>1. j < k
      BY <2>2
    <3> QED
      BY <1>5, <1>6, <1>8, <3>1
  <2> QED
    BY <2>1, <2>2
<1>10. b[k] <= b[p[j]]
  <2>1. CASE p[j] = k
    BY <1>4, <1>5, <2>1
  <2>2. CASE p[j] # k
    <3>1. k < p[j]
      BY <1>2, <1>5, <1>7, <1>8, <2>2
    <3> QED
      BY <1>5, <1>6, <1>8, <3>1
  <2> QED
    BY <2>1, <2>2
<1> QED
  BY <1>4, <1>5, <1>8, <1>9, <1>10

\* There is one ascending order of some numbers.
LEMMA AscendingOnce ==
    ASSUME NEW a \in Seq(Int), NEW b \in Seq(Int), Rearranged(a, b),
           \A i, j \in 1..Len(a) : i < j => a[i] <= a[j],
           \A i, j \in 1..Len(b) : i < j => b[i] <= b[j]
    PROVE  a = b
<1>1. Len(a) \in Nat /\ Len(b) = Len(a)
  BY DEF Rearranged, Permutes
<1>2. Rearranged(b, a)
  BY <1>1, RearrangedBack
<1>3. ASSUME NEW k \in 1..Len(a) PROVE a[k] = b[k]
  <2>1. b[k] <= a[k]
    BY AscendingAbove
  <2>2. k \in 1..Len(b)
    BY <1>1
  <2>3. a[k] <= b[k]
    BY <1>2, <2>2, AscendingAbove
  <2>4. a[k] \in Int /\ b[k] \in Int
    BY <2>2
  <2> QED
    BY <2>1, <2>3, <2>4
<1> QED
  BY <1>1, <1>3, SeqEqual

---------------------------------------------------------------------------
(* Clusters of rearranged charges *)

\* c is what u holds after a, up to b.
Slice(c, u, a, b) == Len(c) = b - a /\ \A j \in 1..(b - a) : c[j] = u[a + j]

\* Charges of the same amounts in ascending order.
Matched(u, v) ==
    /\ u \in Seq(Payment) /\ v \in Seq(Payment) /\ Len(v) = Len(u)
    /\ \A i \in 1..Len(u) : v[i].amount = u[i].amount
    /\ \A i, j \in 1..Len(u) : i < j => u[i].amount <= u[j].amount

\* A cluster that another charge of h cents, its largest, would join.
Tight(c, h) ==
    /\ Bounded(Len(c), Total(c), c[1].amount, h)
    /\ 5 * (Len(c) * h - Total(c)) <= Total(c)

\* The clusters of the first n charges of u and of v end at g[1], g[2] and so on,
\* where the amounts rise.
Cut(g, cs, ds, u, v, n) ==
    /\ Len(ds) = Len(cs)
    /\ g \in [Nat -> Nat] /\ g[0] = 0 /\ g[Len(cs)] = n
    /\ \A k \in 1..Len(cs) :
           /\ g[k - 1] < g[k]
           /\ Slice(cs[k], u, g[k - 1], g[k]) /\ Slice(ds[k], v, g[k - 1], g[k])
    /\ \A k \in 1..(Len(cs) - 1) : u[g[k]].amount < u[g[k] + 1].amount
    /\ 1 <= Len(cs) => Tight(cs[Len(cs)], u[n].amount)

\* A slice grows by the next charge.
LEMMA SliceAppend ==
    ASSUME NEW c \in Seq(Payment), NEW u \in Seq(Payment), NEW a \in Nat, NEW b \in Nat,
           a <= b, NEW t \in Payment, t = u[b + 1], Slice(c, u, a, b)
    PROVE  Slice(Append(c, t), u, a, b + 1)
<1> DEFINE d == Append(c, t)
<1>1. Len(d) = Len(c) + 1 /\ d[Len(c) + 1] = t /\ \A j \in 1..Len(c) : d[j] = c[j]
  BY AppendProperties
<1>2. Len(c) = b - a /\ \A j \in 1..(b - a) : c[j] = u[a + j]
  BY DEF Slice
<1> HIDE DEF d
<1>3. Len(d) = (b + 1) - a
  BY <1>1, <1>2
<1>4. ASSUME NEW j \in 1..((b + 1) - a) PROVE d[j] = u[a + j]
  <2>1. CASE j = (b - a) + 1
    <3>1. a + j = b + 1
      BY <2>1
    <3> QED
      BY <1>1, <1>2, <2>1, <3>1
  <2>2. CASE j # (b - a) + 1
    <3>1. j \in 1..(b - a)
      BY <2>2
    <3> QED
      BY <1>1, <1>2, <3>1
  <2> QED
    BY <2>1, <2>2
<1> QED
  BY <1>3, <1>4 DEF Slice, d

\* A slice of one charge.
LEMMA SliceOne ==
    ASSUME NEW u, NEW b \in Nat, NEW t, t = u[b + 1]
    PROVE  Slice(<<t>>, u, b, b + 1)
<1>1. (b + 1) - b = 1 /\ Len(<<t>>) = 1 /\ <<t>>[1] = t
  OBVIOUS
<1>2. \A j \in 1..1 : j = 1
  OBVIOUS
<1> QED
  BY <1>1, <1>2 DEF Slice

\* Slices of the same places have the same amounts.
LEMMA SlicesAlike ==
    ASSUME NEW u, NEW v, Matched(u, v), NEW a \in Nat, NEW b \in Nat, a <= b, b <= Len(u),
           NEW c \in Seq(Payment), NEW d \in Seq(Payment), Slice(c, u, a, b), Slice(d, v, a, b)
    PROVE  Len(c) = Len(d) /\ Amounts(c) = Amounts(d)
<1>1. Len(c) = b - a /\ Len(d) = b - a /\ b - a \in Nat
  BY DEF Slice
<1>2. ASSUME NEW j \in 1..(b - a) PROVE c[j].amount = d[j].amount
  <2>1. c[j] = u[a + j] /\ d[j] = v[a + j]
    BY DEF Slice
  <2>2. Len(u) \in Nat
    BY DEF Matched
  <2>3. a + j \in 1..Len(u)
    BY <2>2
  <2> QED
    BY <2>1, <2>3 DEF Matched
<1>3. /\ Amounts(c) \in Seq(Int) /\ Len(Amounts(c)) = Len(c)
      /\ \A i \in 1..Len(c) : Amounts(c)[i] = c[i].amount
  BY AmountsType
<1>4. /\ Amounts(d) \in Seq(Int) /\ Len(Amounts(d)) = Len(d)
      /\ \A i \in 1..Len(d) : Amounts(d)[i] = d[i].amount
  BY AmountsType
<1>5. \A i \in 1..Len(Amounts(c)) : Amounts(c)[i] = Amounts(d)[i]
  BY <1>1, <1>2, <1>3, <1>4
<1>6. Amounts(c) = Amounts(d)
  BY <1>1, <1>3, <1>4, <1>5, SeqEqual
<1> QED
  BY <1>1, <1>6

\* A charge joins one of two clusters with the same amounts if its like joins the other.
LEMMA JoinsAlike ==
    ASSUME NEW c, NEW d, Len(c) = Len(d), Amounts(c) = Amounts(d),
           NEW t, NEW r, t.amount = r.amount
    PROVE  Joins(t, c) <=> Joins(r, d)
  BY DEF Joins

\* One charge is a cluster that its like would join.
LEMMA TightOne ==
    ASSUME NEW t \in Payment
    PROVE  Tight(<<t>>, t.amount)
<1> DEFINE a == t.amount
<1>1. a \in Int /\ 1 <= a /\ Total(<<t>>) = a
  BY PaymentAmount, TotalOne
<1>2. Len(<<t>>) = 1 /\ <<t>>[1].amount = a
  OBVIOUS
<1> HIDE DEF a
<1>3. Bounded(1, a, a, a)
  BY <1>1 DEF Bounded
<1>4. 5 * (1 * a - a) <= a
  BY <1>1
<1> QED
  BY <1>1, <1>2, <1>3, <1>4 DEF Tight, a

\* The next charge joins the last cluster, or costs more.
LEMMA TightJoins ==
    ASSUME NEW c \in Seq(Payment), 1 <= Len(c), NEW t \in Payment, NEW h \in Int,
           Tight(c, h), h <= t.amount
    PROVE  /\ Joins(t, c) => Tight(Append(c, t), t.amount)
           /\ ~Joins(t, c) => h < t.amount
<1> DEFINE n == Len(c)
           s == Total(c)
           lo == c[1].amount
           a == t.amount
<1>1. n \in Nat /\ 1 <= n /\ s \in Int /\ lo \in Int /\ a \in Int /\ 1 <= a
  BY ClusterFacts, PaymentAmount
<1>2. Bounded(n, s, lo, h) /\ 5 * (n * h - s) <= s
  BY DEF Tight
<1>3. Bounded(n, s, lo, a)
  <2>1. h <= a
    OBVIOUS
  <2> HIDE DEF n, s, lo, a
  <2> QED
    BY <1>1, <1>2, <2>1, BoundedGrows
<1>4. Joins(t, c) <=> 5 * (n * a - s) <= s
  BY <1>1, <1>3, JoinsBounded
<1>5. Len(Append(c, t)) = n + 1 /\ Append(c, t)[1] = c[1] /\ Total(Append(c, t)) = s + a
  <2>1. Len(Append(c, t)) = n + 1 /\ Append(c, t)[1] = c[1]
    BY <1>1, AppendProperties
  <2>2. Total(Append(c, t)) = s + a
    BY TotalAppend
  <2> QED
    BY <2>1, <2>2
<1>6. h <= a
  OBVIOUS
<1> HIDE DEF n, s, lo, a
<1>7. ASSUME Joins(t, c) PROVE Tight(Append(c, t), t.amount)
  <2>1. 5 * (n * a - s) <= s
    BY <1>4, <1>7
  <2>2. Bounded(n + 1, s + a, lo, a)
    BY <1>1, <1>3, <2>1, BoundedJoins
  <2>3. (n + 1) * a = n * a + a /\ n * a \in Int
    BY <1>1
  <2> DEFINE m == n * a
  <2>4. 5 * ((m + a) - (s + a)) <= s + a
    <3>1. m \in Int /\ 5 * (m - s) <= s
      BY <2>1, <2>3
    <3> HIDE DEF m
    <3> QED
      BY <1>1, <3>1
  <2>5. 5 * ((n + 1) * a - (s + a)) <= s + a
    BY <2>3, <2>4
  <2> QED
    BY <1>5, <2>2, <2>5 DEF Tight, lo, a
<1>8. ASSUME ~Joins(t, c) PROVE h < a
  <2>1. h # a
    BY <1>2, <1>4, <1>8
  <2> QED
    BY <1>1, <1>6, <2>1
<1> QED
  BY <1>7, <1>8 DEF a

\* The next charge leaves the same cuts in both (WithNext).
LEMMA CutStep ==
    ASSUME NEW u, NEW v, Matched(u, v), NEW n \in Nat, n + 1 \in 1..Len(u),
           NEW cs \in Seq(Seq(Payment)), NEW ds \in Seq(Seq(Payment)),
           NEW g, Cut(g, cs, ds, u, v, n)
    PROVE  \E h : Cut(h, WithNext(cs, u[n + 1]), WithNext(ds, v[n + 1]), u, v, n + 1)
<1> DEFINE l == Len(cs)
           t == u[n + 1]
           r == v[n + 1]
           cn == WithNext(cs, t)
           dn == WithNext(ds, r)
<1>1. /\ Len(ds) = l /\ g \in [Nat -> Nat] /\ g[0] = 0 /\ g[l] = n
      /\ \A k \in 1..l : /\ g[k - 1] < g[k]
                         /\ Slice(cs[k], u, g[k - 1], g[k]) /\ Slice(ds[k], v, g[k - 1], g[k])
      /\ \A k \in 1..(l - 1) : u[g[k]].amount < u[g[k] + 1].amount
      /\ 1 <= l => Tight(cs[l], u[n].amount)
  BY DEF Cut
<1>2. /\ t \in Payment /\ r \in Payment /\ r.amount = t.amount /\ Len(u) \in Nat /\ l \in Nat
      /\ u \in Seq(Payment) /\ v \in Seq(Payment)
  BY DEF Matched
<1>3. \/ /\ 1 <= l /\ Joins(t, cs[l])
         /\ cn \in Seq(Seq(Payment)) /\ Len(cn) = l
         /\ \A k \in 1..(l - 1) : cn[k] = cs[k]
         /\ cn[l] = Append(cs[l], t)
      \/ /\ 1 <= l => ~Joins(t, cs[l])
         /\ cn \in Seq(Seq(Payment)) /\ Len(cn) = l + 1
         /\ \A k \in 1..l : cn[k] = cs[k]
         /\ cn[l + 1] = <<t>>
  <2> HIDE DEF t
  <2> QED
    BY <1>2, WithNextParts
<1>4. \/ /\ 1 <= l /\ Joins(r, ds[l]) /\ Len(dn) = l
         /\ \A k \in 1..(l - 1) : dn[k] = ds[k]
         /\ dn[l] = Append(ds[l], r)
      \/ /\ 1 <= l => ~Joins(r, ds[l])
         /\ Len(dn) = l + 1
         /\ \A k \in 1..l : dn[k] = ds[k]
         /\ dn[l + 1] = <<r>>
  <2> HIDE DEF r
  <2>1. \/ /\ 1 <= Len(ds) /\ Joins(r, ds[Len(ds)])
           /\ dn \in Seq(Seq(Payment)) /\ Len(dn) = Len(ds)
           /\ \A k \in 1..(Len(ds) - 1) : dn[k] = ds[k]
           /\ dn[Len(ds)] = Append(ds[Len(ds)], r)
        \/ /\ 1 <= Len(ds) => ~Joins(r, ds[Len(ds)])
           /\ dn \in Seq(Seq(Payment)) /\ Len(dn) = Len(ds) + 1
           /\ \A k \in 1..Len(ds) : dn[k] = ds[k]
           /\ dn[Len(ds) + 1] = <<r>>
    BY <1>2, WithNextParts
  <2> HIDE DEF dn, l
  <2> QED
    BY <1>1, <2>1
<1>5. ASSUME 1 <= l
      PROVE  /\ cs[l] \in Seq(Payment) /\ ds[l] \in Seq(Payment) /\ 1 <= Len(cs[l])
             /\ l \in 1..l /\ l - 1 \in Nat /\ g[l - 1] \in Nat /\ g[l - 1] <= n
             /\ Slice(cs[l], u, g[l - 1], n) /\ Slice(ds[l], v, g[l - 1], n)
             /\ Len(cs[l]) = Len(ds[l]) /\ Amounts(cs[l]) = Amounts(ds[l])
             /\ u[n].amount \in Int /\ u[n].amount <= t.amount /\ Tight(cs[l], u[n].amount)
  <2>1. l \in 1..l /\ l - 1 \in Nat
    BY <1>2, <1>5
  <2>2. cs[l] \in Seq(Payment) /\ ds[l] \in Seq(Payment)
    BY <1>1, <2>1
  <2>3. g[l - 1] \in Nat /\ g[l - 1] < n
    BY <1>1, <2>1
  <2>4. Slice(cs[l], u, g[l - 1], n) /\ Slice(ds[l], v, g[l - 1], n)
    BY <1>1, <2>1
  <2>5. Len(cs[l]) = n - g[l - 1]
    BY <2>4 DEF Slice
  <2>6. n <= Len(u)
    BY <1>2
  <2>7. g[l - 1] <= n
    BY <2>3
  <2> HIDE DEF l
  <2>8. Len(cs[l]) = Len(ds[l]) /\ Amounts(cs[l]) = Amounts(ds[l])
    BY <2>2, <2>3, <2>4, <2>6, <2>7, SlicesAlike, SMTT(30)
  <2>9. n \in 1..Len(u) /\ n < n + 1
    BY <1>2, <2>3
  <2>10. u[n].amount \in Int /\ u[n].amount <= u[n + 1].amount
    <3>1. u[n] \in Payment
      BY <1>2, <2>9
    <3>2. u[n].amount <= u[n + 1].amount
      BY <2>9 DEF Matched
    <3> QED
      BY <3>1, <3>2, PaymentAmount
  <2>11. 1 <= Len(cs[l])
    BY <2>3, <2>5
  <2>12. Tight(cs[l], u[n].amount)
    BY <1>1, <1>5
  <2> QED
    BY <2>1, <2>2, <2>3, <2>4, <2>7, <2>8, <2>10, <2>11, <2>12
<1> HIDE DEF l, cn, dn, t, r
<1>6. 1 <= l => (Joins(t, cs[l]) <=> Joins(r, ds[l]))
  BY <1>2, <1>5, JoinsAlike
<1>7. CASE 1 <= l /\ Joins(t, cs[l])
  <2> DEFINE h == [g EXCEPT ![l] = n + 1]
  <2>1. /\ Len(cn) = l /\ (\A k \in 1..(l - 1) : cn[k] = cs[k]) /\ cn[l] = Append(cs[l], t)
        /\ Len(dn) = l /\ (\A k \in 1..(l - 1) : dn[k] = ds[k]) /\ dn[l] = Append(ds[l], r)
    BY <1>3, <1>4, <1>6, <1>7
  <2>2. /\ h \in [Nat -> Nat] /\ h[l] = n + 1 /\ h[0] = 0
        /\ \A k \in 1..(l - 1) : h[k] = g[k] /\ h[k - 1] = g[k - 1]
        /\ h[l - 1] = g[l - 1]
    <3>1. h \in [Nat -> Nat] /\ h[l] = n + 1 /\ \A k \in Nat : k # l => h[k] = g[k]
      <4>1. g \in [Nat -> Nat]
        BY <1>1
      <4>2. l \in Nat
        BY <1>2
      <4>3. n + 1 \in Nat
        OBVIOUS
      <4> QED
        BY <4>1, <4>2, <4>3
    <3>2. l # 0 /\ l - 1 \in Nat /\ l - 1 # l
          /\ \A k \in 1..(l - 1) : k \in Nat /\ k # l /\ k - 1 \in Nat /\ k - 1 # l
      BY <1>2, <1>7
    <3> HIDE DEF h
    <3> QED
      BY <1>1, <3>1, <3>2
  <2> HIDE DEF h
  <2>3. ASSUME NEW k \in 1..l
        PROVE  /\ h[k - 1] < h[k]
               /\ Slice(cn[k], u, h[k - 1], h[k]) /\ Slice(dn[k], v, h[k - 1], h[k])
    <3>1. CASE k = l
      <4>1. Slice(Append(cs[l], t), u, g[l - 1], n + 1)
        BY <1>2, <1>5, <1>7, SliceAppend DEF t
      <4>2. Slice(Append(ds[l], r), v, g[l - 1], n + 1)
        BY <1>2, <1>5, <1>7, SliceAppend DEF r
      <4>3. g[l - 1] < n + 1
        <5> DEFINE x == g[l - 1]
        <5>1. x \in Nat /\ x <= n
          BY <1>5, <1>7
        <5> HIDE DEF x
        <5>2. x < n + 1
          BY <5>1
        <5> QED
          BY <5>2 DEF x
      <4> QED
        BY <2>1, <2>2, <3>1, <4>1, <4>2, <4>3
    <3>2. CASE k # l
      <4>1. k \in 1..(l - 1)
        BY <1>2, <3>2
      <4> QED
        BY <1>1, <2>1, <2>2, <4>1
    <3> QED
      BY <3>1, <3>2
  <2>4. \A k \in 1..(l - 1) : u[h[k]].amount < u[h[k] + 1].amount
    BY <1>1, <2>2
  <2>5. Tight(cn[l], u[n + 1].amount)
    <3>1. Tight(Append(cs[l], t), t.amount)
      BY <1>2, <1>5, <1>7, TightJoins
    <3> QED
      BY <2>1, <3>1 DEF t
  <2>6. Cut(h, cn, dn, u, v, n + 1)
    BY <2>1, <2>2, <2>3, <2>4, <2>5 DEF Cut
  <2> QED
    BY <2>6 DEF cn, dn, t, r
<1>8. CASE ~(1 <= l /\ Joins(t, cs[l]))
  <2> DEFINE h == [g EXCEPT ![l + 1] = n + 1]
  <2>1. /\ Len(cn) = l + 1 /\ (\A k \in 1..l : cn[k] = cs[k]) /\ cn[l + 1] = <<t>>
        /\ Len(dn) = l + 1 /\ (\A k \in 1..l : dn[k] = ds[k]) /\ dn[l + 1] = <<r>>
    BY <1>3, <1>4, <1>6, <1>8
  <2>2. /\ h \in [Nat -> Nat] /\ h[l + 1] = n + 1 /\ h[0] = 0 /\ h[l] = n
        /\ \A k \in 1..l : h[k] = g[k] /\ h[k - 1] = g[k - 1]
    <3>1. h \in [Nat -> Nat] /\ h[l + 1] = n + 1 /\ \A k \in Nat : k # l + 1 => h[k] = g[k]
      <4>1. g \in [Nat -> Nat]
        BY <1>1
      <4>2. l + 1 \in Nat
        BY <1>2
      <4>3. n + 1 \in Nat
        OBVIOUS
      <4> QED
        BY <4>1, <4>2, <4>3
    <3>2. 0 # l + 1 /\ l # l + 1
          /\ \A k \in 1..l : k \in Nat /\ k # l + 1 /\ k - 1 \in Nat /\ k - 1 # l + 1
      BY <1>2
    <3> HIDE DEF h
    <3> QED
      BY <1>1, <1>2, <3>1, <3>2
  <2> HIDE DEF h
  <2>3. ASSUME NEW k \in 1..(l + 1)
        PROVE  /\ h[k - 1] < h[k]
               /\ Slice(cn[k], u, h[k - 1], h[k]) /\ Slice(dn[k], v, h[k - 1], h[k])
    <3>1. CASE k = l + 1
      <4>1. Slice(<<t>>, u, n, n + 1)
        BY SliceOne DEF t
      <4>2. Slice(<<r>>, v, n, n + 1)
        BY SliceOne DEF r
      <4>3. k - 1 = l /\ n < n + 1
        BY <1>2, <3>1
      <4> QED
        BY <2>1, <2>2, <3>1, <4>1, <4>2, <4>3
    <3>2. CASE k # l + 1
      <4>1. k \in 1..l
        BY <1>2, <3>2
      <4> QED
        BY <1>1, <2>1, <2>2, <4>1
    <3> QED
      BY <3>1, <3>2
  <2>4. ASSUME NEW k \in 1..l PROVE u[h[k]].amount < u[h[k] + 1].amount
    <3>1. CASE k = l
      <4>1. 1 <= l
        BY <3>1
      <4>2. ~Joins(t, cs[l])
        BY <1>8, <4>1
      <4>3. u[n].amount < t.amount
        BY <1>2, <1>5, <4>1, <4>2, TightJoins
      <4> QED
        BY <2>2, <3>1, <4>3 DEF t
    <3>2. CASE k # l
      <4>1. k \in 1..(l - 1)
        BY <1>2, <3>2
      <4> QED
        BY <1>1, <2>2, <4>1
    <3> QED
      BY <3>1, <3>2
  <2>5. Tight(cn[l + 1], u[n + 1].amount)
    BY <1>2, <2>1, TightOne DEF t
  <2>6. (l + 1) - 1 = l
    BY <1>2
  <2>7. Cut(h, cn, dn, u, v, n + 1)
    BY <2>1, <2>2, <2>3, <2>4, <2>5, <2>6 DEF Cut
  <2> QED
    BY <2>7 DEF cn, dn, t, r
<1> QED
  BY <1>7, <1>8

\* Charges of the same amounts in ascending order are cut at the same places (Cluster).
LEMMA CutAlike ==
    ASSUME NEW u, NEW v, Matched(u, v)
    PROVE  \E g : Cut(g, Cluster(u), Cluster(v), u, v, Len(u))
<1>1. u \in Seq(Payment) /\ v \in Seq(Payment) /\ Len(v) = Len(u)
  BY DEF Matched
<1>2. PICK f \in [0..Len(u) -> Seq(Seq(Payment))] : ClustersUpTo(f, u) /\ Cluster(u) = f[Len(u)]
  BY <1>1, ClusterDef
<1>3. PICK e \in [0..Len(v) -> Seq(Seq(Payment))] : ClustersUpTo(e, v) /\ Cluster(v) = e[Len(v)]
  BY <1>1, ClusterDef
<1> DEFINE n == Len(u)
           S == {i \in 0..n : \E g : Cut(g, f[i], e[i], u, v, i)}
<1>4. n \in Nat
  BY <1>1
<1>5. 0 \in S
  <2>1. f[0] = <<>> /\ e[0] = <<>> /\ Len(<<>>) = 0 /\ 0 \in 0..n
    BY <1>2, <1>3, <1>4 DEF ClustersUpTo
  <2> DEFINE g == [i \in Nat |-> 0]
  <2>2. g \in [Nat -> Nat] /\ g[0] = 0
    OBVIOUS
  <2>3. (\A k \in 1..0 : FALSE) /\ (\A k \in 1..(0 - 1) : FALSE) /\ ~(1 <= 0)
    OBVIOUS
  <2> HIDE DEF g
  <2>4. Cut(g, f[0], e[0], u, v, 0)
    BY <2>1, <2>2, <2>3 DEF Cut
  <2> QED
    BY <2>1, <2>4
<1>6. ASSUME NEW k \in 0..(n - 1), k \in S PROVE k + 1 \in S
  <2>1. /\ k \in Nat /\ k \in 0..n /\ k + 1 \in 1..n /\ k + 1 \in 0..n /\ (k + 1) - 1 = k
        /\ k \in 0..Len(v) /\ k + 1 \in 1..Len(v)
    BY <1>1, <1>4
  <2>2. PICK g : Cut(g, f[k], e[k], u, v, k)
    BY <1>6
  <2>3. f[k + 1] = WithNext(f[k], u[k + 1]) /\ f[k] \in Seq(Seq(Payment))
    BY <1>2, <2>1 DEF ClustersUpTo
  <2>4. e[k + 1] = WithNext(e[k], v[k + 1]) /\ e[k] \in Seq(Seq(Payment))
    BY <1>3, <2>1 DEF ClustersUpTo
  <2>5. \E h : Cut(h, f[k + 1], e[k + 1], u, v, k + 1)
    BY <2>1, <2>2, <2>3, <2>4, CutStep
  <2> QED
    BY <2>1, <2>5
<1> HIDE DEF S
<1>7. 0..n \subseteq S
  <2> HIDE DEF n
  <2> QED
    BY <1>4, <1>5, <1>6, InductionUpTo
<1>8. n \in S
  BY <1>4, <1>7
<1>9. \E g : Cut(g, f[n], e[n], u, v, n)
  BY <1>8 DEF S
<1> QED
  BY <1>1, <1>2, <1>3, <1>9

\* Between two rises, a number is only found there.
LEMMA StaysBetween ==
    ASSUME NEW n \in Nat, NEW a \in [1..n -> Int], \A i, j \in 1..n : i < j => a[i] <= a[j],
           NEW x \in 0..n, NEW y \in 0..n, NEW i \in 1..n, NEW j \in 1..n, a[i] = a[j],
           x < i, i <= y,
           1 <= x => a[x] < a[x + 1],
           y < n => a[y] < a[y + 1]
    PROVE  x < j /\ j <= y
<1>1. \A k, l \in 1..n : k <= l => a[k] <= a[l]
  <2>1. ASSUME NEW k \in 1..n, NEW l \in 1..n, k <= l PROVE a[k] <= a[l]
    <3>1. k = l \/ k < l
      BY <2>1
    <3>2. a[k] \in Int
      OBVIOUS
    <3> QED
      BY <3>1, <3>2
  <2> QED
    BY <2>1
<1>2. ASSUME j <= x PROVE FALSE
  <2>1. x \in 1..n /\ x + 1 \in 1..n /\ 1 <= x /\ x + 1 <= i
    BY <1>2
  <2>2. a[j] <= a[x] /\ a[x] < a[x + 1] /\ a[x + 1] <= a[i]
    BY <1>1, <1>2, <2>1
  <2>3. a[x] \in Int /\ a[x + 1] \in Int /\ a[i] \in Int
    BY <2>1
  <2> QED
    BY <2>2, <2>3
<1>3. ASSUME y < j PROVE FALSE
  <2>1. y \in 1..n /\ y + 1 \in 1..n /\ y < n /\ y + 1 <= j
    BY <1>3
  <2>2. a[i] <= a[y] /\ a[y] < a[y + 1] /\ a[y + 1] <= a[j]
    BY <1>1, <1>3, <2>1
  <2>3. a[y] \in Int /\ a[y + 1] \in Int /\ a[i] \in Int
    BY <2>1
  <2> QED
    BY <2>2, <2>3
<1> QED
  BY <1>2, <1>3

\* The cuts come in order.
LEMMA CutsAscend ==
    ASSUME NEW l \in Nat, NEW n \in Nat, NEW g \in [Nat -> Nat], g[l] = n,
           \A k \in 1..l : g[k - 1] < g[k], NEW k \in 0..l
    PROVE  g[k] <= n
<1> DEFINE S == {i \in 0..l : g[l - i] <= n}
<1>1. 0 \in S
  OBVIOUS
<1>2. ASSUME NEW i \in 0..(l - 1), i \in S PROVE i + 1 \in S
  <2> DEFINE j == l - i
  <2>1. j \in 1..l /\ l - (i + 1) = j - 1 /\ j - 1 \in Nat /\ j \in Nat /\ i + 1 \in 0..l
    OBVIOUS
  <2>2. g[j] <= n
    BY <1>2
  <2> HIDE DEF j
  <2>3. g[j - 1] < g[j] /\ g[j - 1] \in Nat /\ g[j] \in Nat
    BY <2>1
  <2>4. g[j - 1] <= n
    BY <2>2, <2>3
  <2> QED
    BY <2>1, <2>4
<1> HIDE DEF S
<1>3. 0..l \subseteq S
  BY <1>1, <1>2, InductionUpTo
<1>4. l - k \in 0..l /\ l - (l - k) = k
  OBVIOUS
<1>5. l - k \in S
  BY <1>3, <1>4
<1> QED
  BY <1>4, <1>5 DEF S

\* Where charges are rearranged, so is each cluster of them.
LEMMA SlicesRearranged ==
    ASSUME NEW u, NEW v, Matched(u, v), Rearranged(u, v), NEW cs, NEW ds, Len(cs) \in Nat,
           NEW g, Cut(g, cs, ds, u, v, Len(u)), NEW k \in 1..Len(cs)
    PROVE  Rearranged(cs[k], ds[k])
<1>1. PICK p : Permutes(p, u, v)
  BY DEF Rearranged
<1> DEFINE n == Len(u)
           l == Len(cs)
           a == [i \in 1..n |-> u[i].amount]
           x == g[k - 1]
           y == g[k]
           q == [j \in 1..(y - x) |-> p[x + j] - x]
<1>2. n \in Nat /\ l \in Nat
  BY DEF Matched
<1>3. g \in [Nat -> Nat] /\ g[0] = 0 /\ g[l] = n /\ \A i \in 1..l : g[i - 1] < g[i]
  BY DEF Cut
<1>4. \A i \in 1..(l - 1) : u[g[i]].amount < u[g[i] + 1].amount
  BY DEF Cut
<1>5. Slice(cs[k], u, x, y) /\ Slice(ds[k], v, x, y)
  BY DEF Cut
<1>6. /\ \A i \in 1..n : p[i] \in 1..n /\ u[i] = v[p[i]]
      /\ \A i, j \in 1..n : i # j => p[i] # p[j]
  BY <1>1 DEF Permutes
<1>7. /\ a \in [1..n -> Int] /\ \A i \in 1..n : a[i] = u[i].amount
      /\ \A i, j \in 1..n : i < j => a[i] <= a[j]
  <2>1. \A i \in 1..n : u[i] \in Payment
    BY DEF Matched
  <2>2. \A i \in 1..n : u[i].amount \in Int
    BY <2>1, PaymentAmount
  <2>3. \A i, j \in 1..n : i < j => u[i].amount <= u[j].amount
    BY DEF Matched
  <2> QED
    BY <2>2, <2>3
<1>8. ASSUME NEW i \in 1..n PROVE a[i] = a[p[i]]
  <2> DEFINE j == p[i]
  <2>1. j \in 1..n /\ u[i] = v[j]
    BY <1>6
  <2> HIDE DEF j, a
  <2>2. v[j].amount = u[j].amount
    BY <2>1 DEF Matched
  <2>3. a[i] = u[i].amount /\ a[j] = u[j].amount
    BY <1>7, <2>1
  <2> QED
    BY <2>1, <2>2, <2>3 DEF j
<1>9. k \in 1..l
  OBVIOUS
<1> HIDE DEF n, l
<1>10. k \in 0..l /\ k - 1 \in 0..l /\ k \in Nat /\ k - 1 \in Nat
  BY <1>2, <1>9
<1>11. y <= n
  BY <1>2, <1>3, <1>10, CutsAscend
<1>12. x < y /\ x \in Nat /\ y \in Nat
  BY <1>3, <1>9, <1>10
<1>13. 1 <= x => a[x] < a[x + 1]
  <2>1. ASSUME 1 <= x PROVE a[x] < a[x + 1]
    <3>1. k - 1 # 0
      BY <1>3, <2>1
    <3>2. k - 1 \in 1..(l - 1)
      BY <1>2, <1>9, <3>1
    <3>3. u[x].amount < u[x + 1].amount
      BY <1>4, <3>2
    <3> HIDE DEF x, y, a
    <3>4. x \in 1..n /\ x + 1 \in 1..n
      BY <1>2, <1>11, <1>12, <2>1
    <3> QED
      BY <1>7, <3>3, <3>4
  <2> QED
    BY <2>1
<1>14. y < n => a[y] < a[y + 1]
  <2>1. ASSUME y < n PROVE a[y] < a[y + 1]
    <3>1. k # l
      BY <1>2, <1>3, <2>1
    <3>2. k \in 1..(l - 1)
      BY <1>2, <1>9, <3>1
    <3>3. u[y].amount < u[y + 1].amount
      BY <1>4, <3>2
    <3> HIDE DEF x, y, a
    <3>4. y \in 1..n /\ y + 1 \in 1..n
      BY <1>2, <1>12, <2>1
    <3> QED
      BY <1>7, <3>3, <3>4
  <2> QED
    BY <2>1
<1> HIDE DEF a, x, y
<1>15. x \in 0..n /\ y \in 0..n /\ y - x \in Nat
  BY <1>2, <1>11, <1>12
<1>16. ASSUME NEW j \in 1..(y - x)
       PROVE  x + j \in 1..n /\ p[x + j] \in 1..n /\ q[j] = p[x + j] - x /\ q[j] \in 1..(y - x)
              /\ p[x + j] = x + q[j]
  <2>1. x + j \in 1..n /\ x < x + j /\ x + j <= y
    BY <1>2, <1>11, <1>12
  <2>2. p[x + j] \in 1..n /\ a[x + j] = a[p[x + j]]
    BY <1>6, <1>8, <2>1
  <2>3. x < p[x + j] /\ p[x + j] <= y
    BY <1>2, <1>7, <1>13, <1>14, <1>15, <2>1, <2>2, StaysBetween
  <2>4. q[j] = p[x + j] - x
    OBVIOUS
  <2> HIDE DEF q
  <2> DEFINE z == p[x + j]
  <2>5. z \in Nat /\ x < z /\ z <= y /\ q[j] = z - x
    BY <2>2, <2>3, <2>4
  <2> HIDE DEF z
  <2>6. q[j] \in 1..(y - x) /\ z = x + q[j]
    BY <1>12, <2>5
  <2> QED
    BY <2>1, <2>2, <2>4, <2>6 DEF z
<1>17. q \in [1..(y - x) -> 1..(y - x)]
  BY <1>16
<1> HIDE DEF q
<1>18. ASSUME NEW i \in 1..(y - x), NEW j \in 1..(y - x), i # j PROVE q[i] # q[j]
  <2>1. x + i # x + j
    BY <1>12, <1>18
  <2>2. p[x + i] # p[x + j]
    BY <1>6, <1>16, <2>1
  <2> QED
    BY <1>16, <2>2
<1>19. Len(cs[k]) = y - x /\ Len(ds[k]) = y - x
       /\ \A j \in 1..(y - x) : cs[k][j] = u[x + j] /\ ds[k][j] = v[x + j]
  BY <1>5 DEF Slice
<1>20. ASSUME NEW j \in 1..(y - x) PROVE cs[k][j] = ds[k][q[j]]
  <2>1. cs[k][j] = u[x + j] /\ u[x + j] = v[p[x + j]]
    BY <1>6, <1>16, <1>19
  <2>2. q[j] \in 1..(y - x) /\ ds[k][q[j]] = v[x + q[j]]
    BY <1>16, <1>19
  <2> QED
    BY <1>16, <2>1, <2>2
<1>21. Permutes(q, cs[k], ds[k])
  BY <1>17, <1>18, <1>19, <1>20 DEF Permutes
<1> QED
  BY <1>21 DEF Rearranged

\* Rearranged charges have rearranged amounts.
LEMMA AmountsRearranged ==
    ASSUME NEW u \in Seq(Payment), NEW v \in Seq(Payment), Rearranged(u, v)
    PROVE  Rearranged(Amounts(u), Amounts(v))
<1> DEFINE a == Amounts(u)
           b == Amounts(v)
<1>1. /\ Len(a) = Len(u) /\ Len(u) \in Nat
      /\ \A i \in 1..Len(u) : a[i] = u[i].amount
  BY AmountsType
<1>2. /\ Len(b) = Len(v)
      /\ \A i \in 1..Len(v) : b[i] = v[i].amount
  BY AmountsType
<1> HIDE DEF a, b
<1>3. PICK p : Permutes(p, u, v)
  BY DEF Rearranged
<1>4. Len(u) = Len(v) /\ \A i \in 1..Len(u) : p[i] \in 1..Len(u) /\ u[i] = v[p[i]]
  BY <1>3 DEF Permutes
<1>5. \A i \in 1..Len(u) : a[i] = b[p[i]]
  BY <1>1, <1>2, <1>4
<1>6. Permutes(p, a, b)
  BY <1>1, <1>2, <1>3, <1>5 DEF Permutes
<1> QED
  BY <1>6 DEF Rearranged, a, b

\* Rearranged charges have the same amounts in ascending order.
LEMMA MatchedByAmount ==
    ASSUME NEW s \in Seq(Payment), NEW t \in Seq(Payment), Rearranged(s, t)
    PROVE  /\ Matched(Sorted(s, Cheaper(s)), Sorted(t, Cheaper(t)))
           /\ Rearranged(Sorted(s, Cheaper(s)), Sorted(t, Cheaper(t)))
<1> DEFINE u == Sorted(s, Cheaper(s))
           v == Sorted(t, Cheaper(t))
<1>1. /\ u \in Seq(Payment) /\ Rearranged(u, s)
      /\ \A i, j \in 1..Len(u) : i < j => u[i].amount <= u[j].amount
  BY ByAmount DEF Rearranged
<1>2. /\ v \in Seq(Payment) /\ Rearranged(v, t)
      /\ \A i, j \in 1..Len(v) : i < j => v[i].amount <= v[j].amount
  BY ByAmount DEF Rearranged
<1> HIDE DEF u, v
<1>3. Rearranged(u, t)
  BY <1>1, RearrangedOn
<1>4. Len(v) \in Nat
  BY <1>2
<1>5. Rearranged(t, v)
  BY <1>2, <1>4, RearrangedBack
<1>6. Rearranged(u, v)
  BY <1>3, <1>5, RearrangedOn
<1> DEFINE a == Amounts(u)
           b == Amounts(v)
<1>7. /\ a \in Seq(Int) /\ Len(a) = Len(u) /\ Len(u) \in Nat
      /\ \A i \in 1..Len(u) : a[i] = u[i].amount
  BY <1>1, AmountsType
<1>8. /\ b \in Seq(Int) /\ Len(b) = Len(v)
      /\ \A i \in 1..Len(v) : b[i] = v[i].amount
  BY <1>2, AmountsType
<1> HIDE DEF a, b
<1>9. Rearranged(a, b)
  BY <1>1, <1>2, <1>6, AmountsRearranged DEF a, b
<1>10. \A i, j \in 1..Len(a) : i < j => a[i] <= a[j]
  BY <1>1, <1>7
<1>11. \A i, j \in 1..Len(b) : i < j => b[i] <= b[j]
  BY <1>2, <1>8
<1>12. a = b
  BY <1>7, <1>8, <1>9, <1>10, <1>11, AscendingOnce
<1>13. Len(v) = Len(u) /\ \A i \in 1..Len(u) : v[i].amount = u[i].amount
  BY <1>7, <1>8, <1>12
<1>14. Matched(u, v)
  BY <1>1, <1>2, <1>13 DEF Matched
<1> QED
  BY <1>6, <1>14 DEF u, v

\* The clusters of rearranged charges are rearranged, each for itself
\* (_cluster_by_amount).
LEMMA ClustersRearranged ==
    ASSUME NEW s \in Seq(Payment), NEW t \in Seq(Payment), Rearranged(s, t)
    PROVE  /\ Len(_cluster_by_amount(s)) = Len(_cluster_by_amount(t))
           /\ \A k \in 1..Len(_cluster_by_amount(s)) :
                  Rearranged(_cluster_by_amount(s)[k], _cluster_by_amount(t)[k])
<1> DEFINE u == Sorted(s, Cheaper(s))
           v == Sorted(t, Cheaper(t))
           cs == Cluster(u)
           ds == Cluster(v)
<1>1. Matched(u, v) /\ Rearranged(u, v)
  BY MatchedByAmount
<1>2. cs = _cluster_by_amount(s) /\ ds = _cluster_by_amount(t)
  BY DEF _cluster_by_amount
<1>3. cs \in Seq(Seq(Payment))
  BY <1>2, ClusteredByAmount
<1> HIDE DEF u, v
<1>4. PICK g : Cut(g, cs, ds, u, v, Len(u))
  BY <1>1, CutAlike
<1> HIDE DEF cs, ds
<1>5. Len(ds) = Len(cs)
  BY <1>4 DEF Cut
<1>6. Len(cs) \in Nat
  BY <1>3
<1>7. \A k \in 1..Len(cs) : Rearranged(cs[k], ds[k])
  BY <1>1, <1>4, <1>6, SlicesRearranged
<1> QED
  BY <1>2, <1>5, <1>7

---------------------------------------------------------------------------
(* Candidates of rearranged charges *)

\* A date has a number of its own.
LEMMA SameDay ==
    ASSUME NEW d \in Date, NEW e \in Date, DayNumber(d) = DayNumber(e)
    PROVE  d = e
<1>1. MonthOf(d) \in Nat /\ MonthOf(e) \in Nat
  BY DateIs
<1>2. DayNumber(d) \in Int /\ DayNumber(e) \in Int
  BY DateNumber
<1>3. ~(MonthOf(d) < MonthOf(e))
  BY <1>2, LaterMonth
<1>4. ~(MonthOf(e) < MonthOf(d))
  BY <1>2, LaterMonth
<1>5. MonthOf(d) = MonthOf(e)
  BY <1>1, <1>3, <1>4
<1> DEFINE k == MonthOf(d) - 1
<1>6. k \in Int /\ d[1] = k \div 12 /\ d[2] = (k % 12) + 1 /\ d = <<d[1], d[2], d[3]>>
  BY DateIs
<1>7. e[1] = k \div 12 /\ e[2] = (k % 12) + 1 /\ e = <<e[1], e[2], e[3]>>
  BY <1>5, DateIs
<1>8. DayNumber(d) = Start(k) + d[3] /\ d[3] \in 1..31
  BY DateNumber
<1>9. DayNumber(e) = Start(k) + e[3] /\ e[3] \in 1..31
  BY <1>5, DateNumber
<1> HIDE DEF k
<1>10. Start(k) \in Int
  BY <1>6, StartType
<1>11. d[3] = e[3]
  <2> DEFINE a == Start(k)
             x == d[3]
             y == e[3]
  <2>1. a \in Int /\ x \in Int /\ y \in Int
    BY <1>8, <1>9, <1>10
  <2>3. DayNumber(d) = a + x /\ DayNumber(e) = a + y
    BY <1>8, <1>9
  <2>4. a + x = a + y
    BY <2>3
  <2> HIDE DEF a, x, y
  <2>2. x = y
    BY <2>1, <2>4
  <2> QED
    BY <2>2 DEF x, y
<1> QED
  BY <1>6, <1>7, <1>11

\* The score of amounts does not depend on their order
\* (amount_consistency_score).
LEMMA SameScore ==
    ASSUME NEW a \in Seq(Int), NEW b \in Seq(Int), Rearranged(a, b)
    PROVE  /\ Len(a) = Len(b) /\ SumSeq(a) = SumSeq(b)
           /\ amount_consistency_score(a) = amount_consistency_score(b)
<1>1. PICK p : Permutes(p, a, b)
  BY DEF Rearranged
<1>2. SumSeq(a) = SumSeq(b)
  BY <1>1, PermutedSum
<1> DEFINE n == Len(a)
<1>3. n \in Nat /\ Len(b) = n /\ DOMAIN a = 1..n /\ DOMAIN b = 1..n
      /\ \A i \in 1..n : p[i] \in 1..n /\ a[i] = b[p[i]]
  <2>1. Len(b) = n /\ \A i \in 1..n : p[i] \in 1..n /\ a[i] = b[p[i]]
    BY <1>1 DEF Permutes
  <2>2. n \in Nat /\ DOMAIN a = 1..n /\ DOMAIN b = 1..Len(b)
    OBVIOUS
  <2> QED
    BY <2>1, <2>2
<1>4. \A j \in 1..n : \E i \in 1..n : p[i] = j
  BY <1>1, PermutesOnto
<1> HIDE DEF n
<1> DEFINE A == {Distance(n * a[i], SumSeq(a)) : i \in 1..n}
           B == {Distance(n * b[i], SumSeq(a)) : i \in 1..n}
<1>5. A = B
  <2>1. ASSUME NEW x \in A PROVE x \in B
    <3>1. PICK i \in 1..n : x = Distance(n * a[i], SumSeq(a))
      OBVIOUS
    <3>2. p[i] \in 1..n /\ a[i] = b[p[i]]
      BY <1>3
    <3> QED
      BY <3>1, <3>2
  <2>2. ASSUME NEW x \in B PROVE x \in A
    <3>1. PICK j \in 1..n : x = Distance(n * b[j], SumSeq(a))
      OBVIOUS
    <3>2. PICK i \in 1..n : p[i] = j
      BY <1>4
    <3>3. a[i] = b[j]
      BY <1>3, <3>2
    <3> QED
      BY <3>1, <3>3
  <2> HIDE DEF A, B
  <2> QED
    BY <2>1, <2>2
<1>6. Deviation(a) = Max(A)
  BY <1>3 DEF Deviation, n
<1>7. Deviation(b) = Max(B)
  BY <1>2, <1>3 DEF Deviation
<1>8. Deviation(a) = Deviation(b)
  BY <1>5, <1>6, <1>7
<1>9. \A tiers : Tier(a, tiers) = Tier(b, tiers)
  BY <1>2, <1>8, Zenon DEF Tier
<1>10. Len(a) = Len(b)
  BY <1>3 DEF n
<1>11. amount_consistency_score(a) = amount_consistency_score(b)
  BY <1>2, <1>9, <1>10, Zenon DEF amount_consistency_score
<1> QED
  BY <1>2, <1>10, <1>11

\* The intervals between charges, as build_candidate counts them.
DaysBetween(txns) ==
    LET day == [i \in DOMAIN txns |-> DayNumber(txns[i].date)]
    IN  [i \in 1..(Len(txns) - 1) |-> day[i + 1] - day[i]]

\* The candidate that build_candidate makes of what it computes.
Built(label, n, average, intervals, last, category, confidence) ==
    LET frequency == infer_frequency(SumSeq(intervals), Len(intervals))
    IN  IF n < 2 \/ frequency = "none" THEN <<>>
        ELSE <<[label |-> label,
                key |-> merchant_key(label),
                amount |-> average,
                frequency |-> frequency,
                last_charged |-> last,
                next_expected |-> next_expected(frequency, last, intervals),
                category |-> category,
                occurrences |-> n,
                confidence |-> confidence]>>

\* The confidence in n charges whose amounts score x.
Rated(merchant, x, n, intervals) ==
    (Max({0, Min({40 * x
                  + 35 * interval_consistency_score(intervals)
                  + 250 * Min({n, 6})
                  + (IF merchant \in Keyworded THEN 1000 ELSE 0)
                  - (IF merchant \in Hinted THEN 2500 ELSE 0), 9900})}) + 50) \div 100

\* What a candidate is made from.
LEMMA BuildIs ==
    ASSUME NEW label, NEW c
    PROVE  LET u == Sorted(c, Earlier(c))
           IN  build_candidate(label, c) =
                   Built(label, Len(u), Average(u), DaysBetween(u), u[Len(u)].date,
                         u[Len(u)].category,
                         Confidence(label.name, Amounts(u), DaysBetween(u)))
  BY Zenon DEF build_candidate, Built, DaysBetween

\* Rearranged charges are on the same days, in the order of their dates.
LEMMA SameDays ==
    ASSUME NEW u \in Seq(Payment), NEW w \in Seq(Payment), Rearranged(u, w),
           \A i, j \in 1..Len(u) : i < j => DayNumber(u[i].date) <= DayNumber(u[j].date),
           \A i, j \in 1..Len(w) : i < j => DayNumber(w[i].date) <= DayNumber(w[j].date)
    PROVE  /\ Len(u) = Len(w) /\ DaysBetween(u) = DaysBetween(w)
           /\ 1 <= Len(u) => u[Len(u)].date = w[Len(w)].date
<1> DEFINE a == [i \in DOMAIN u |-> DayNumber(u[i].date)]
           b == [i \in DOMAIN w |-> DayNumber(w[i].date)]
           n == Len(u)
<1>1. PICK p : Permutes(p, u, w)
  BY DEF Rearranged
<1>2. n \in Nat /\ Len(w) = n /\ DOMAIN u = 1..n /\ DOMAIN w = 1..n
      /\ \A i \in 1..n : p[i] \in 1..n /\ u[i] = w[p[i]]
  BY <1>1 DEF Permutes
<1>3. \A i \in 1..n : u[i].date \in Date /\ w[i].date \in Date
  BY <1>2, PaymentDate
<1>4. /\ a = [i \in 1..n |-> a[i]] /\ b = [i \in 1..n |-> b[i]]
      /\ \A i \in 1..n : a[i] = DayNumber(u[i].date) /\ b[i] = DayNumber(w[i].date)
  BY <1>2
<1>5. \A i \in 1..n : a[i] \in Int /\ b[i] \in Int
  BY <1>3, <1>4, DateNumber
<1>6. DaysBetween(u) = [i \in 1..(n - 1) |-> a[i + 1] - a[i]]
  BY Zenon DEF DaysBetween
<1>7. DaysBetween(w) = [i \in 1..(n - 1) |-> b[i + 1] - b[i]]
  BY <1>2, Zenon DEF DaysBetween
<1>8. \A i, j \in 1..n : i < j => a[i] <= a[j] /\ b[i] <= b[j]
  BY <1>2, <1>4
<1> HIDE DEF a, b
<1>9. a \in Seq(Int) /\ b \in Seq(Int) /\ Len(a) = n /\ Len(b) = n
  <2>1. a \in Seq(Int) /\ Len(a) = n
    BY <1>2, <1>4, <1>5, SequenceOf
  <2>2. b \in Seq(Int) /\ Len(b) = n
    BY <1>2, <1>4, <1>5, SequenceOf
  <2> QED
    BY <2>1, <2>2
<1>10. Rearranged(a, b)
  <2>1. \A i \in 1..n : a[i] = b[p[i]]
    BY <1>2, <1>4
  <2>2. Permutes(p, a, b)
    BY <1>1, <1>9, <2>1 DEF Permutes
  <2> QED
    BY <2>2 DEF Rearranged
<1>11. a = b
  <2> HIDE DEF n
  <2> QED
    BY <1>8, <1>9, <1>10, AscendingOnce
<1>12. DaysBetween(u) = DaysBetween(w)
  BY <1>6, <1>7, <1>11
<1>13. ASSUME 1 <= n PROVE u[n].date = w[n].date
  <2>1. n \in 1..n
    BY <1>2, <1>13
  <2>2. DayNumber(u[n].date) = DayNumber(w[n].date)
    BY <1>4, <1>11, <2>1
  <2> QED
    BY <1>3, <2>1, <2>2, SameDay
<1> QED
  BY <1>2, <1>12, <1>13

\* Each element of r has the facts of one of v.
Covered(r, v) == \A i \in 1..Len(r) : \E j \in 1..Len(v) : Facts(v[j]) = Facts(r[i])

\* The category is none of the facts.
LEMMA BuiltFacts ==
    ASSUME NEW label, NEW n, NEW a, NEW d, NEW l, NEW g, NEW h, NEW o
    PROVE  Covered(Built(label, n, a, d, l, g, o), Built(label, n, a, d, l, h, o))
<1> DEFINE f == infer_frequency(SumSeq(d), Len(d))
           x(c) == [label |-> label, key |-> merchant_key(label), amount |-> a, frequency |-> f,
                    last_charged |-> l, next_expected |-> next_expected(f, l, d),
                    category |-> c, occurrences |-> n, confidence |-> o]
           r == Built(label, n, a, d, l, g, o)
           v == Built(label, n, a, d, l, h, o)
<1>1. r = IF n < 2 \/ f = "none" THEN <<>> ELSE <<x(g)>>
  BY Zenon DEF Built
<1>2. v = IF n < 2 \/ f = "none" THEN <<>> ELSE <<x(h)>>
  BY Zenon DEF Built
<1>3. Facts(x(g)) = Facts(x(h))
  BY DEF Facts
<1> HIDE DEF x, f, r, v
<1>4. (r = <<>> /\ v = <<>>) \/ (r = <<x(g)>> /\ v = <<x(h)>>)
  BY <1>1, <1>2
<1>5. CASE r = <<>> /\ v = <<>>
  BY <1>5 DEF Covered, r, v
<1>6. CASE r = <<x(g)>> /\ v = <<x(h)>>
  <2>1. Len(r) = 1 /\ Len(v) = 1 /\ r[1] = x(g) /\ v[1] = x(h)
    BY <1>6
  <2>2. Covered(r, v)
    BY <1>3, <2>1 DEF Covered
  <2> QED
    BY <2>2 DEF r, v
<1> QED
  BY <1>4, <1>5, <1>6

\* The candidate of some charges does not depend on their order, but for its
\* category (build_candidate).
LEMMA SameCandidate ==
    ASSUME NEW c \in Seq(Payment), NEW d \in Seq(Payment), Rearranged(c, d), NEW label
    PROVE  Covered(build_candidate(label, c), build_candidate(label, d))
<1> DEFINE u == Sorted(c, Earlier(c))
           w == Sorted(d, Earlier(d))
<1>1. /\ u \in Seq(Payment) /\ Rearranged(u, c)
      /\ \A i, j \in 1..Len(u) : i < j => DayNumber(u[i].date) <= DayNumber(u[j].date)
  BY ByDate DEF Rearranged
<1>2. /\ w \in Seq(Payment) /\ Rearranged(w, d)
      /\ \A i, j \in 1..Len(w) : i < j => DayNumber(w[i].date) <= DayNumber(w[j].date)
  BY ByDate DEF Rearranged
<1>3. build_candidate(label, c) =
          Built(label, Len(u), Average(u), DaysBetween(u), u[Len(u)].date,
                u[Len(u)].category, Confidence(label.name, Amounts(u), DaysBetween(u)))
  BY BuildIs
<1>4. build_candidate(label, d) =
          Built(label, Len(w), Average(w), DaysBetween(w), w[Len(w)].date,
                w[Len(w)].category, Confidence(label.name, Amounts(w), DaysBetween(w)))
  BY BuildIs
<1> HIDE DEF u, w
<1>5. Rearranged(u, d)
  BY <1>1, RearrangedOn
<1>6. Len(w) \in Nat /\ Len(u) \in Nat
  BY <1>1, <1>2
<1>7. Rearranged(d, w)
  BY <1>2, <1>6, RearrangedBack
<1>8. Rearranged(u, w)
  BY <1>5, <1>7, RearrangedOn
<1>9. /\ Len(u) = Len(w) /\ DaysBetween(u) = DaysBetween(w)
      /\ 1 <= Len(u) => u[Len(u)].date = w[Len(w)].date
  BY <1>1, <1>2, <1>8, SameDays
<1>10. Average(u) = Average(w)
  BY <1>1, <1>2, <1>8, Reordered DEF Rearranged
<1>11. Rearranged(Amounts(u), Amounts(w))
  BY <1>1, <1>2, <1>8, AmountsRearranged
<1>12. Amounts(u) \in Seq(Int) /\ Amounts(w) \in Seq(Int)
  BY <1>1, <1>2, AmountsType
<1>13. Len(Amounts(u)) = Len(Amounts(w))
       /\ amount_consistency_score(Amounts(u)) = amount_consistency_score(Amounts(w))
  BY <1>11, <1>12, SameScore
<1>14. Confidence(label.name, Amounts(u), DaysBetween(u))
           = Confidence(label.name, Amounts(w), DaysBetween(w))
  <2>1. \A m, a, e : Confidence(m, a, e) = Rated(m, amount_consistency_score(a), Len(a), e)
    BY SMTT(30) DEF Confidence, Weighed, Rated
  <2> QED
    BY <1>9, <1>13, <2>1
<1>15. CASE 1 <= Len(u)
  <2>1. u[Len(u)].date = w[Len(w)].date
    BY <1>9, <1>15
  <2>2. build_candidate(label, d) =
            Built(label, Len(u), Average(u), DaysBetween(u), u[Len(u)].date,
                  w[Len(w)].category, Confidence(label.name, Amounts(u), DaysBetween(u)))
    BY <1>4, <1>9, <1>10, <1>14, <2>1, Zenon
  <2> QED
    BY <1>3, <2>2, BuiltFacts
<1>16. CASE ~(1 <= Len(u))
  <2>1. Len(u) < 2 /\ Len(w) < 2
    BY <1>6, <1>9, <1>16
  <2>2. \A n, a, i, l, g, o : n < 2 => Built(label, n, a, i, l, g, o) = <<>>
    BY Zenon DEF Built
  <2>3. build_candidate(label, c) = <<>>
    BY <1>3, <2>1, <2>2, Zenon
  <2>4. build_candidate(label, d) = <<>>
    BY <1>4, <2>1, <2>2, Zenon
  <2>5. Len(<<>>) = 0
    OBVIOUS
  <2> QED
    BY <2>3, <2>4, <2>5 DEF Covered
<1> QED
  BY <1>15, <1>16

\* A cluster makes a candidate or none.
LEMMA BuildsSequence ==
    ASSUME NEW c \in Seq(Payment), NEW label, NEW T,
           build_candidate(label, c) # <<>> => build_candidate(label, c)[1] \in T
    PROVE  build_candidate(label, c) \in Seq(T)
<1> DEFINE b == build_candidate(label, c)
<1>1. CASE b = <<>>
  BY <1>1
<1>2. CASE b # <<>>
  <2> DEFINE x == b[1]
  <2>1. b = <<x>> /\ x \in T
    BY <1>2, BuildOne
  <2> HIDE DEF x, b
  <2>2. <<x>> \in Seq(T)
    BY <2>1
  <2> QED
    BY <2>1, <2>2 DEF b
<1> QED
  BY <1>1, <1>2

\* What covers part by part covers the whole.
LEMMA FlattenCovered ==
    ASSUME NEW T, NEW ss \in Seq(Seq(T)), NEW ts \in Seq(Seq(T)), Len(ss) = Len(ts),
           \A k \in 1..Len(ss) : Covered(ss[k], ts[k])
    PROVE  Covered(FlattenSeq(ss), FlattenSeq(ts))
<1> DEFINE r == FlattenSeq(ss)
           v == FlattenSeq(ts)
           n == Len(ss)
<1>1. PICK at : Places(at, r, ss, n)
  BY FlattenPlaces
<1>2. PICK as : Places(as, v, ts, n)
  BY FlattenPlaces
<1> HIDE DEF r, v, n
<1>3. ASSUME NEW i \in 1..Len(r) PROVE \E j \in 1..Len(v) : Facts(v[j]) = Facts(r[i])
  <2> DEFINE k == at[i][1]
             l == at[i][2]
  <2>1. at[i] \in (1..n) \X Nat /\ l \in 1..Len(ss[k]) /\ r[i] = ss[k][l]
    BY <1>1 DEF Places
  <2>2. k \in 1..n
    BY <2>1
  <2> HIDE DEF k, l
  <2>3. PICK o \in 1..Len(ts[k]) : Facts(ts[k][o]) = Facts(ss[k][l])
    BY <2>1, <2>2 DEF Covered, n
  <2>4. PICK j \in 1..Len(v) : as[j] = <<k, o>>
    BY <1>2, <2>2 DEF Places
  <2>5. v[j] = ts[as[j][1]][as[j][2]]
    BY <1>2 DEF Places
  <2>6. v[j] = ts[k][o]
    BY <2>4, <2>5
  <2> QED
    BY <2>1, <2>3, <2>6
<1> QED
  BY <1>3 DEF Covered, r, v

\* A merchant's candidates do not depend on the order of its charges, but for their
\* categories (_cluster_by_amount, detect_subscription_candidates).
LEMMA SameCandidates ==
    ASSUME NEW s \in Seq(Payment), NEW t \in Seq(Payment), Rearranged(s, t), NEW m
    PROVE  Covered(CandidatesOf(m, s), CandidatesOf(m, t))
<1> DEFINE cs == _cluster_by_amount(s)
           ds == _cluster_by_amount(t)
           b(k) == build_candidate(Label(m, <<Average(cs[k])>>), cs[k])
           e(k) == build_candidate(Label(m, <<Average(ds[k])>>), ds[k])
           ss == [k \in DOMAIN cs |-> b(k)]
           ts == [k \in DOMAIN ds |-> e(k)]
           T == {b(k)[1] : k \in 1..Len(cs)} \cup {e(k)[1] : k \in 1..Len(cs)}
<1>1. Len(cs) = Len(ds) /\ \A k \in 1..Len(cs) : Rearranged(cs[k], ds[k])
  BY ClustersRearranged
<1>2. cs \in Seq(Seq(Payment)) /\ ds \in Seq(Seq(Payment))
  BY ClusteredByAmount
<1>3. CandidatesOf(m, s) = IF Len(cs) > 1 THEN FlattenSeq(ss)
                           ELSE build_candidate(Label(m, <<>>), s)
  BY Zenon DEF CandidatesOf
<1>4. CandidatesOf(m, t) = IF Len(ds) > 1 THEN FlattenSeq(ts)
                           ELSE build_candidate(Label(m, <<>>), t)
  BY Zenon DEF CandidatesOf
<1>5. Covered(build_candidate(Label(m, <<>>), s), build_candidate(Label(m, <<>>), t))
  BY SameCandidate
<1> HIDE DEF cs, ds
<1>6. DOMAIN cs = 1..Len(cs) /\ DOMAIN ds = 1..Len(cs) /\ Len(cs) \in Nat
  BY <1>1, <1>2
<1>7. ASSUME NEW k \in 1..Len(cs) PROVE Covered(b(k), e(k)) /\ b(k) \in Seq(T) /\ e(k) \in Seq(T)
  <2>1. cs[k] \in Seq(Payment) /\ ds[k] \in Seq(Payment) /\ Rearranged(cs[k], ds[k])
    BY <1>1, <1>2
  <2>2. Average(cs[k]) = Average(ds[k])
    BY <2>1, Reordered DEF Rearranged
  <2>3. Covered(build_candidate(Label(m, <<Average(cs[k])>>), cs[k]),
                build_candidate(Label(m, <<Average(cs[k])>>), ds[k]))
    BY <2>1, SameCandidate
  <2>4. b(k)[1] \in T /\ e(k)[1] \in T
    OBVIOUS
  <2> HIDE DEF T
  <2>5. b(k) \in Seq(T)
    BY <2>1, <2>4, BuildsSequence
  <2>6. e(k) \in Seq(T)
    BY <2>1, <2>4, BuildsSequence
  <2> QED
    BY <2>2, <2>3, <2>5, <2>6
<1> HIDE DEF T
<1>8. /\ ss = [k \in 1..Len(cs) |-> ss[k]] /\ ts = [k \in 1..Len(cs) |-> ts[k]]
      /\ \A k \in 1..Len(cs) : ss[k] = b(k) /\ ts[k] = e(k)
  <2> HIDE DEF b, e
  <2> QED
    BY <1>6
<1> HIDE DEF b, e, ss, ts
<1>9. \A k \in 1..Len(cs) : ss[k] \in Seq(T) /\ ts[k] \in Seq(T) /\ Covered(ss[k], ts[k])
  BY <1>7, <1>8
<1>10. ss \in Seq(Seq(T)) /\ Len(ss) = Len(cs)
  BY <1>6, <1>8, <1>9, SequenceOf
<1>11. ts \in Seq(Seq(T)) /\ Len(ts) = Len(cs)
  BY <1>6, <1>8, <1>9, SequenceOf
<1>12. Covered(FlattenSeq(ss), FlattenSeq(ts))
  BY <1>9, <1>10, <1>11, FlattenCovered
<1>13. CASE Len(cs) > 1
  <2>1. Len(ds) > 1
    BY <1>1, <1>13
  <2>2. CandidatesOf(m, s) = FlattenSeq(ss)
    BY <1>3, <1>13, Zenon
  <2>3. CandidatesOf(m, t) = FlattenSeq(ts)
    BY <1>4, <2>1, Zenon
  <2> QED
    BY <1>12, <2>2, <2>3, Zenon
<1>14. CASE ~(Len(cs) > 1)
  <2>1. ~(Len(ds) > 1)
    BY <1>1, <1>14
  <2>2. CandidatesOf(m, s) = build_candidate(Label(m, <<>>), s)
    BY <1>3, <1>14, Zenon
  <2>3. CandidatesOf(m, t) = build_candidate(Label(m, <<>>), t)
    BY <1>4, <2>1, Zenon
  <2> QED
    BY <1>5, <2>2, <2>3, Zenon
<1> QED
  BY <1>13, <1>14

---------------------------------------------------------------------------
(* The charges of a merchant in rearranged transactions *)

\* Each charge of a merchant is one of its charges in rearranged transactions.
LEMMA GroupEmbeds ==
    ASSUME NEW t \in Seq(Transaction), NEW w \in Seq(Transaction), NEW p, Permutes(p, t, w),
           NEW m
    PROVE  \E q : Embeds(q, merchant_groups(t, m), merchant_groups(w, m))
<1> DEFINE r == merchant_groups(t, m)
           v == merchant_groups(w, m)
<1>1. PICK f : Picked(f, t, m)
  BY GroupPicked
<1>2. PICK g : Picked(g, w, m)
  BY GroupPicked
<1>3. /\ \A i \in 1..Len(r) : f[i] \in 1..Len(t) /\ r[i] = t[f[i]] /\ Charges(t[f[i]], m)
      /\ \A i, j \in 1..Len(r) : i # j => f[i] # f[j]
  BY <1>1 DEF Picked
<1>4. /\ \A i \in 1..Len(v) : v[i] = w[g[i]]
      /\ \A j \in 1..Len(w) : Charges(w[j], m) => \E i \in 1..Len(v) : g[i] = j
  BY <1>2 DEF Picked
<1>5. /\ Len(w) = Len(t)
      /\ \A i \in 1..Len(t) : p[i] \in 1..Len(t) /\ t[i] = w[p[i]]
      /\ \A i, j \in 1..Len(t) : i # j => p[i] # p[j]
  BY DEF Permutes
<1> HIDE DEF r, v
<1> DEFINE q == [i \in 1..Len(r) |-> CHOOSE j \in 1..Len(v) : g[j] = p[f[i]]]
<1>6. ASSUME NEW i \in 1..Len(r) PROVE q[i] \in 1..Len(v) /\ g[q[i]] = p[f[i]]
  <2>1. p[f[i]] \in 1..Len(w) /\ Charges(w[p[f[i]]], m)
    BY <1>3, <1>5
  <2>2. \E j \in 1..Len(v) : g[j] = p[f[i]]
    BY <1>4, <2>1
  <2> QED
    BY <2>2
<1>7. q \in [1..Len(r) -> 1..Len(v)]
  BY <1>6
<1> HIDE DEF q
<1>8. ASSUME NEW i \in 1..Len(r), NEW j \in 1..Len(r), i # j PROVE q[i] # q[j]
  <2>1. f[i] # f[j] /\ f[i] \in 1..Len(t) /\ f[j] \in 1..Len(t)
    BY <1>3, <1>8
  <2>2. p[f[i]] # p[f[j]]
    BY <1>5, <2>1
  <2> QED
    BY <1>6, <2>2
<1>9. ASSUME NEW i \in 1..Len(r) PROVE r[i] = v[q[i]]
  <2>1. r[i] = t[f[i]] /\ t[f[i]] = w[p[f[i]]]
    BY <1>3, <1>5
  <2>2. v[q[i]] = w[g[q[i]]] /\ g[q[i]] = p[f[i]]
    BY <1>4, <1>6
  <2> QED
    BY <2>1, <2>2
<1>10. Embeds(q, r, v)
  BY <1>7, <1>8, <1>9 DEF Embeds
<1> QED
  BY <1>10 DEF r, v

\* Rearranged transactions make the same candidates of each merchant.
LEMMA GroupsRearranged ==
    ASSUME NEW t \in Seq(Transaction), NEW w \in Seq(Transaction), Rearranged(t, w), NEW m
    PROVE  Covered(GroupCandidates(t, m), GroupCandidates(w, m))
<1> DEFINE r == merchant_groups(t, m)
           v == merchant_groups(w, m)
<1>1. r \in Seq(Payment) /\ v \in Seq(Payment)
  BY GroupCharges
<1>2. PICK p : Permutes(p, t, w)
  BY DEF Rearranged
<1>3. Rearranged(w, t)
  <2>1. Len(t) \in Nat
    OBVIOUS
  <2> QED
    BY <2>1, RearrangedBack
<1>4. PICK pb : Permutes(pb, w, t)
  BY <1>3 DEF Rearranged
<1>5. PICK q : Embeds(q, r, v)
  BY <1>2, GroupEmbeds
<1>6. PICK qb : Embeds(qb, v, r)
  BY <1>4, GroupEmbeds
<1> HIDE DEF r, v
<1>7. Len(r) \in Nat /\ Len(v) \in Nat
  BY <1>1
<1>8. Rearranged(r, v)
  BY <1>5, <1>6, <1>7, EmbedsBothWays
<1>9. Covered(CandidatesOf(m, r), CandidatesOf(m, v))
  BY <1>1, <1>8, SameCandidates
<1> QED
  BY <1>9 DEF GroupCandidates, r, v

\* A merchant without charges has no candidates.
LEMMA NoneOfNothing ==
    ASSUME NEW m
    PROVE  Len(CandidatesOf(m, <<>>)) = 0
<1>1. <<>> \in Seq(Payment) /\ Len(<<>>) = 0
  OBVIOUS
<1> DEFINE cs == _cluster_by_amount(<<>>)
<1>2. Sorted(<<>>, Cheaper(<<>>)) = <<>>
  <2>1. PICK p : Permutes(p, Sorted(<<>>, Cheaper(<<>>)), <<>>)
    BY <1>1, ByAmount
  <2>2. Sorted(<<>>, Cheaper(<<>>)) \in Seq(Payment)
    BY <1>1, ByAmount
  <2>3. Len(Sorted(<<>>, Cheaper(<<>>))) = 0
    BY <1>1, <2>1 DEF Permutes
  <2> QED
    BY <2>2, <2>3
<1>3. Len(cs) <= 0
  <2>1. Sized(Cluster(<<>>), Len(<<>>))
    BY <1>1, ClusterSizes
  <2> QED
    BY <1>1, <1>2, <2>1 DEF Sized, _cluster_by_amount
<1>4. cs \in Seq(Seq(Payment))
  BY <1>1, ClusteredByAmount
<1> HIDE DEF cs
<1>5. ~(Len(cs) > 1)
  BY <1>3, <1>4
<1>6. CandidatesOf(m, <<>>) = build_candidate(Label(m, <<>>), <<>>)
  BY <1>5, Zenon DEF CandidatesOf, cs
<1>7. build_candidate(Label(m, <<>>), <<>>) = <<>>
  <2>1. SUFFICES ASSUME build_candidate(Label(m, <<>>), <<>>) # <<>> PROVE FALSE
    OBVIOUS
  <2>2. 2 <= Len(<<>>)
    BY <1>1, <2>1, BuildOne
  <2> QED
    BY <1>1, <2>2
<1> QED
  BY <1>1, <1>6, <1>7

\* The facts of what is detected.
FactsFound(t) == {Facts(c) : c \in ToSet(detect_subscription_candidates(t))}

\* Rearranged transactions have no other candidates.
LEMMA SameFound ==
    ASSUME NEW t \in Seq(Transaction), NEW w \in Seq(Transaction), Rearranged(t, w)
    PROVE  FactsFound(t) \subseteq FactsFound(w)
<1> DEFINE r == detect_subscription_candidates(t)
           v == detect_subscription_candidates(w)
<1>1. Gathered(r, t) /\ Gathered(v, w)
  BY DetectGathered
<1> HIDE DEF r, v
<1>2. DOMAIN r = 1..Len(r) /\ DOMAIN v = 1..Len(v)
  <2>1. r \in Seq(ToSet(r)) /\ v \in Seq(ToSet(v))
    BY <1>1 DEF Gathered
  <2> QED
    BY <2>1
<1>3. ASSUME NEW i \in 1..Len(r) PROVE \E j \in 1..Len(v) : Facts(v[j]) = Facts(r[i])
  <2> DEFINE m == r[i].key.name
  <2>1. PICK k \in 1..Len(GroupCandidates(t, m)) : r[i] = GroupCandidates(t, m)[k]
    BY <1>1 DEF Gathered
  <2> HIDE DEF m
  <2>2. Covered(GroupCandidates(t, m), GroupCandidates(w, m))
    BY GroupsRearranged
  <2>3. PICK l \in 1..Len(GroupCandidates(w, m)) : Facts(GroupCandidates(w, m)[l]) = Facts(r[i])
    BY <2>1, <2>2 DEF Covered
  <2>4. merchant_groups(w, m) # <<>>
    <3>1. SUFFICES ASSUME merchant_groups(w, m) = <<>> PROVE FALSE
      OBVIOUS
    <3>2. Len(GroupCandidates(w, m)) = 0
      BY <3>1, NoneOfNothing DEF GroupCandidates
    <3>3. l \in 1..0
      BY <3>2
    <3> QED
      BY <3>3
  <2>5. PICK j \in 1..Len(v) : v[j] = GroupCandidates(w, m)[l]
    BY <1>1, <2>4 DEF Gathered
  <2> QED
    BY <2>3, <2>5
<1>4. ASSUME NEW x \in ToSet(r) PROVE \E y \in ToSet(v) : Facts(y) = Facts(x)
  <2>1. PICK i \in 1..Len(r) : x = r[i]
    BY <1>2 DEF ToSet
  <2>2. PICK j \in 1..Len(v) : Facts(v[j]) = Facts(r[i])
    BY <1>3
  <2>3. v[j] \in ToSet(v)
    BY <1>2 DEF ToSet
  <2> QED
    BY <2>1, <2>2, <2>3
<1>5. ASSUME NEW f \in FactsFound(t) PROVE f \in FactsFound(w)
  <2>1. PICK x \in ToSet(r) : f = Facts(x)
    BY DEF FactsFound, r
  <2>2. PICK y \in ToSet(v) : Facts(y) = Facts(x)
    BY <1>4
  <2> QED
    BY <2>1, <2>2 DEF FactsFound, v
<1> QED
  BY <1>5

\* Transactions in another order are rearranged.
LEMMA InOrderRearranged ==
    ASSUME NEW t \in Seq(Transaction), NEW order \in Bijection(DOMAIN t, DOMAIN t)
    PROVE  /\ InOrder(t, order) \in Seq(Transaction)
           /\ Rearranged(InOrder(t, order), t) /\ Rearranged(t, InOrder(t, order))
<1> DEFINE w == InOrder(t, order)
           n == Len(t)
<1>1. n \in Nat /\ DOMAIN t = 1..n /\ \A i \in 1..n : t[i] \in Transaction
  OBVIOUS
<1>2. order \in [1..n -> 1..n] /\ \A i, j \in 1..n : order[i] = order[j] => i = j
  BY <1>1 DEF Bijection, Injection, IsInjective
<1>3. w = [i \in 1..n |-> w[i]] /\ \A i \in 1..n : w[i] = t[order[i]]
  BY <1>1 DEF InOrder
<1> HIDE DEF w, n
<1>4. \A i \in 1..n : w[i] \in Transaction
  BY <1>1, <1>2, <1>3
<1>5. w \in Seq(Transaction) /\ Len(w) = n
  BY <1>1, <1>3, <1>4, SequenceOf
<1>6. Permutes(order, w, t)
  BY <1>1, <1>2, <1>3, <1>5 DEF Permutes, n
<1>7. Rearranged(w, t)
  BY <1>6 DEF Rearranged
<1>8. Rearranged(t, w)
  BY <1>1, <1>5, <1>7, RearrangedBack
<1> QED
  BY <1>5, <1>7, <1>8 DEF w

\* Detection sees the charges of a bank and not the order in which the store returns
\* them, the charges of one day included: in every order they make the same
\* candidates, but for the category, which is that of the last charge
\* (get_account_transactions, detect_subscription_candidates, build_candidate).
THEOREM OrderIrrelevantCorrect == PipelineSpec => OrderIrrelevant
<1>1. PipelineInit => LoopInv
  BY LoopInit
<1>2. LoopInv /\ [PipelineNext]_pipelineVars => LoopInv'
  BY LoopNext
<1>3. ASSUME LoopInv, Detect, NEW order \in Bijection(DOMAIN transactions, DOMAIN transactions)
      PROVE  {Facts(c) : c \in ToSet(candidates')} =
             {Facts(c) : c \in ToSet(detect_subscription_candidates(InOrder(transactions, order)))}
  <2> DEFINE w == InOrder(transactions, order)
  <2>1. transactions \in Seq(Transaction)
    BY <1>3 DEF LoopInv
  <2>2. w \in Seq(Transaction) /\ Rearranged(w, transactions) /\ Rearranged(transactions, w)
    BY <2>1, InOrderRearranged
  <2>3. candidates' = detect_subscription_candidates(transactions)
    BY <1>3 DEF Detect
  <2> HIDE DEF w
  <2>4. FactsFound(transactions) \subseteq FactsFound(w)
    BY <2>1, <2>2, SameFound
  <2>5. FactsFound(w) \subseteq FactsFound(transactions)
    BY <2>1, <2>2, SameFound
  <2>6. FactsFound(transactions) = FactsFound(w)
    BY <2>4, <2>5
  <2> QED
    BY <2>3, <2>6 DEF FactsFound, w
<1>4. LoopInv =>
          (Detect =>
             \A order \in Orders :
                order \in Bijection(DOMAIN transactions, DOMAIN transactions) =>
                   {Facts(c) : c \in ToSet(candidates')} =
                   {Facts(c) : c \in ToSet(detect_subscription_candidates(
                                           InOrder(transactions, order)))})
  BY <1>3
<1> QED
  BY <1>1, <1>2, <1>4, PTL DEF PipelineSpec, OrderIrrelevant

=============================================================================
