----------------------- MODULE SubscriptionDetection -----------------------
(***************************************************************************)
(* How recurring charges are found in the stored transactions of a bank    *)
(* (services/subscription_detector.py), as operators.  Amounts are cents,  *)
(* scores are hundredths, the confidence is a percentage; averages and     *)
(* deviations are compared without division, where the code has floats     *)
(* (an average that ends in half a cent may round either way there).       *)
(* A date is <<year, month, day>>, a difference of dates a number of days. *)
(*                                                                         *)
(* A transaction is a record of name, amount, date and category.  A label  *)
(* is a name with the prices that were suffixed to it.                     *)
(***************************************************************************)
EXTENDS Integers, Sequences, SequencesExt, FiniteSetsExt

CONSTANTS
    Name,        \* merchant names as banks write them
    Merchant,
    Nameless,    \* what is left of "POS DEBIT 1234": the empty name
    Category,    \* of a transaction, "Unknown" included
    Canonical,   \* Canonical[n]: what normalize_merchant makes of n
    Keyworded,   \* merchants with one of SUBSCRIPTION_KEYWORDS in their name
    Hinted       \* merchants with one of NON_SUBSCRIPTION_HINTS

ASSUME DetectionAssumption ==
    /\ Canonical \in [Name -> Merchant]
    /\ Keyworded \subseteq Merchant
    /\ Hinted \subseteq Merchant

---------------------------------------------------------------------------
(* Dates *)

Leap(y) == (y % 4 = 0 /\ y % 100 # 0) \/ y % 400 = 0

DaysIn(y, m) ==
    CASE m = 2 -> IF Leap(y) THEN 29 ELSE 28
      [] m \in {4, 6, 9, 11} -> 30
      [] OTHER -> 31

\* Python's calendar.
MAXYEAR == 9999

Date == {d \in (1..MAXYEAR) \X (1..12) \X (1..31) : d[3] <= DaysIn(d[1], d[2])}

Transaction == [name : Name, amount : Int, date : Date, category : Category]

DayNumber(d) ==
    LET y == d[1] - 1
    IN  365 * y + y \div 4 - y \div 100 + y \div 400
        + << 0, 31, 59, 90, 120, 151, 181, 212, 243, 273, 304, 334 >>[d[2]]
        + (IF d[2] > 2 /\ Leap(d[1]) THEN 1 ELSE 0) + d[3]

\* Mutant: a month is thirty days.
AddThirties(d, n) == DayNumber(d) + 30 * n

\* _add_months, as a day number: the same day, or the last of a shorter month.
AddMonths(d, n) ==
    LET y == d[1] + (d[2] + n - 1) \div 12
        m == ((d[2] + n - 1) % 12) + 1
    IN  DayNumber(<<y, m, Min({d[3], DaysIn(y, m)})>>)

---------------------------------------------------------------------------
(* Scores *)

SumSeq(s) ==
    LET sum[i \in 0..Len(s)] == IF i = 0 THEN 0 ELSE sum[i - 1] + s[i]
    IN  sum[Len(s)]

Distance(x, y) == IF x > y THEN x - y ELSE y - x

\* The largest deviation of the values from their average, times their number.
Deviation(s) ==
    LET total == SumSeq(s)
    IN  Max({Distance(Len(s) * s[i], total) : i \in DOMAIN s})

\* The score of the first tier whose percentage of the average covers it.
Tier(s, tiers) ==
    LET deviation == Deviation(s)
        total == SumSeq(s)
    IN  Max({0} \cup {t[2] : t \in {u \in tiers : 100 * deviation <= u[1] * total}})

amount_consistency_score(amounts) ==
    IF Len(amounts) < 2 \/ SumSeq(amounts) <= 0 THEN 0
    ELSE Tier(amounts, {<<5, 100>>, <<10, 90>>, <<20, 75>>, <<30, 50>>})

interval_consistency_score(intervals) ==
    IF intervals = <<>> \/ SumSeq(intervals) = 0 THEN 0
    ELSE Tier(intervals, {<<7, 100>>, <<15, 85>>, <<25, 65>>, <<35, 45>>})

\* Of n intervals that make t days together.
infer_frequency(t, n) ==
    CASE 5 * n <= t /\ t < 10 * n -> "weekly"
      [] 10 * n <= t /\ t < 21 * n -> "biweekly"
      [] 21 * n <= t /\ t < 41 * n -> "monthly"
      [] 41 * n <= t /\ t < 106 * n -> "quarterly"
      [] 106 * n <= t /\ t <= 380 * n -> "yearly"
      [] OTHER -> "none"

\* round(t / n): a tie goes to the even side.
Rounded(t, n) ==
    LET q == t \div n
    IN  CASE 2 * (t % n) < n -> q
          [] 2 * (t % n) > n -> q + 1
          [] OTHER -> q + (q % 2)

\* 40, 35 and 15 percent for amounts, intervals and the number of charges, 10
\* for a keyword, less 25 for a hint: in hundredths of a percent.
Weighed(merchant, amounts, intervals) ==
    40 * amount_consistency_score(amounts)
    + 35 * interval_consistency_score(intervals)
    + 250 * Min({Len(amounts), 6})
    + (IF merchant \in Keyworded THEN 1000 ELSE 0)
    - (IF merchant \in Hinted THEN 2500 ELSE 0)

Confidence(merchant, amounts, intervals) ==
    (Max({0, Min({Weighed(merchant, amounts, intervals), 9900})}) + 50) \div 100

---------------------------------------------------------------------------
(* Candidates *)

\* Python's sort: stable; the order is a set of pairs.
Insert(s, x, before) ==
    InsertAt(s, Cardinality({i \in DOMAIN s : <<x, s[i]>> \notin before}) + 1, x)

Sorted(s, before) ==
    LET upTo[i \in 0..Len(s)] ==
            IF i = 0 THEN <<>> ELSE Insert(upTo[i - 1], s[i], before)
    IN  upTo[Len(s)]

Amounts(txns) == [i \in DOMAIN txns |-> txns[i].amount]

\* The average in cents.
Average(txns) == (2 * SumSeq(Amounts(txns)) + Len(txns)) \div (2 * Len(txns))

Earlier(txns) ==
    {p \in ToSet(txns) \X ToSet(txns) : DayNumber(p[1].date) < DayNumber(p[2].date)}

next_expected(frequency, last, intervals) ==
    CASE frequency = "monthly" -> AddMonths(last, 1)
      [] frequency = "quarterly" -> AddMonths(last, 3)
      [] frequency = "yearly" -> AddMonths(last, 12)
      [] OTHER -> DayNumber(last) + Rounded(SumSeq(intervals), Len(intervals))

Label(name, prices) == [name |-> name, prices |-> prices]

\* (base_merchant or merchant).lower(): without a name the label itself.
merchant_key(label) ==
    IF label.name = Nameless THEN label ELSE Label(label.name, <<>>)

\* The candidate of some charges of one merchant, if they make one.
build_candidate(label, charges) ==
    LET txns == Sorted(charges, Earlier(charges))
        day == [i \in DOMAIN txns |-> DayNumber(txns[i].date)]
        intervals == [i \in 1..(Len(txns) - 1) |-> day[i + 1] - day[i]]
        frequency == infer_frequency(SumSeq(intervals), Len(intervals))
        last == txns[Len(txns)].date
    IN  IF Len(txns) < 2 \/ frequency = "none" THEN <<>>
        ELSE <<[label |-> label,
                key |-> merchant_key(label),
                amount |-> Average(txns),
                frequency |-> frequency,
                last_charged |-> last,
                next_expected |-> next_expected(frequency, last, intervals),
                category |-> txns[Len(txns)].category,
                occurrences |-> Len(txns),
                confidence |-> Confidence(label.name, Amounts(txns), intervals)]>>

Cheaper(txns) == {p \in ToSet(txns) \X ToSet(txns) : p[1].amount < p[2].amount}

\* Within a fifth of the average of the cluster.
Joins(t, cluster) ==
    LET s == SumSeq(Amounts(cluster))
    IN  s > 0 /\ 5 * Distance(Len(cluster) * t.amount, s) <= s

WithNext(clusters, t) ==
    IF clusters # <<>> /\ Joins(t, Last(clusters))
    THEN Append(Front(clusters), Append(Last(clusters), t))
    ELSE Append(clusters, <<t>>)

Cluster(txns) ==
    LET upTo[i \in 0..Len(txns)] ==
            IF i = 0 THEN <<>> ELSE WithNext(upTo[i - 1], txns[i])
    IN  upTo[Len(txns)]

\* Mutant: the charges are clustered in the order they come.
_cluster_unsorted(txns) == Cluster(txns)

_cluster_by_amount(txns) == Cluster(Sorted(txns, Cheaper(txns)))

\* One price needs no suffix; several plans of a merchant get their price each.
CandidatesOf(merchant, txns) ==
    LET clusters == _cluster_by_amount(txns)
    IN  IF Len(clusters) > 1
        THEN FlattenSeq([i \in DOMAIN clusters |->
                 build_candidate(Label(merchant, <<Average(clusters[i])>>), clusters[i])])
        ELSE build_candidate(Label(merchant, <<>>), txns)

Surer(found) ==
    {p \in ToSet(found) \X ToSet(found) :
        \/ p[1].confidence > p[2].confidence
        \/ p[1].confidence = p[2].confidence /\ p[1].amount > p[2].amount}

\* A charge of a merchant; refunds are none.
Charges(t, merchant) == t.amount > 0 /\ Canonical[t.name] = merchant

merchant_groups(transactions, merchant) ==
    FlattenSeq([i \in DOMAIN transactions |->
        IF Charges(transactions[i], merchant) THEN <<transactions[i]>> ELSE <<>>])

\* Merchant by merchant, in the order they first appear.
AllCandidates(transactions) ==
    FlattenSeq([i \in DOMAIN transactions |->
        LET merchant == Canonical[transactions[i].name]
        IN  IF /\ Charges(transactions[i], merchant)
               /\ \A j \in 1..(i - 1) : ~Charges(transactions[j], merchant)
            THEN CandidatesOf(merchant, merchant_groups(transactions, merchant))
            ELSE <<>>])

detect_subscription_candidates(transactions) ==
    LET found == AllCandidates(transactions) IN Sorted(found, Surer(found))
===========================================================================
