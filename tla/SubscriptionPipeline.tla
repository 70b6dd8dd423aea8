------------------------ MODULE SubscriptionPipeline ------------------------
(***************************************************************************)
(* What a sync job makes of the stored transactions of its bank            *)
(* (services/subscription_pipeline.py, subscription_ai.py,                 *)
(* detect_from_transactions in subscription_sync.py): the candidates are   *)
(* gone through once, a language model is asked about the unsure ones, and *)
(* if asking fails the rules decide alone, from the beginning.             *)
(*                                                                         *)
(* The model is external and may answer anything.                          *)
(***************************************************************************)
EXTENDS SubscriptionDetection

CONSTANTS
    Statements,   \* what the bank may have reported, as the store returns it
    MaxAICalls,   \* max_ai_calls
    Brand,        \* names that the model may give a merchant
    Guesses,      \* frequencies that the model may answer
    Sureness,     \* confidences that the model may answer, in percent
    Topics,       \* categories that the model may answer, "" for none
    Orders        \* the orders in which charges may come, as permutations

Frequencies == {"weekly", "biweekly", "monthly", "quarterly", "yearly"}

ASSUME PipelineAssumption ==
    /\ Statements \subseteq Seq(Transaction)
    /\ MaxAICalls \in Nat
    /\ Guesses \subseteq Frequencies \cup {"unknown"}
    /\ Sureness \subseteq 0..99
    /\ Topics \subseteq Category \cup {""}

VARIABLES
    transactions,
    withAI,      \* model_call is not None
    candidates,  \* not gone through
    asked,       \* candidates the model was asked about
    accepted,
    pc           \* "called", "loop" or "done"

pipelineVars == <<transactions, withAI, candidates, asked, accepted, pc>>

\* classify_candidate_with_ai: a name and a category or none, a frequency or
\* unknown; an answer that cannot be parsed counts as a no.
Answers ==
    [name : Brand \cup {""}, frequency : Guesses, confidence : Sureness, category : Topics]

PipelineInit ==
    /\ transactions \in Statements
    /\ withAI = TRUE
    /\ candidates = <<>>
    /\ asked = <<>>
    /\ accepted = <<>>
    /\ pc = "called"

Detect ==
    /\ pc = "called"
    /\ candidates' = detect_subscription_candidates(transactions)
    /\ pc' = "loop"
    /\ UNCHANGED <<transactions, withAI, asked, accepted>>

high_threshold == IF withAI THEN 85 ELSE 65

Found(c, method) ==
    [label |-> c.label, key |-> c.key, amount |-> c.amount, frequency |-> c.frequency,
     last_charged |-> c.last_charged, next_expected |-> c.next_expected,
     category |-> c.category, occurrences |-> c.occurrences, confidence |-> c.confidence,
     detection_method |-> method]

\* Mutant: the name of the model replaces the label, price and all.
merge_renamed(c, answer) ==
    [Found(c, "hybrid") EXCEPT
        !.label = IF answer.name = "" THEN c.label ELSE Label(answer.name, <<>>),
        !.frequency = IF answer.frequency = "unknown" THEN @ ELSE answer.frequency,
        !.confidence = Max({@, answer.confidence}),
        !.category = IF answer.category = "" THEN @ ELSE answer.category]

\* A label that is not the key has the price of its cluster; so has that of a
\* nameless merchant's cluster, but there it is the key.
merge_candidate_and_ai(c, answer) ==
    LET label == IF answer.name = "" THEN c.label ELSE Label(answer.name, <<>>)
    IN  [Found(c, "hybrid") EXCEPT
            !.label = IF c.label = c.key THEN label
                      ELSE [label EXCEPT !.prices = Append(@, c.amount)],
            !.frequency = IF answer.frequency = "unknown" THEN @ ELSE answer.frequency,
            !.confidence = Max({@, answer.confidence}),
            !.category = IF answer.category = "" THEN @ ELSE answer.category]

Sure == pc = "loop" /\ candidates # <<>> /\ Head(candidates).confidence >= high_threshold

Worth(c) == withAI /\ c.confidence >= 55 /\ Len(asked) < MaxAICalls

Unsure ==
    pc = "loop" /\ candidates # <<>> /\ Head(candidates).confidence < high_threshold

AcceptByRules ==
    /\ Sure
    /\ accepted' = Append(accepted, Found(Head(candidates), "rules"))
    /\ candidates' = Tail(candidates)
    /\ UNCHANGED <<transactions, withAI, asked, pc>>

PassOver ==
    /\ Unsure
    /\ ~Worth(Head(candidates))
    /\ candidates' = Tail(candidates)
    /\ UNCHANGED <<transactions, withAI, asked, accepted, pc>>

Ask ==
    /\ Unsure
    /\ Worth(Head(candidates))
    /\ asked' = Append(asked, Head(candidates))
    /\ candidates' = Tail(candidates)
    /\ UNCHANGED <<transactions, withAI, pc>>

\* is_subscription; the merged confidence decides.
ModelSaysYes(answer) ==
    LET merged == merge_candidate_and_ai(Head(candidates), answer)
    IN  /\ Ask
        /\ accepted' = IF merged.confidence >= 70 THEN Append(accepted, merged) ELSE accepted

ModelSaysNo == Ask /\ UNCHANGED accepted

\* Mutant: the loop goes on without the model.
GoOnWithoutAI ==
    /\ withAI' = FALSE
    /\ candidates' = Tail(candidates)
    /\ UNCHANGED <<transactions, asked, accepted, pc>>

StartOver ==
    /\ withAI' = FALSE
    /\ candidates' = <<>>
    /\ asked' = <<>>
    /\ accepted' = <<>>
    /\ pc' = "called"
    /\ UNCHANGED transactions

\* No key, no answer in time, a confidence that is no number.
ModelFails == Unsure /\ Worth(Head(candidates)) /\ StartOver

Finish ==
    /\ pc = "loop"
    /\ candidates = <<>>
    /\ accepted' = Sorted(accepted, Surer(accepted))
    /\ pc' = "done"
    /\ UNCHANGED <<transactions, withAI, candidates, asked>>

PipelineNext ==
    \/ Detect \/ AcceptByRules \/ PassOver \/ ModelSaysNo \/ ModelFails \/ Finish
    \/ \E answer \in Answers : ModelSaysYes(answer)

PipelineSpec == PipelineInit /\ [][PipelineNext]_pipelineVars

---------------------------------------------------------------------------
(* Properties *)

ChargesOf(m) == merchant_groups(transactions, m)

MonthOf(d) == 12 * d[1] + d[2]

\* A charge on this day of the month, or on the last day of a shorter month.
OnDay(d, day) == d[3] = Min({day, DaysIn(d[1], d[2])})

\* One charge in each of some consecutive months, all on the same day.
Monthly(txns, day) ==
    LET months == {MonthOf(txns[i].date) : i \in DOMAIN txns}
    IN  /\ Len(txns) >= 2
        /\ \A i \in DOMAIN txns : OnDay(txns[i].date, day)
        /\ months = Min(months)..Max(months)
        /\ Cardinality(months) = Len(txns)

\* All of a candidate but its category, which is that of the charge that comes last
\* among those of the last day.
Facts(c) ==
    [label |-> c.label, key |-> c.key, amount |-> c.amount, frequency |-> c.frequency,
     last_charged |-> c.last_charged, next_expected |-> c.next_expected,
     occurrences |-> c.occurrences, confidence |-> c.confidence]

InOrder(txns, order) == [i \in DOMAIN txns |-> txns[order[i]]]

\* Detection sees the charges and not their order, and only the category may depend
\* on it: the store's query orders by date alone, so charges of one day come in any
\* order, and another one at every sync (get_account_transactions,
\* detect_subscription_candidates).
OrderIrrelevant ==
    [][Detect =>
         \A order \in Orders :
            order \in Bijection(DOMAIN transactions, DOMAIN transactions) =>
               {Facts(c) : c \in ToSet(candidates')} =
               {Facts(c) : c \in ToSet(detect_subscription_candidates(
                                       InOrder(transactions, order)))}]_pipelineVars

\* An alert comes before the charge: a merchant that charges on one day of the
\* month is expected on that day of the next month, never later and at most
\* three days earlier, at the end of a February (_add_months).
ForecastInTime ==
    \A i \in DOMAIN accepted :
        LET c == accepted[i]
            month == MonthOf(c.last_charged)
            next == <<month \div 12, (month % 12) + 1>>
        IN  \A day \in 1..31 :
                Monthly(ChargesOf(c.key.name), day) /\ c.occurrences = Len(ChargesOf(c.key.name)) =>
                    LET due == DayNumber(<<next[1], next[2], Min({day, DaysIn(next[1], next[2])})>>)
                    IN  c.next_expected \in (due - 3)..due

\* "sibling clusters need distinct labels", whatever the model calls them
\* (merge_candidate_and_ai), and are told apart by their amounts too
\* (_cluster_by_amount): upsert_detected_subscriptions relies on both.  Without a
\* name they are siblings no more, each with a key of its own, and the model may
\* give two of them one label (build_candidate).
SiblingsDistinct ==
    \A i, j \in DOMAIN accepted :
        i # j /\ accepted[i].key.name = accepted[j].key.name =>
            /\ accepted[i].amount # accepted[j].amount
            /\ IF accepted[i].key.name = Nameless
               THEN accepted[i].key # accepted[j].key
               ELSE accepted[i].label # accepted[j].label

\* A charge of one amount every month is never lost to an outage of the model,
\* and with the model only to its answer or to the budget of calls
\* (run_subscription_pipeline, detect_from_transactions).
SteadyFound ==
    pc = "done" =>
        \A m \in Merchant \ Hinted :
            LET txns == ChargesOf(m)
            IN  /\ \E day \in 1..31 : Monthly(txns, day)
                /\ \A i, j \in DOMAIN txns : txns[i].amount = txns[j].amount
                => \/ \E i \in DOMAIN accepted : accepted[i].key.name = m
                   \/ withAI /\ \E i \in DOMAIN asked : asked[i].key.name = m
                   \/ withAI /\ Len(asked) = MaxAICalls

===========================================================================
