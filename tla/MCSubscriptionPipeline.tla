---------------------- MODULE MCSubscriptionPipeline ----------------------
(* Instances of SubscriptionPipeline for TLC. *)
EXTENDS SubscriptionPipeline

\* "Tectra" writes its name in two ways, "Netflix" is a keyword, "Rent" a hint, and
\* of the fourth nothing is left.
CanonicalNames ==
    [n \in Name |-> CASE n \in {"Tectra", "TECTRA*88"} -> "tectra"
                      [] n = "Netflix" -> "netflix"
                      [] n = "Rent" -> "rent"
                      [] n = "POS DEBIT 1234" -> Nameless]

\* Every order of three charges or fewer; of more, the opposite one and the one that
\* moves the first to the end.
OrdersTried ==
    UNION {Permutations(1..n) : n \in 1..3}
    \cup {[i \in 1..n |-> n + 1 - i] : n \in 4..12}
    \cup {[i \in 1..n |-> (i % n) + 1] : n \in 4..12}

\* Ninety days over the end of a year and of a February, the last one newest.
Days == << <<2023, 2, 28>>, <<2023, 2, 21>>, <<2023, 1, 31>>, <<2023, 1, 31>>,
           <<2022, 12, 31>>, <<2022, 11, 30>> >>

\* The two charges of one day differ in their category.
Categories == <<"Shops", "Shops", "Shops", "Music", "Shops", "Shops">>

Nothing == [i \in DOMAIN Days |-> 0]

On(days, amounts) ==
    {f \in [DOMAIN Days -> amounts \cup {0}] : \A i \in DOMAIN Days \ days : f[i] = 0}

\* Each name with its charges (refunds, where negative) on some of the days.
Listed(f, n, i) ==
    IF f[i] = 0 THEN <<>>
    ELSE <<[name |-> n, amount |-> f[i], date |-> Days[i], category |-> Categories[i]]>>

\* One price, or two, without a name.
Unnamed(f) == FlattenSeq([i \in DOMAIN Days |-> Listed(f, "POS DEBIT 1234", i)])

Statement(tectra, tectra88, netflix, rent) ==
    FlattenSeq([i \in DOMAIN Days |->
        Listed(rent, "Rent", i) \o Listed(tectra, "Tectra", i)
        \o Listed(tectra88, "TECTRA*88", i) \o Listed(netflix, "Netflix", i)])

\* Six weeks in a row.
Weekly == [i \in 1..6 |-> [name |-> "Netflix", amount |-> 1000, category |-> "Music",
                           date |-> IF i <= 4 THEN <<2023, 2, 35 - 7 * i>>
                                    ELSE <<2023, 1, 66 - 7 * i>>]]

\* One merchant with any charges; two with the month ends, one of them with two
\* plans; one without a name; a refund; weeks.
BankStatements ==
    {Weekly}
    \cup {Statement(f, Nothing, Nothing, Nothing) : f \in On(1..5, {1000, 1200, 1440})}
    \cup {Statement(Nothing, Nothing, f, Nothing) : f \in On(1..6, {1000, 1300})}
    \cup {Statement(Nothing, Nothing, Nothing, f) : f \in On(1..6, {1000, 1300})}
    \cup {Unnamed(f) : f \in On(1..6, {1000, 1600})}
    \cup {Statement(f, g, Nothing, h) : f \in On({1, 3, 5}, {1000}),
              g \in On({1, 3, 5}, {1600}), h \in On({1, 3, 5}, {999, 1300})}
    \cup {Statement(Nothing, f, g, Nothing) :
              f \in On({1, 3, 5}, {999, 1000}), g \in On({1, 3, 5}, {1000, 1400})}
    \cup {Statement(f, g, Nothing, Nothing) :
              f \in On({1, 2, 5}, {1000}), g \in On({3, 5, 6}, {-1000, 1000})}
===========================================================================
