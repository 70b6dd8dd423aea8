----------------------- MODULE MCSubscriptionUpsert -----------------------
(* Instances of SubscriptionUpsert for TLC. *)
EXTENDS SubscriptionUpsert

CONSTANTS b1, b2

Plan(name, prices, amount) ==
    [label |-> [name |-> name, prices |-> prices], key |-> "tectra", amount |-> amount]

\* One plan, and after a jump of its price as another bank spells the merchant;
\* two plans, which are close enough to be taken for a change of price; two that the
\* model gave names, and with the names swapped.
Reports ==
    { << Plan("Tectra", <<>>, 1000) >>,
      << [Plan("Tectra", <<>>, 4000) EXCEPT !.key = "tec tra"] >>,
      << Plan("Tectra", <<1300>>, 1300), Plan("Tectra", <<1000>>, 1000) >>,
      << Plan("Tectra", <<>>, 1000), Plan("Tectra Pro", <<>>, 1300) >>,
      << Plan("Tectra Pro", <<>>, 1000), Plan("Tectra", <<>>, 1300) >> }

Typed == { [name |-> "Tectra", prices |-> <<>>], [name |-> "Tectra", prices |-> <<1000>>] }
===========================================================================
