---------------------------- MODULE MCCalculator ----------------------------
(***************************************************************************)
(* Six models of one provider, whole percents of 10,000 basis points, and  *)
(* a link that selects all six evenly.                                     *)
(***************************************************************************)
EXTENDS CalculatorPage

Offer(id) == [id |-> id, provider |-> 1, model |-> id, direct |-> TRUE, input |-> 10, output |-> 20]

SixCatalogs ==
    <<[offers |-> [id \in 1..6 |-> Offer(id)],
       plans |-> <<[id |-> 1, provider |-> 1, cost |-> 20, individual |-> TRUE, models |-> <<>>,
                    evidence |-> "dynamic_unknown", tokens |-> None]>>]>>

SixWorkload == [conversations |-> 1, messages |-> 1, input |-> 3, output |-> 1, days |-> 30]

SixLinks ==
    {[provider |-> 1, plan |-> 1, workload |-> SixWorkload, old |-> None,
      ids |-> [i \in 1..6 |-> i], weights |-> [i \in 1..6 |-> IF i = 6 THEN 1670 ELSE 1666]]}
=============================================================================
