----------------------- MODULE SubscriptionArithmetic -----------------------
(***************************************************************************)
(* The arithmetic that compares a subscription with paying by token        *)
(* (catalog/subscription-api-calculator.ts and the rounding of             *)
(* calculator.ts and calculator-state.ts).  Money is in the smallest unit  *)
(* that is computed with, a rate is for Million tokens, and a share is in  *)
(* basis points.  The code computes with BigInt and refuses what a safe    *)
(* integer cannot hold.                                                    *)
(***************************************************************************)
EXTENDS Integers, Nothing

CONSTANTS
    BasisPoints,  \* the basis points of a whole
    Million,      \* the tokens that a rate is for
    MaxSafe       \* the largest safe integer

ASSUME ArithmeticAssumption ==
    /\ BasisPoints \in Nat \ {0} /\ Million \in Nat \ {0} /\ MaxSafe \in Nat
    /\ BasisPoints % 2 = 0 /\ Million % 2 = 0

(* n / d to the nearest integer, a half upwards. *)
Rounded(n, d) == (n + d \div 2) \div d

Ceiling(n, d) == (n + d - 1) \div d

IsSafe(n) == n \in -MaxSafe..MaxSafe

---------------------------------------------------------------------------
Messages(w) == w.conversations * w.messages * w.days

Derived(w) ==
    [messages |-> Messages(w), input |-> Messages(w) * w.input, output |-> Messages(w) * w.output]

(* Each direction is rounded before the sum. *)
ApiCost(derived, rates) ==
    Rounded(derived.input * rates.input, Million) + Rounded(derived.output * rates.output, Million)

Cheaper(plan, cost) ==
    IF plan < cost THEN "subscription" ELSE IF plan > cost THEN "api" ELSE "equal"

\* Slip: the messages of a day that is not quite enough.
BreakEven_Floor(plan, messages, cost, days) == (plan * messages) \div (cost * days)

(* The messages a day from which the plan costs no more; for positive cost, messages and days. *)
BreakEven(plan, messages, cost, days) == Ceiling(plan * messages, cost * days)

Efficiency(plan, cost) == Rounded((cost - plan) * BasisPoints, cost)

CostPerMessage(messages, cost) == Rounded(cost, messages)

(* compareSubscriptionWithApi *)
Compared(plan, messages, cost, days) ==
    [difference |-> cost - plan,
     cheaper |-> Cheaper(plan, cost),
     efficiency |-> IF cost > 0 THEN Efficiency(plan, cost) ELSE None,
     perMessage |-> IF messages > 0 /\ cost > 0 THEN CostPerMessage(messages, cost) ELSE None,
     breakEven |-> IF days > 0 /\ messages > 0 /\ cost > 0 THEN BreakEven(plan, messages, cost, days) ELSE None]

(* The four answers of a comparison say the same of a plan, for perDay messages a day. *)
Agrees(result, perDay) ==
    /\ result.cheaper = "subscription" <=> result.difference > 0
    /\ result.cheaper = "api" <=> result.difference < 0
    /\ result.breakEven # None => (result.cheaper = "api" <=> perDay < result.breakEven)
    /\ result.efficiency # None =>
          /\ result.efficiency > 0 => result.difference > 0
          /\ result.efficiency < 0 => result.difference < 0
=============================================================================
