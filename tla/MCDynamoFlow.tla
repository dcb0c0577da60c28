--------------------------- MODULE MCDynamoFlow ---------------------------
(***************************************************************************)
(* Instances of DynamoFlow.  Account 1 is an external funding account that *)
(* may go negative, account 2 a player wallet, account 3 the house, all in *)
(* USD; account 4 is a EUR wallet.                                         *)
(***************************************************************************)
EXTENDS DynamoFlow, TLC

CONSTANTS h1, h2

MCHandlers == {h1, h2}
HandlerSymmetry == Permutations(MCHandlers)

MCInfo(a) ==
    [currency |-> IF a = 4 THEN "EUR" ELSE "USD",
     normal |-> IF a = 3 THEN "CREDIT" ELSE "DEBIT",
     allowNegative |-> a \in {1, 3}]

MCAccounts == 1 .. 3
MCAccountsInfo == [a \in MCAccounts |-> MCInfo(a)]

E(a, ccy, dir, amt) ==
    [account |-> a, currency |-> ccy, direction |-> dir, amount |-> amt]

\* One balanced journal: move amt from one USD account to another.
Move(event, from, to, amt) ==
    [event |-> event,
     entries |-> <<E(to, "USD", "DEBIT", amt), E(from, "USD", "CREDIT", amt)>>]

Flow(key, steps) == [key |-> key, steps |-> steps]

Deposit == Flow("deposit", <<Move("e1", 1, 2, 2)>>)
Bet == Flow("bet", <<Move("e3", 2, 3, 1)>>)

\* Negative half-way: only the final balance is checked.  Only one of Bet
\* and BetThenFund can be paid from one Deposit.
BetThenFund == Flow("betThenFund", <<Move("e4", 2, 3, 3), Move("e5", 1, 2, 1)>>)

\* The key of Deposit with another payload, whose two journals share an event
\* id, and the event id of Deposit under another key.
KeyReuse == Flow("deposit", <<Move("e6", 1, 2, 1), Move("e6", 1, 2, 1)>>)
EventReuse == Flow("again", <<Move("e1", 1, 2, 1)>>)

ContendedRequests == {Deposit, Bet, BetThenFund, EventReuse}

\* Requests the orchestrator refuses, each for one reason.
WrongCurrency ==
    Flow("ccy", <<[event |-> "e7",
                   entries |-> <<E(4, "USD", "DEBIT", 1), E(1, "USD", "CREDIT", 1)>>]>>)
Unbalanced ==
    Flow("unb", <<[event |-> "e8",
                   entries |-> <<E(2, "USD", "DEBIT", 2), E(1, "USD", "CREDIT", 1)>>]>>)
\* Equal totals, but each currency is one-sided.
CrossCurrency ==
    Flow("fx", <<[event |-> "e13",
                  entries |-> <<E(4, "EUR", "DEBIT", 1), E(1, "USD", "CREDIT", 1)>>]>>)
NoEventId == Flow("noevent", <<Move("", 1, 2, 1)>>)
BadAmount == Flow("amount", <<Move("e9", 1, 2, 0)>>)
TooLarge == Flow("large", <<Move("e10", 1, 2, 1), Move("e11", 2, 1, 1), Move("e12", 1, 2, 1)>>)
NoSteps == Flow("empty", <<>>)

RefusedAccounts == {1, 2, 4}
RefusedInfo == [a \in RefusedAccounts |-> MCInfo(a)]
DoubtfulRequests ==
    {Deposit, KeyReuse, EventReuse,
     WrongCurrency, Unbalanced, CrossCurrency, NoEventId, BadAmount, TooLarge, NoSteps}
=============================================================================
