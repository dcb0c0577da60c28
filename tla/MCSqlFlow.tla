---------------------------- MODULE MCSqlFlow ----------------------------
(***************************************************************************)
(* Instances of SqlFlow.  Accounts 1 and 2 are in USD, 3 and 4 in EUR;     *)
(* 2 is a player wallet, the others may go negative.                       *)
(***************************************************************************)
EXTENDS SqlFlow, TLC

CONSTANTS h1, h2

MCHandlers == {h1, h2}

MCAccounts == 1 .. 4
MCInfo ==
    [a \in MCAccounts |-> [currency |-> IF a <= 2 THEN "USD" ELSE "EUR",
                           normal |-> "DEBIT", allowNegative |-> a # 2]]

Entry(a, ccy, dir, amt) ==
    [account |-> a, currency |-> ccy, direction |-> dir, amount |-> amt]

Move(event, ccy, from, to, amt) ==
    [event |-> event,
     entries |-> <<Entry(to, ccy, "DEBIT", amt), Entry(from, ccy, "CREDIT", amt)>>]

Flow(key, steps) == [key |-> key, steps |-> steps]

\* Withdraw and Reuse have no account in common, and the same event ids in
\* opposite orders.
Withdraw == Flow("withdraw", <<Move("e1", "USD", 2, 1, 1), Move("e2", "USD", 2, 1, 1)>>)
Reuse == Flow("reuse", <<Move("e2", "EUR", 3, 4, 1), Move("e1", "EUR", 3, 4, 1)>>)

\* Refused: a zero amount, an account of another currency, a one-sided journal.
BadAmount == Flow("amount", <<Move("e5", "USD", 1, 2, 0)>>)
WrongCurrency == Flow("ccy", <<Move("e6", "USD", 1, 3, 1)>>)
OneSided == Flow("side", <<[event |-> "e7", entries |-> <<Entry(1, "USD", "DEBIT", 1)>>]>>)

Exchange(key, event, from, to, toAmount, r) ==
    [key |-> key, event |-> event, from |-> from, to |-> to,
     fromCounter |-> IF from <= 2 THEN 1 ELSE 4, toCounter |-> IF to <= 2 THEN 1 ELSE 4,
     fromAmount |-> 1, toAmount |-> toAmount, rate |-> r]

\* Funds the wallet; names the accounts in the opposite order of Withdraw.
AtMarket == Exchange("market", "market:exchange", 3, 2, 2, 0)

\* Refused: another rate than the amounts', a rate that is none, one currency,
\* no amount.
WrongRate == Exchange("wrong", "wrong:exchange", 2, 4, 2, 3)
BadRate == Exchange("bad", "bad:exchange", 2, 3, 2, -1)
SameCurrency == Exchange("same", "same:exchange", 4, 3, 1, 1)
NoAmount == Exchange("none", "none:exchange", 2, 3, 0, 2)

MCExchanges == {AtMarket, WrongRate, BadRate, SameCurrency, NoAmount}
MCRequests == {Withdraw, Reuse, BadAmount, WrongCurrency, OneSided}
                  \cup {FlowOf(x) : x \in MCExchanges}
=============================================================================
