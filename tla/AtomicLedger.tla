---------------------------- MODULE AtomicLedger ----------------------------
(***************************************************************************)
(* What the ledger promises, with no transactions, versions or retries: a  *)
(* flow either does not happen or happens at one instant, at most once per *)
(* idempotency key and per journal event id, balanced in every currency,   *)
(* on open accounts of the right currency, and never leaving a             *)
(* non-overdraft account negative.  What a request contains is left to the *)
(* parameters, which module Ledger defines.                                *)
(***************************************************************************)
EXTENDS Integers, Sequences

CONSTANTS
    Accounts, Requests,
    AccountsOf(_),          \* the accounts a request touches
    DebitOf(_, _),          \* what it adds to an account's debits
    CreditOf(_, _),         \* ... and credits
    Events(_),              \* the event ids of its journals
    Valid(_),               \* its journals balance in every currency
    CurrencyMatches(_, _),  \* its entries carry the account's currency
    Overdrawn(_, _, _),     \* an account may not have these totals
    KeysIn(_), EventsIn(_)  \* the keys and event ids of posted flows

VARIABLES
    opened,   \* the accounts that exist
    book,     \* posted debits and credits of each account
    history   \* the flows posted, in commit order

avars == <<opened, book, history>>

AInit ==
    /\ opened \subseteq Accounts
    /\ book = [a \in Accounts |-> [debits |-> 0, credits |-> 0]]
    /\ history = <<>>

OpenAccount(a) ==
    /\ a \notin opened
    /\ opened' = opened \cup {a}
    /\ UNCHANGED <<book, history>>

Posted(r, a) ==
    [debits |-> book[a].debits + DebitOf(r, a),
     credits |-> book[a].credits + CreditOf(r, a)]

Post(r) ==
    /\ history' = Append(history, r)
    /\ r.key \notin KeysIn(history)
    /\ Events(r) \cap EventsIn(history) = {}
    /\ Valid(r)
    /\ AccountsOf(r) \subseteq opened
    /\ \A a \in AccountsOf(r) :
          /\ CurrencyMatches(r, a)
          /\ ~ Overdrawn(a, Posted(r, a).debits, Posted(r, a).credits)
    /\ book' = [a \in Accounts |-> IF a \in AccountsOf(r) THEN Posted(r, a)
                                                          ELSE book[a]]
    /\ UNCHANGED opened

ANext ==
    \/ \E a \in Accounts : OpenAccount(a)
    \/ \E r \in Requests : Post(r)

ASpec == AInit /\ [][ANext]_avars
=============================================================================
