------------------------------- MODULE Ledger -------------------------------
(***************************************************************************)
(* The domain model of dledger-go (internal/ledger): accounts, journals,   *)
(* the accounting rule a journal must satisfy, and what a flow adds to     *)
(* each balance.  Pure operators only; every other module of the project   *)
(* that moves money is built on them.                                      *)
(*                                                                         *)
(* A request (ExecuteFlowRequest) is a record                              *)
(*   [key    |-> idempotency key,                                          *)
(*    steps  |-> sequence of [event |-> event id,                          *)
(*                            entries |-> sequence of                      *)
(*                               [account, currency, direction, amount]]]  *)
(* Amounts are integers: decimal.Decimal is exact, so only sums and signs  *)
(* matter.  Accounts are numbers because executeFlowInTx visits them in    *)
(* the sorted order of their ids.  One tenant is modelled.                 *)
(***************************************************************************)
EXTENDS Integers, Sequences, FiniteSets, SequencesExt, Functions

CONSTANTS
    Accounts,   \* the account ids a request can name
    Info,       \* the immutable columns of each account's row
    Requests    \* the ExecuteFlow requests clients may submit

AccountInfo ==
    [currency : STRING, normal : {"DEBIT", "CREDIT"}, allowNegative : BOOLEAN]

ASSUME AccountsAssumption == Accounts \subseteq Nat /\ IsFiniteSet(Accounts)
ASSUME InfoAssumption == Info \in [Accounts -> AccountInfo]

EntryType == [account : Accounts, currency : STRING, direction : {"DEBIT", "CREDIT"},
              amount : Int]

ASSUME RequestShape ==
    Requests \subseteq [key : STRING,
                        steps : Seq([event : STRING, entries : Seq(EntryType)])]

-----------------------------------------------------------------------------
(* What a request contains.                                                *)

Entries(r) == FlattenSeq([i \in DOMAIN r.steps |-> r.steps[i].entries])

EntrySet(r) == UNION {Range(r.steps[i].entries) : i \in DOMAIN r.steps}

Events(r) == {r.steps[i].event : i \in DOMAIN r.steps}

\* The accounts the flow locks: the "ordered" slice, as a set.
AccountsOf(r) == {e.account : e \in EntrySet(r)}

\* ParseAmount accepts positive decimals only.
Parses(r) == \A e \in EntrySet(r) : e.amount > 0

\* The (account, currency) keys of account a all carry the account's currency.
CurrencyMatches(r, a) ==
    \A e \in EntrySet(r) : e.account = a => e.currency = Info[a].currency

-----------------------------------------------------------------------------
(* Sums of entries.                                                        *)

Total(es, Test(_)) ==
    SumFunctionOnSet([i \in DOMAIN es |-> es[i].amount], {i \in DOMAIN es : Test(es[i])})

\* The entries of a whole request, by step and place in the step.
Places(r) == UNION {{i} \X DOMAIN r.steps[i].entries : i \in DOMAIN r.steps}

EntryAt(r, p) == r.steps[p[1]].entries[p[2]]

RequestTotal(r, Test(_)) ==
    SumFunctionOnSet([p \in Places(r) |-> EntryAt(r, p).amount],
                     {p \in Places(r) : Test(EntryAt(r, p))})

DebitOf(r, a) == RequestTotal(r, LAMBDA e : e.account = a /\ e.direction = "DEBIT")

CreditOf(r, a) == RequestTotal(r, LAMBDA e : e.account = a /\ e.direction = "CREDIT")

ASSUME RequestsAssumption == Requests # {}

-----------------------------------------------------------------------------
(* The accounting rules.                                                   *)

CurrenciesOf(es) == {es[i].currency : i \in DOMAIN es}

\* Mutant: debits and credits are compared across currencies.
ValidateTotals(step) ==
    /\ step.event # ""
    /\ step.entries # <<>>
    /\ Total(step.entries, LAMBDA e : e.direction = "DEBIT")
     = Total(step.entries, LAMBDA e : e.direction = "CREDIT")

\* Journal.Validate: an event id, at least one entry, and debits equal to
\* credits in every currency.  Entry fields are well formed by construction.
Validate(step) ==
    /\ step.event # ""
    /\ step.entries # <<>>
    /\ \A ccy \in CurrenciesOf(step.entries) :
          Total(step.entries, LAMBDA e : e.currency = ccy /\ e.direction = "DEBIT")
        = Total(step.entries, LAMBDA e : e.currency = ccy /\ e.direction = "CREDIT")

Valid(r) == \A i \in DOMAIN r.steps : Validate(r.steps[i])

NormalizedBalance(normal, debits, credits) ==
    IF normal = "CREDIT" THEN credits - debits ELSE debits - credits

\* The orchestrator's refusal: a non-overdraft account would end negative.
Overdrawn(a, debits, credits) ==
    /\ ~ Info[a].allowNegative
    /\ NormalizedBalance(Info[a].normal, debits, credits) < 0

-----------------------------------------------------------------------------
(* What a history of posted flows contains.                                *)

KeysIn(posted) == {posted[i].key : i \in DOMAIN posted}

EventsIn(posted) == UNION {Events(posted[i]) : i \in DOMAIN posted}

PostedDebits(posted, a) ==
    SumFunctionOnSet([i \in DOMAIN posted |-> DebitOf(posted[i], a)], DOMAIN posted)

PostedCredits(posted, a) ==
    SumFunctionOnSet([i \in DOMAIN posted |-> CreditOf(posted[i], a)], DOMAIN posted)

\* The balance rows show what the posted flows add up to.
BooksMatch(book, posted) ==
    \A a \in Accounts :
        /\ book[a].debits = PostedDebits(posted, a)
        /\ book[a].credits = PostedCredits(posted, a)

InCurrency(ccy) == {a \in Accounts : Info[a].currency = ccy}

\* In every currency the debits of all accounts equal their credits.
BooksBalance(book) ==
    \A ccy \in {Info[a].currency : a \in Accounts} :
        SumFunctionOnSet([a \in Accounts |-> book[a].debits], InCurrency(ccy))
      = SumFunctionOnSet([a \in Accounts |-> book[a].credits], InCurrency(ccy))
=============================================================================
