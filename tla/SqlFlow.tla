------------------------------ MODULE SqlFlow ------------------------------
(***************************************************************************)
(* ExecuteFlow and ExecuteExchange on the two SQL backends, one database   *)
(* statement per step.                                                     *)
(*                                                                         *)
(* CockroachDB (internal/repo/crdb): a SERIALIZABLE transaction that holds *)
(* the rows it has locked or inserted until it commits or rolls back.      *)
(* SQLite (internal/repo/sqlite): SetMaxOpenConns(1), so a transaction     *)
(* also holds the only connection, from BEGIN IMMEDIATE to finalize, and   *)
(* the Store reads ExecuteExchange makes outside it need it too.  Locking  *)
(* is the same otherwise: SQLite's write lock covers every row.            *)
(*                                                                         *)
(* A statement that needs what another call holds waits.  Every error that *)
(* is not a DomainError (a unique violation, SQLSTATE 40001, a broken      *)
(* connection) reaches the caller as CodeInternal, here "UNKNOWN".         *)
(***************************************************************************)
EXTENDS Ledger

CONSTANTS
    Existing,    \* the accounts created before these calls
    Handlers,    \* concurrent callers, each with one request in flight
    Exchanges,   \* the ExecuteExchange requests clients may submit
    Rates,       \* the rates PutFXRate may set
    MaxFaults    \* bound on failed statements, lost answers and failed COMMITs

\* The inner ExecuteFlowRequest that ExecuteExchange builds: each currency is
\* balanced against its counter account.
FlowOf(x) ==
    LET E(a, ccy, dir, amt) ==
            [account |-> a, currency |-> ccy, direction |-> dir, amount |-> amt]
        fromCcy == Info[x.from].currency
        toCcy == Info[x.to].currency
    IN  [key |-> x.key,
         steps |-> <<[event |-> x.event,
                      entries |-> <<E(x.fromCounter, fromCcy, "DEBIT", x.fromAmount),
                                    E(x.from, fromCcy, "CREDIT", x.fromAmount),
                                    E(x.to, toCcy, "DEBIT", x.toAmount),
                                    E(x.toCounter, toCcy, "CREDIT", x.toAmount)>>]>>]

\* A handler that serves no call, and an ExecuteFlow, have no exchange.
NoExchange == [key |-> ""]
NoRequest == [key |-> "", steps |-> <<>>]

\* The requests made to ExecuteFlow itself.
Flows == Requests \ {FlowOf(x) : x \in Exchanges}

ASSUME ExchangesAssumption ==
    \A x \in Exchanges : x # NoExchange /\ FlowOf(x) \in Requests
ASSUME ExistingAssumption == Existing \subseteq Accounts
ASSUME SqlFaultsAssumption == MaxFaults \in Nat

VARIABLES
    backend,    \* the Store the server was opened with
    \* the database
    accounts,   \* rows of accounts
    bal,        \* account_balances; the zero row where there is none
    log,        \* committed flow_runs, with their journals, steps and outbox rows
    rate,       \* the fx_rates row in force, 0 if there is none
    dirty,      \* SQLite: the pooled connection is left inside a transaction
    held,       \* what each call holds: rows, and SQLite's connection
    \* the calls
    pc, req,    \* the next statement; the (inner) ExecuteFlow request
    exch,       \* the ExecuteExchange request, NoExchange in an ExecuteFlow
    quote,      \* the rate ExecuteExchange resolved
    locked,     \* the accounts loaded so far
    read,       \* their totals as LockBalance returned them
    at,         \* journals inserted so far
    answer,     \* what the last step returned to its caller, "NONE" if nothing
    faults

db == <<backend, accounts, bal, log, rate, dirty>>
call == <<req, exch, quote, locked, read, at>>
vars == <<backend, accounts, bal, log, rate, dirty, held, pc, req, exch, quote,
          locked, read, at, answer, faults>>

Zero == [debits |-> 0, credits |-> 0]

\* What a call can hold, in the order the code acquires it.
Conn == <<"conn", "", 0>>
FlowRow(key) == <<"flow", key, 0>>
BalanceRow(a) == <<"balance", "", a>>
EventRow(e) == <<"event", e, 0>>

InTx == {"lookup", "insert", "load", "journal", "replayed"}
Working == {"from", "to", "rate", "begin"} \cup InTx

Refusals == {"ACCOUNT_NOT_FOUND", "ACCOUNT_CURRENCY_MISMATCH", "UNBALANCED_JOURNAL",
             "INSUFFICIENT_FUNDS", "FX_RATE_NOT_FOUND", "FX_AMOUNT_MISMATCH"}

Init ==
    /\ backend \in {"crdb", "sqlite"}
    /\ accounts = Existing
    /\ bal = [a \in Accounts |-> Zero]
    /\ log = <<>>
    /\ rate = 0
    /\ dirty = FALSE
    /\ held = [h \in Handlers |-> {}]
    /\ pc = [h \in Handlers |-> "idle"]
    /\ req = [h \in Handlers |-> NoRequest]
    /\ exch = [h \in Handlers |-> NoExchange]
    /\ quote = [h \in Handlers |-> 0]
    /\ locked = [h \in Handlers |-> {}]
    /\ read = [h \in Handlers |-> [a \in Accounts |-> Zero]]
    /\ at = [h \in Handlers |-> 0]
    /\ answer = "NONE"
    /\ faults = 0

-----------------------------------------------------------------------------
(* What the next statement of a call needs, and who is in its way.         *)

Pending(h) == AccountsOf(req[h]) \ locked[h]

\* Mutant: balances are locked in the order of the flow's entries.
IsNextUnsorted(h, a) ==
    /\ a \in Pending(h)
    /\ \E i \in DOMAIN Entries(req[h]) :
          /\ Entries(req[h])[i].account = a
          /\ \A j \in 1 .. i - 1 : Entries(req[h])[j].account \in locked[h]

\* sort.Slice(ordered): balances are locked in the order of the account ids.
IsNext(h, a) == a \in Pending(h) /\ \A b \in Pending(h) : a <= b

Journal(h) == req[h].steps[at[h] + 1]

\* Store reads and BeginFlowTx take the connection; the Tx's statements run on
\* the one it has.
Needs(h) ==
    CASE \/ pc[h] \in {"from", "to", "begin"}
         \/ pc[h] = "rate" /\ exch[h].rate = 0 -> IF backend = "sqlite" THEN {Conn} ELSE {}
      [] pc[h] \in {"lookup", "insert"} -> {FlowRow(req[h].key)}
      [] pc[h] = "load" -> {BalanceRow(a) : a \in {b \in Pending(h) : IsNext(h, b)}}
      [] pc[h] = "journal" /\ at[h] < Len(req[h].steps) -> {EventRow(Journal(h).event)}
      [] OTHER -> {}

\* A row a call has locked is its own to use again; a connection is not.
WaitsFor(h, g) == \E x \in Needs(h) \cap held[g] : g # h \/ x = Conn

Granted(h) == \A g \in Handlers : ~ WaitsFor(h, g)

Take(h, x) == held' = [held EXCEPT ![h] = @ \cup {x}]

\* The handler returns; its deferred Rollback, or Commit, gives back what the
\* transaction holds.
Return(h, code) ==
    /\ pc' = [pc EXCEPT ![h] = "idle"]
    /\ answer' = code
    /\ held' = [held EXCEPT ![h] = {}]
    /\ req' = [req EXCEPT ![h] = NoRequest]
    /\ exch' = [exch EXCEPT ![h] = NoExchange]
    /\ quote' = [quote EXCEPT ![h] = 0]
    /\ locked' = [locked EXCEPT ![h] = {}]
    /\ read' = [read EXCEPT ![h] = [a \in Accounts |-> Zero]]
    /\ at' = [at EXCEPT ![h] = 0]

Goto(h, label) ==
    /\ pc' = [pc EXCEPT ![h] = label]
    /\ answer' = "NONE"

-----------------------------------------------------------------------------
(* Requests, rates and accounts.                                           *)

ConnIsFree == \A g \in Handlers : Conn \notin held[g]

\* CreateAccount: BeginFlowTx, InsertAccount, Commit.
CreateAccount(a) ==
    /\ a \notin accounts
    /\ ConnIsFree
    /\ ~ dirty
    /\ accounts' = accounts \cup {a}
    /\ answer' = "NONE"
    /\ UNCHANGED <<backend, bal, log, rate, dirty, held, pc, call, faults>>

\* PutFXRate: one upsert, outside any transaction; its row is in force from
\* now, or comes into force later.
PutFXRate(v) ==
    /\ v # rate
    /\ ConnIsFree
    /\ rate' = v
    /\ answer' = "NONE"
    /\ UNCHANGED <<backend, accounts, bal, log, dirty, held, pc, call, faults>>

Arrive(h, r, x, label) ==
    /\ pc[h] = "idle"
    /\ req' = [req EXCEPT ![h] = r]
    /\ exch' = [exch EXCEPT ![h] = x]
    /\ Goto(h, label)
    /\ UNCHANGED <<held, quote, locked, read, at, faults, db>>

\* A new request, or the retry of one that was sent before.
ExecuteFlow(h, r) == Arrive(h, r, NoExchange, "begin")

ExecuteExchange(h, x) == Arrive(h, FlowOf(x), x, "from")

-----------------------------------------------------------------------------
(* ExecuteExchange before its transaction.                                 *)

\* ParseAmount, then Store.GetAccount of the from account.
ReadFrom(h) ==
    /\ pc[h] = "from"
    /\ \/ /\ exch[h].fromAmount <= 0 \/ exch[h].toAmount <= 0
          /\ Return(h, "FX_AMOUNT_MISMATCH")
       \/ /\ exch[h].fromAmount > 0 /\ exch[h].toAmount > 0
          /\ Granted(h)
          /\ IF exch[h].from \in accounts
             THEN Goto(h, "to") /\ UNCHANGED <<held, call>>
             ELSE Return(h, "ACCOUNT_NOT_FOUND")
    /\ UNCHANGED <<db, faults>>

\* Store.GetAccount of the to account; the currencies must differ.
ReadTo(h) ==
    /\ pc[h] = "to"
    /\ Granted(h)
    /\ \/ /\ exch[h].to \notin accounts
          /\ Return(h, "ACCOUNT_NOT_FOUND")
       \/ /\ exch[h].to \in accounts
          /\ Info[exch[h].from].currency = Info[exch[h].to].currency
          /\ Return(h, "ACCOUNT_CURRENCY_MISMATCH")
       \/ /\ exch[h].to \in accounts
          /\ Info[exch[h].from].currency # Info[exch[h].to].currency
          /\ Goto(h, "rate")
          /\ UNCHANGED <<held, call>>
    /\ UNCHANGED <<db, faults>>

\* The caller's rate, which must be positive, or Store.GetFXRateAt(now).
ResolveRate(h) ==
    /\ pc[h] = "rate"
    /\ Granted(h)
    /\ \/ /\ exch[h].rate < 0
          /\ Return(h, "FX_AMOUNT_MISMATCH")
       \/ /\ exch[h].rate = 0 /\ rate = 0
          /\ Return(h, "FX_RATE_NOT_FOUND")
       \/ /\ exch[h].rate > 0 \/ (exch[h].rate = 0 /\ rate # 0)
          /\ quote' = [quote EXCEPT ![h] = IF exch[h].rate # 0 THEN exch[h].rate ELSE rate]
          /\ Goto(h, "begin")
          /\ UNCHANGED <<held, req, exch, locked, read, at>>
    /\ UNCHANGED <<db, faults>>

-----------------------------------------------------------------------------
(* The transaction.                                                        *)

AmountsMatch(h) == exch[h].fromAmount * quote[h] = exch[h].toAmount

\* BeginFlowTx fails inside a transaction that a failed COMMIT left open.
\* Then ExecuteExchange compares its amounts and executeFlowInTx parses its
\* steps, before anything is looked up.
BeginFlowTx(h) ==
    /\ pc[h] = "begin"
    /\ Granted(h)
    /\ \/ /\ dirty
          /\ Return(h, "UNKNOWN")
       \/ /\ ~ dirty
          /\ exch[h] # NoExchange /\ ~ AmountsMatch(h)
          /\ Return(h, "FX_AMOUNT_MISMATCH")
       \/ /\ ~ dirty
          /\ exch[h] # NoExchange => AmountsMatch(h)
          /\ ~ Parses(req[h])
          /\ Return(h, "UNBALANCED_JOURNAL")
       \/ /\ ~ dirty
          /\ exch[h] # NoExchange => AmountsMatch(h)
          /\ Parses(req[h])
          /\ Goto(h, "lookup")
          /\ held' = [held EXCEPT ![h] = IF backend = "sqlite" THEN {Conn} ELSE {}]
          /\ UNCHANGED call
    /\ UNCHANGED <<db, faults>>

KeyIsPosted(r) == r.key \in KeysIn(log)

\* SELECT ... FOR UPDATE: waits for an uncommitted row, locks one it finds,
\* and locks nothing when there is none.  A committed flow is COMPLETED.
GetFlowByIdempotency(h) ==
    /\ pc[h] = "lookup"
    /\ Granted(h)
    /\ IF KeyIsPosted(req[h])
       THEN Goto(h, "replayed") /\ Take(h, FlowRow(req[h].key))
       ELSE Goto(h, "insert") /\ UNCHANGED held
    /\ UNCHANGED <<db, call, faults>>

\* Mutant: flow_runs.idempotency_key is not unique.
InsertFlowRunUnchecked(h) ==
    /\ pc[h] = "insert"
    /\ Granted(h)
    /\ Goto(h, IF AccountsOf(req[h]) = {} THEN "journal" ELSE "load")
    /\ Take(h, FlowRow(req[h].key))
    /\ UNCHANGED <<call, db, faults>>

\* Mutant: a failed insert is tried again.
InsertFlowRunRetried(h) ==
    /\ pc[h] = "insert"
    /\ Granted(h)
    /\ IF KeyIsPosted(req[h])
       THEN Goto(h, "insert") /\ UNCHANGED held
       ELSE /\ Goto(h, IF AccountsOf(req[h]) = {} THEN "journal" ELSE "load")
            /\ Take(h, FlowRow(req[h].key))
    /\ UNCHANGED <<call, db, faults>>

\* The unique key was free a moment ago; if it was posted since, the insert
\* fails with a raw unique violation or serialization failure.
InsertFlowRun(h) ==
    /\ pc[h] = "insert"
    /\ Granted(h)
    /\ IF KeyIsPosted(req[h])
       THEN Return(h, "UNKNOWN")
       ELSE /\ Goto(h, IF AccountsOf(req[h]) = {} THEN "journal" ELSE "load")
            /\ Take(h, FlowRow(req[h].key))
            /\ UNCHANGED call
    /\ UNCHANGED <<db, faults>>

\* Mutant: the balance is read without FOR UPDATE.
ReadBalance(h, a) ==
    /\ locked' = [locked EXCEPT ![h] = @ \cup {a}]
    /\ read' = [read EXCEPT ![h][a] = bal[a]]
    /\ UNCHANGED held

\* EnsureBalanceRow, then SELECT ... FOR UPDATE.
LockBalance(h, a) ==
    /\ Granted(h)
    /\ Take(h, BalanceRow(a))
    /\ locked' = [locked EXCEPT ![h] = @ \cup {a}]
    /\ read' = [read EXCEPT ![h][a] = bal[a]]

\* One turn of the loop over the ordered accounts: GetAccount and its checks,
\* then LockBalance.
LoadAccount(h, a) ==
    /\ pc[h] = "load"
    /\ IsNext(h, a)
    /\ \/ /\ a \notin accounts
          /\ Return(h, "ACCOUNT_NOT_FOUND")
       \/ /\ a \in accounts
          /\ ~ CurrencyMatches(req[h], a)
          /\ Return(h, "ACCOUNT_CURRENCY_MISMATCH")
       \/ /\ a \in accounts
          /\ CurrencyMatches(req[h], a)
          /\ LockBalance(h, a)
          /\ Goto(h, IF Pending(h) = {a} THEN "journal" ELSE "load")
          /\ UNCHANGED <<req, exch, quote, at>>
    /\ UNCHANGED <<db, faults>>

\* Mutant: ledger_journals.event_id is only unique within a flow.
EventTakenInFlow(h) == EventRow(Journal(h).event) \in held[h]

\* The event id of the next journal is in the table, or was inserted by an
\* earlier step of this flow.
EventTaken(h) ==
    \/ Journal(h).event \in EventsIn(log)
    \/ EventRow(Journal(h).event) \in held[h]

\* One step: Journal.Validate, then InsertJournal under its unique event id,
\* and its entries, flow step and outbox row.
InsertJournal(h) ==
    /\ pc[h] = "journal"
    /\ at[h] < Len(req[h].steps)
    /\ \/ /\ ~ Validate(Journal(h))
          /\ Return(h, "UNBALANCED_JOURNAL")
       \/ /\ Validate(Journal(h))
          /\ Granted(h)
          /\ EventTaken(h)
          /\ Return(h, "UNKNOWN")
       \/ /\ Validate(Journal(h))
          /\ Granted(h)
          /\ ~ EventTaken(h)
          /\ at' = [at EXCEPT ![h] = @ + 1]
          /\ Take(h, EventRow(Journal(h).event))
          /\ Goto(h, "journal")
          /\ UNCHANGED <<req, exch, quote, locked, read>>
    /\ UNCHANGED <<db, faults>>

NewTotals(h, a) ==
    [debits |-> read[h][a].debits + DebitOf(req[h], a),
     credits |-> read[h][a].credits + CreditOf(req[h], a)]

WouldOverdraw(h) ==
    \E a \in AccountsOf(req[h]) :
        Overdrawn(a, NewTotals(h, a).debits, NewTotals(h, a).credits)

\* Every journal is inserted: the final overdraft check refuses the flow ...
Refuse(h) ==
    /\ pc[h] = "journal"
    /\ at[h] = Len(req[h].steps)
    /\ WouldOverdraw(h)
    /\ Return(h, "INSUFFICIENT_FUNDS")
    /\ UNCHANGED <<db, faults>>

\* ... or UpdateBalance of every row, all locked, and CompleteFlowRun leave only
\* the COMMIT.
AtCommit(h) ==
    /\ pc[h] = "journal"
    /\ at[h] = Len(req[h].steps)
    /\ ~ WouldOverdraw(h)

\* Everything the transaction wrote becomes visible.
Publish(h) ==
    /\ AtCommit(h)
    /\ bal' = [a \in Accounts |->
                  IF a \in AccountsOf(req[h]) THEN NewTotals(h, a) ELSE bal[a]]
    /\ log' = Append(log, req[h])
    /\ UNCHANGED <<backend, accounts, rate, dirty>>

Commit(h) ==
    /\ Publish(h)
    /\ Return(h, "OK")
    /\ UNCHANGED faults

\* The existing flow and its steps are returned; the transaction commits.
CommitReplay(h) ==
    /\ pc[h] = "replayed"
    /\ Return(h, "OK")
    /\ UNCHANGED <<db, faults>>

-----------------------------------------------------------------------------
(* Faults.                                                                 *)

Fault == faults < MaxFaults /\ faults' = faults + 1

\* The commit lands, but the connection breaks or the server dies before it
\* answers.
CommitLost(h) ==
    /\ Fault
    /\ Publish(h)
    /\ Return(h, "UNKNOWN")

\* SQLite: COMMIT fails (SQLITE_BUSY, a full disk).  finalize has already
\* marked the Tx done, so the deferred Rollback does nothing and the
\* connection may go back to the pool inside the transaction.
CommitFails(h) ==
    /\ AtCommit(h)
    /\ backend = "sqlite"
    /\ Fault
    /\ Return(h, "UNKNOWN")
    /\ dirty' \in BOOLEAN
    /\ UNCHANGED <<backend, accounts, bal, log, rate>>

\* A statement fails (SQLSTATE 40001, a cancelled context), also while it
\* waits; nothing retries it: WithRetry has no caller.
StatementFails(h) ==
    /\ pc[h] \in Working
    /\ Fault
    /\ Return(h, "UNKNOWN")
    /\ UNCHANGED db

\* CockroachDB finds a cycle of waiting transactions and aborts one of them.
AbortDeadlocked(h) ==
    /\ backend = "crdb"
    /\ \E g \in Handlers : WaitsFor(h, g) /\ WaitsFor(g, h)
    /\ Return(h, "UNKNOWN")
    /\ UNCHANGED <<db, faults>>

Step(h) ==
    \/ ReadFrom(h) \/ ReadTo(h) \/ ResolveRate(h)
    \/ BeginFlowTx(h)
    \/ GetFlowByIdempotency(h) \/ InsertFlowRun(h)
    \/ \E a \in Accounts : LoadAccount(h, a)
    \/ InsertJournal(h) \/ Refuse(h)
    \/ Commit(h) \/ CommitReplay(h)
    \/ AbortDeadlocked(h)

Next ==
    \/ \E a \in Accounts : CreateAccount(a)
    \/ \E v \in Rates : PutFXRate(v)
    \/ \E h \in Handlers :
          \/ \E r \in Flows : ExecuteFlow(h, r)
          \/ \E x \in Exchanges : ExecuteExchange(h, x)
          \/ Step(h)
          \/ CommitLost(h) \/ CommitFails(h) \/ StatementFails(h)

\* Every goroutine runs, and a waiter is served: database/sql hands a returned
\* connection to a waiting request before a new one, and CockroachDB queues
\* the waiters of a lock.  Nothing obliges a client to call or a fault to
\* happen.
Spec ==
    /\ Init
    /\ [][Next]_vars
    /\ \A h \in Handlers : SF_vars(Step(h))

-----------------------------------------------------------------------------
(* Correctness.                                                            *)

\* Every variable holds a value of its kind.
TypeOK ==
    /\ backend \in {"crdb", "sqlite"}
    /\ accounts \subseteq Accounts
    /\ bal \in [Accounts -> [debits : Nat, credits : Nat]]
    /\ log \in Seq(Requests)
    /\ dirty \in BOOLEAN
    /\ pc \in [Handlers -> {"idle"} \cup Working]
    /\ req \in [Handlers -> Requests \cup {NoRequest}]
    /\ exch \in [Handlers -> Exchanges \cup {NoExchange}]
    /\ locked \in [Handlers -> SUBSET Accounts]
    /\ read \in [Handlers -> [Accounts -> [debits : Nat, credits : Nat]]]
    /\ at \in [Handlers -> Nat]
    /\ answer \in {"NONE", "OK", "UNKNOWN"} \cup Refusals
    /\ faults \in 0 .. MaxFaults

\* A row, or SQLite's connection, is held by one call at a time.
Exclusive == \A h, g \in Handlers : h # g => held[h] \cap held[g] = {}

\* What a call holds is exactly what its transaction has touched so far.
Holdings(h) ==
    (IF pc[h] \in InTx /\ backend = "sqlite" THEN {Conn} ELSE {})
    \cup (IF pc[h] \in {"load", "journal", "replayed"}
          THEN {FlowRow(req[h].key)} ELSE {})
    \cup {BalanceRow(a) : a \in locked[h]}
    \cup {EventRow(req[h].steps[i].event) : i \in 1 .. at[h]}

\* Behind its locks, what a transaction has read is still what is committed:
\* the totals, the absence of its key and of its event ids.  Balances are
\* locked from the smallest account id up.
ReadsAreCurrent(h) ==
    /\ Parses(req[h])
    /\ locked[h] \subseteq AccountsOf(req[h]) \cap accounts
    /\ \A a \in locked[h] :
          /\ read[h][a] = bal[a]
          /\ CurrencyMatches(req[h], a)
          /\ \A b \in Pending(h) : a < b
    /\ pc[h] \in {"load", "journal"} => ~ KeyIsPosted(req[h])
    /\ pc[h] = "replayed" => KeyIsPosted(req[h])
    /\ pc[h] = "journal" => locked[h] = AccountsOf(req[h])
    /\ pc[h] \in {"lookup", "insert", "replayed"} => locked[h] = {}
    /\ at[h] <= Len(req[h].steps)
    /\ \A i \in 1 .. at[h] :
          /\ Validate(req[h].steps[i])
          /\ req[h].steps[i].event \notin EventsIn(log)
    /\ pc[h] # "journal" => at[h] = 0

\* Why locking is enough: the inductive invariant of the pessimistic protocol
\* (LockBalance's FOR UPDATE, the unique keys of flow_runs and
\* ledger_journals, BEGIN IMMEDIATE): nothing a transaction relies on changes
\* before it commits.
SqlInvariant ==
    /\ TypeOK
    /\ Exclusive
    /\ held = [h \in Handlers |-> Holdings(h)]
    /\ \A h \in Handlers :
          /\ pc[h] \in Working => req[h] \in Requests
          /\ pc[h] \in InTx => ReadsAreCurrent(h)
          /\ pc[h] \notin InTx => locked[h] = {} /\ at[h] = 0

\* The sorted order of executeFlowInTx does its work, and ExecuteExchange reads
\* the Store before it takes the only connection: calls that wait for each
\* other in a circle are inserting journals, so only flows that reuse each
\* other's event ids, in the opposite order, can block each other.
OnlyEventIdsDeadlock ==
    \A S \in SUBSET {h \in Handlers : pc[h] \in Working \ {"journal"}} :
        S # {} => \E h \in S : \A g \in S : ~ WaitsFor(h, g)

\* What a caller is told, at the instant it is told: OK means the flow of its
\* key is posted; INSUFFICIENT_FUNDS that posting it right now would overdraw
\* an account; and ExecuteFlow refuses nothing that is posted, by this caller
\* or, in parallel, by another one (the FOR UPDATE of GetFlowByIdempotency
\* and the unique key behind it).
AnswersAreExact ==
    [][ \A h \in Handlers : (pc[h] \in Working /\ pc'[h] = "idle") =>
          /\ answer' = "OK" => req[h].key \in KeysIn(log')
          /\ answer' = "INSUFFICIENT_FUNDS" =>
                \E a \in AccountsOf(req[h]) :
                    Overdrawn(a, bal[a].debits + DebitOf(req[h], a),
                                 bal[a].credits + CreditOf(req[h], a))
          /\ (answer' \in Refusals /\ exch[h] = NoExchange) => ~ KeyIsPosted(req[h])
      ]_vars

\* The balance rows are the sums of the journals: UpdateBalance writes totals
\* computed from rows read some statements earlier, and no commit in between
\* is overwritten (LockBalance's FOR UPDATE, BEGIN IMMEDIATE).
BalancesMatchJournals == BooksMatch(bal, log)

\* The books balance: per currency, total debits equal total credits, the two
\* legs of an exchange included (ExecuteExchange's counter accounts,
\* Journal.Validate and the currency check of executeFlowInTx).
TrialBalance == BooksBalance(bal)

\* Both: no interleaving of statements leaves the books wrong.
BooksAreRight == BalancesMatchJournals /\ TrialBalance

\* docs/ARCHITECTURE.md, ExecuteExchange: "Run the inner ExecuteFlow against
\* the same tx [...] idempotency [...] inherited": the retry of an exchange
\* that is posted is not refused.
ExchangeRetryIsAnswered ==
    [][ \A h \in Handlers :
          (pc[h] \in Working /\ pc'[h] = "idle" /\ answer' \in Refusals)
              => ~ KeyIsPosted(req[h]) ]_vars

\* The promise: every committed flow is one atomic step of AtomicLedger.
Promise == INSTANCE AtomicLedger WITH opened <- accounts, book <- bal, history <- log

\* The SQL backends implement the atomic ledger: rows locked one by one are
\* indistinguishable from one step that checks and posts.
ImplementsAtomicLedger == Promise!ASpec

\* Every call returns: no lock, no connection and no order of statements makes
\* a caller wait for ever.
EveryCallReturns ==
    \A h \in Handlers : pc[h] \in Working ~> pc[h] = "idle"
=============================================================================
