----------------------------- MODULE DynamoFlow -----------------------------
(***************************************************************************)
(* ExecuteFlow on the DynamoDB backend: concurrent request handlers, each  *)
(* running executeFlowInTx (internal/service/execute_flow.go) over the     *)
(* write-buffered optimistic Tx of internal/repo/dynamo/tx.go.             *)
(*                                                                         *)
(* Every strongly consistent GetItem is a step of its own, so other        *)
(* handlers may commit between any two reads; everything buffered reaches  *)
(* the table in the one TransactWriteItems of Commit.  The caller retries  *)
(* with the same idempotency key, as internal/repo/dynamo/README.md        *)
(* section 3 asks of it.                                                   *)
(***************************************************************************)
EXTENDS Ledger

CONSTANTS
    Handlers,     \* concurrent callers, each with one request in flight
    MaxTxItems,   \* maxTxItems: the TransactWriteItems limit
    MaxFaults     \* bound on failed calls, lost answers and crashes

ASSUME MaxTxItemsAssumption == MaxTxItems \in Nat
ASSUME MaxFaultsAssumption == MaxFaults \in Nat

VARIABLES
    \* the table
    accounts,   \* ACC# (and ACCU#) items
    rows,       \* the accounts that have a BAL# item
    bal,        \* contents of each BAL# item; the zero row where there is none
    log,        \* committed flows: their FLOW#, FIDEMP#, JRN#, EVT#, OBX# items
    \* the handlers
    pc,         \* where the handler is
    req,        \* its request
    loaded,     \* the accounts in the Tx's balance overlay
    existed,    \* those whose row existed when it was loaded
    ov,         \* the overlay: each balance as read, with its readVersion
    reply,      \* the outcome returned to the caller
    \* history
    began,      \* Len(log) when the handler's transaction began
    faults      \* faults so far

table == <<accounts, rows, bal, log>>
tx == <<loaded, existed, ov>>
vars == <<accounts, rows, bal, log, pc, req, loaded, existed, ov, reply, began, faults>>

Row == [debits : Nat, credits : Nat, version : Nat]
ZeroRow == [debits |-> 0, credits |-> 0, version |-> 0]

Rejections == {"ACCOUNT_NOT_FOUND", "ACCOUNT_CURRENCY_MISMATCH",
               "UNBALANCED_JOURNAL", "INSUFFICIENT_FUNDS", "FLOW_TOO_LARGE"}

\* "UNKNOWN": the caller saw a transport or internal error and cannot tell
\* whether the flow was posted.
Retryable == {"SERIALIZATION_RETRY_EXHAUSTED", "FLOW_CONFLICT", "UNKNOWN"}

Codes == {"NONE", "OK"} \cup Rejections \cup Retryable

Running(h) == pc[h] \in {"lookup", "load", "probe", "commit"}

Init ==
    /\ accounts = {}
    /\ rows = {}
    /\ bal = [a \in Accounts |-> ZeroRow]
    /\ log = <<>>
    /\ pc = [h \in Handlers |-> "idle"]
    /\ req = [h \in Handlers |-> CHOOSE r \in Requests : TRUE]
    /\ loaded = [h \in Handlers |-> {}]
    /\ existed = [h \in Handlers |-> {}]
    /\ ov = [h \in Handlers |-> [a \in Accounts |-> ZeroRow]]
    /\ reply = [h \in Handlers |-> "NONE"]
    /\ began = [h \in Handlers |-> 0]
    /\ faults = 0

-----------------------------------------------------------------------------
(* Helpers: the end of a handler and the contents of its write buffer.     *)

\* The handler answers; its Tx is finished or rolled back and its buffer is
\* dropped.
Answer(h, code) ==
    /\ pc' = [pc EXCEPT ![h] = "done"]
    /\ reply' = [reply EXCEPT ![h] = code]
    /\ loaded' = [loaded EXCEPT ![h] = {}]
    /\ existed' = [existed EXCEPT ![h] = {}]
    /\ ov' = [ov EXCEPT ![h] = [a \in Accounts |-> ZeroRow]]

Pending(h) == AccountsOf(req[h]) \ loaded[h]

\* The next account of the sorted key list.
IsNext(h, a) == a \in Pending(h) /\ \A b \in Pending(h) : a <= b

NewDebits(h, a) == ov[h][a].debits + DebitOf(req[h], a)

NewCredits(h, a) == ov[h][a].credits + CreditOf(req[h], a)

\* Mutant: the overdraft check looks at the balances before the entries.
OverdrawnBefore(h) ==
    \E a \in AccountsOf(req[h]) : Overdrawn(a, ov[h][a].debits, ov[h][a].credits)

\* Mutant: the overdraft check runs after every step of the flow.
OverdrawnAtAnyStep(h) ==
    \E n \in DOMAIN req[h].steps, a \in AccountsOf(req[h]) :
        LET part == [req[h] EXCEPT !.steps = SubSeq(@, 1, n)]
        IN  Overdrawn(a, ov[h][a].debits + DebitOf(part, a),
                         ov[h][a].credits + CreditOf(part, a))

\* The final balance of some locked account is refused.
WouldOverdraw(h) ==
    \E a \in AccountsOf(req[h]) : Overdrawn(a, NewDebits(h, a), NewCredits(h, a))

\* A call of put: the kind of item, the step or account it is of, and its
\* place in t.order.
Put(kind, of, at) == [kind |-> kind, of |-> of, at |-> at]

\* InsertFlowRun comes first.  InsertFlowStep and CompleteFlowRun put FLOW#
\* again, and InsertEntry JRN#: neither place nor condition changes.
InsertFlowRun(r) == {Put("FLOW", 0, 1), Put("FIDEMP", 0, 2)}

\* Then, step by step, InsertJournal's two puts and InsertOutbox's.
InsertSteps(r) ==
    UNION {{Put("JRN", i, 3 * i), Put("EVT", i, 3 * i + 1), Put("OBX", i, 3 * i + 2)} :
           i \in DOMAIN r.steps}

\* Mutant: the balances are updated before the run is inserted.
UpdateBalancesFirst(r) ==
    {Put("BAL", a, 0 - Cardinality({b \in AccountsOf(r) : b > a})) : a \in AccountsOf(r)}

\* Then UpdateBalance, account by account in sorted order.
UpdateBalances(r) ==
    {Put("BAL", a, 3 * Len(r.steps) + 3 + Cardinality({b \in AccountsOf(r) : b < a})) :
     a \in AccountsOf(r)}

\* All of them: t.order.
Puts(r) == InsertFlowRun(r) \cup InsertSteps(r) \cup UpdateBalances(r)

\* The key an item is stored under, as far as two puts of one flow may share it.
ItemKey(r, p) == <<p.kind, IF p.kind = "EVT" THEN r.steps[p.of].event ELSE p.of>>

\* The items Commit sends: put coalesces a repeated key, and what it keeps is
\* the condition and the place of the first.
TxItems(r) == Cardinality({ItemKey(r, p) : p \in Puts(r)})

\* attribute_not_exists(pk) on the FIDEMP# marker.
KeyIsFree(r) == r.key \notin KeysIn(log)

\* Mutant: the EVT# marker is put without its condition.
EventUnchecked(e) == TRUE

\* attribute_not_exists(pk) on an EVT# marker.
EventIsFree(e) == e \notin EventsIn(log)

\* Mutant: the BAL# put of an existing row only requires that it exists.
VersionUnchecked(h, a) == IF a \in existed[h] THEN a \in rows ELSE a \notin rows

\* Mutant: the BAL# put of a fresh row carries no condition.
FreshUnchecked(h, a) ==
    IF a \in existed[h]
    THEN a \in rows /\ bal[a].version = ov[h][a].version
    ELSE TRUE

\* The condition UpdateBalance put on the BAL# item: version = :readVersion
\* when the row existed, attribute_not_exists(pk) when it did not.
BalanceCondition(h, a) ==
    IF a \in existed[h]
    THEN a \in rows /\ bal[a].version = ov[h][a].version
    ELSE a \notin rows

\* The condition of a buffered put holds.  FLOW#, JRN# and OBX# items are put
\* under ids that NewID has just made: theirs always do.
Holds(h, p) ==
    /\ p.kind = "FIDEMP" => KeyIsFree(req[h])
    /\ p.kind = "EVT" => EventIsFree(req[h].steps[p.of].event)
    /\ p.kind = "BAL" => BalanceCondition(h, p.of)

Failed(h) == {p \in Puts(req[h]) : ~ Holds(h, p)}

-----------------------------------------------------------------------------
(* Handlers.                                                               *)

\* CreateAccount: ACC# and ACCU# put together, each attribute_not_exists.
CreateAccount(a) ==
    /\ a \notin accounts
    /\ accounts' = accounts \cup {a}
    /\ UNCHANGED <<rows, bal, log, pc, req, loaded, existed, ov, reply, began, faults>>

\* ExecuteFlow: BeginFlowTx, then stepsFromProto refuses unparsable amounts
\* before anything is read.
Begin(h, r) ==
    /\ req' = [req EXCEPT ![h] = r]
    /\ began' = [began EXCEPT ![h] = Len(log)]
    /\ IF Parses(r)
       THEN /\ pc' = [pc EXCEPT ![h] = "lookup"]
            /\ reply' = [reply EXCEPT ![h] = "NONE"]
            /\ UNCHANGED tx
       ELSE Answer(h, "UNBALANCED_JOURNAL")
    /\ UNCHANGED <<accounts, rows, bal, log, faults>>

\* A caller with nothing to retry sends some request, perhaps one that was
\* sent before, perhaps one another caller is sending now.
Submit(h, r) ==
    /\ pc[h] \in {"idle", "done"}
    /\ reply[h] \notin Retryable
    /\ Begin(h, r)

\* The caller's loop: again, with the same idempotency key.
Retry(h) ==
    /\ pc[h] = "done"
    /\ reply[h] \in Retryable
    /\ Begin(h, req[h])

\* A caller may give up instead, and send another request.
GiveUp(h) ==
    /\ pc[h] = "done"
    /\ reply[h] \in Retryable
    /\ reply' = [reply EXCEPT ![h] = "NONE"]
    /\ pc' = [pc EXCEPT ![h] = "idle"]
    /\ UNCHANGED <<accounts, rows, bal, log, req, loaded, existed, ov, began, faults>>

\* Mutant: a flow that is already posted is not recognised.
NeverReplays(h) == FALSE

\* The FIDEMP# marker of the request's key is there.
Replays(h) == req[h].key \in KeysIn(log)

\* GetFlowByIdempotency.  A FLOW# item is only ever written COMPLETED, in one
\* write with its FIDEMP# marker, and never changes: marker found means
\* replay, and the later reads of the item return the same.
Lookup(h) ==
    /\ pc[h] = "lookup"
    /\ IF Replays(h)
       THEN Answer(h, "OK")
       ELSE /\ pc' = [pc EXCEPT ![h] = "load"]
            /\ UNCHANGED <<reply, loaded, existed, ov>>
    /\ UNCHANGED <<accounts, rows, bal, log, req, began, faults>>

\* GetAccount and its checks; an account is immutable and is created ACTIVE.
AccountError(h, a) ==
    IF a \notin accounts THEN "ACCOUNT_NOT_FOUND"
    ELSE IF CurrencyMatches(req[h], a) THEN "NONE"
    ELSE "ACCOUNT_CURRENCY_MISMATCH"

\* GetAccount, then LockBalance -> loadBalance -> GetBalance.  Reading
\* (0, 0, 0) does not tell an absent row from an empty one: loadBalance probes.
Load(h, a) ==
    /\ pc[h] = "load"
    /\ IsNext(h, a)
    /\ \/ /\ AccountError(h, a) # "NONE"
          /\ Answer(h, AccountError(h, a))
       \/ /\ AccountError(h, a) = "NONE"
          /\ bal[a] = ZeroRow
          /\ pc' = [pc EXCEPT ![h] = "probe"]
          /\ UNCHANGED <<reply, loaded, existed, ov>>
       \/ /\ AccountError(h, a) = "NONE"
          /\ bal[a] # ZeroRow
          /\ loaded' = [loaded EXCEPT ![h] = @ \cup {a}]
          /\ existed' = [existed EXCEPT ![h] = @ \cup {a}]
          /\ ov' = [ov EXCEPT ![h][a] = bal[a]]
          /\ UNCHANGED <<pc, reply>>
    /\ UNCHANGED <<accounts, rows, bal, log, req, began, faults>>

\* loadBalance's second getItem.  The row may have been created since the
\* first read: existed is then true with readVersion 0.
Probe(h, a) ==
    /\ pc[h] = "probe"
    /\ IsNext(h, a)
    /\ pc' = [pc EXCEPT ![h] = "load"]
    /\ loaded' = [loaded EXCEPT ![h] = @ \cup {a}]
    /\ existed' = [existed EXCEPT ![h] = IF a \in rows THEN @ \cup {a} ELSE @]
    /\ ov' = [ov EXCEPT ![h][a] = ZeroRow]
    /\ UNCHANGED <<accounts, rows, bal, log, req, reply, began, faults>>

\* Every account is locked: validate the journals, accumulate the entries,
\* refuse an overdraft of a final balance, buffer the writes and, in Commit,
\* refuse a buffer that does not fit one TransactWriteItems.
Apply(h) ==
    /\ pc[h] = "load"
    /\ Pending(h) = {}
    /\ \/ /\ ~ Valid(req[h])
          /\ Answer(h, "UNBALANCED_JOURNAL")
       \/ /\ Valid(req[h])
          /\ WouldOverdraw(h)
          /\ Answer(h, "INSUFFICIENT_FUNDS")
       \/ /\ Valid(req[h])
          /\ ~ WouldOverdraw(h)
          /\ IF TxItems(req[h]) > MaxTxItems
             THEN Answer(h, "FLOW_TOO_LARGE")
             ELSE /\ pc' = [pc EXCEPT ![h] = "commit"]
                  /\ UNCHANGED <<reply, loaded, existed, ov>>
    /\ UNCHANGED <<accounts, rows, bal, log, req, began, faults>>

\* TransactWriteItems succeeds: every condition holds and every put lands.
Write(h) ==
    /\ pc[h] = "commit"
    /\ Failed(h) = {}
    /\ rows' = rows \cup AccountsOf(req[h])
    /\ bal' = [a \in Accounts |->
                  IF a \in AccountsOf(req[h])
                  THEN [debits |-> NewDebits(h, a),
                        credits |-> NewCredits(h, a),
                        version |-> ov[h][a].version + 1]
                  ELSE bal[a]]
    /\ log' = Append(log, req[h])
    /\ UNCHANGED <<accounts, req, began>>

Commit(h) ==
    /\ Write(h)
    /\ Answer(h, "OK")
    /\ UNCHANGED faults

\* The write lands but the answer does not reach the caller.
CommitLost(h) ==
    /\ faults < MaxFaults
    /\ faults' = faults + 1
    /\ Write(h)
    /\ Answer(h, "UNKNOWN")

\* The first ConditionalCheckFailed among the CancellationReasons, which come
\* in the order of the puts.
FirstFailed(h) == CHOOSE p \in Failed(h) : \A q \in Failed(h) : p.at <= q.at

\* The condition is "version = :v", not attribute_not_exists(pk).
VersionEquals(h, p) == p.kind = "BAL" /\ p.of \in existed[h]

\* Mutant: the fresh-balance race is not told from a duplicate.
ConflictAlways(h) ==
    IF VersionEquals(h, FirstFailed(h))
    THEN "SERIALIZATION_RETRY_EXHAUSTED"
    ELSE "FLOW_CONFLICT"

\* TransactionCanceledException, classified by its first failed condition: a
\* stale read, a fresh-balance race, or a duplicate.
ConflictCode(h) ==
    IF VersionEquals(h, FirstFailed(h)) \/ FirstFailed(h).kind = "BAL"
    THEN "SERIALIZATION_RETRY_EXHAUSTED"
    ELSE "FLOW_CONFLICT"

CommitCancelled(h) ==
    /\ pc[h] = "commit"
    /\ Failed(h) # {}
    /\ Answer(h, ConflictCode(h))
    /\ UNCHANGED <<accounts, rows, bal, log, req, began, faults>>

\* A GetItem or TransactWriteItems that fails without effect (throttling, a
\* cancelled context, a write rejected as in conflict) or a crash of the
\* server: the buffer is lost and the caller sees an error.
Abandon(h) ==
    /\ Running(h)
    /\ faults < MaxFaults
    /\ faults' = faults + 1
    /\ Answer(h, "UNKNOWN")
    /\ UNCHANGED <<accounts, rows, bal, log, req, began>>

\* What a handler does by itself once a request has arrived.
Step(h) ==
    \/ Lookup(h)
    \/ \E a \in Accounts : Load(h, a) \/ Probe(h, a)
    \/ Apply(h)
    \/ Commit(h)
    \/ CommitCancelled(h)

Next ==
    \/ \E a \in Accounts : CreateAccount(a)
    \/ \E h \in Handlers :
          \/ \E r \in Requests : Submit(h, r)
          \/ Retry(h)
          \/ GiveUp(h)
          \/ Step(h)
          \/ CommitLost(h)
          \/ Abandon(h)

Spec == Init /\ [][Next]_vars

-----------------------------------------------------------------------------
(* Callers that follow the retry contract.                                 *)

\* internal/repo/dynamo/README.md section 3: a caller retries a retryable
\* code until it gets an answer.
LiveNext ==
    \/ \E a \in Accounts : CreateAccount(a)
    \/ \E h \in Handlers :
          \/ \E r \in Requests : Submit(h, r)
          \/ Retry(h)
          \/ Step(h)
          \/ CommitLost(h)
          \/ Abandon(h)

\* A request that has reached the server is worked on (the Go scheduler runs
\* every goroutine), and a persistent caller retries.  Nothing obliges a
\* caller to submit, and nothing makes a fault happen.
LiveSpec ==
    /\ Init
    /\ [][LiveNext]_vars
    /\ \A h \in Handlers : WF_vars(Step(h)) /\ WF_vars(Retry(h))
-----------------------------------------------------------------------------
(* Correctness.                                                            *)

\* Every variable holds a value of its kind; in particular stored and read
\* totals never go below zero.
TypeOK ==
    /\ accounts \subseteq Accounts
    /\ rows \subseteq Accounts
    /\ bal \in [Accounts -> Row]
    /\ log \in Seq(Requests)
    /\ pc \in [Handlers -> {"idle", "lookup", "load", "probe", "commit", "done"}]
    /\ req \in [Handlers -> Requests]
    /\ loaded \in [Handlers -> SUBSET Accounts]
    /\ existed \in [Handlers -> SUBSET Accounts]
    /\ ov \in [Handlers -> [Accounts -> Row]]
    /\ reply \in [Handlers -> Codes]
    /\ began \in [Handlers -> Nat]
    /\ faults \in 0 .. MaxFaults

\* Why the conditional write is enough, in three parts.

\* A balance row has a positive version, and where there is no row the reads
\* return zeros.
RowsHaveVersions ==
    \A a \in Accounts : IF a \in rows THEN bal[a].version > 0 ELSE bal[a] = ZeroRow

\* What a running handler has read: only accounts of its request that exist
\* and have its currency; a version never goes back and never names two
\* contents, so the balance is still what was read if its version is; and
\* whatever changed since, another flow's commit changed it.
ReadsAreTracked(h) ==
    /\ Parses(req[h])
    /\ began[h] <= Len(log)
    /\ pc[h] = "lookup" => loaded[h] = {}
    /\ existed[h] \subseteq loaded[h]
    /\ loaded[h] \subseteq AccountsOf(req[h]) \cap accounts
    /\ \A a \in loaded[h] :
          /\ CurrencyMatches(req[h], a)
          /\ ov[h][a].version <= bal[a].version
          /\ ov[h][a].version = bal[a].version => ov[h][a] = bal[a]
          /\ IF a \in existed[h] THEN a \in rows ELSE ov[h][a] = ZeroRow
          /\ ov[h][a] # bal[a] => began[h] < Len(log)
    /\ pc[h] = "probe" =>
          \A a \in Pending(h) : IsNext(h, a) =>
              /\ AccountError(h, a) = "NONE"
              /\ bal[a] # ZeroRow => began[h] < Len(log)

\* A handler that is about to commit has locked all its accounts and checked
\* everything against its overlay.
CommitIsChecked(h) ==
    /\ loaded[h] = AccountsOf(req[h])
    /\ Valid(req[h])
    /\ ~ WouldOverdraw(h)

HandlerIsTracked(h) ==
    /\ IF Running(h) THEN ReadsAreTracked(h) ELSE loaded[h] = {} /\ existed[h] = {}
    /\ pc[h] = "commit" => CommitIsChecked(h)

\* The inductive invariant of the optimistic protocol (loadBalance,
\* UpdateBalance and Commit of dynamo/tx.go): the three parts together.
OccInvariant == RowsHaveVersions /\ \A h \in Handlers : HandlerIsTracked(h)

\* No lost update.  A commit adds exactly the flow's own debits and credits to
\* the balances of that instant, whatever was committed between the
\* handler's reads and its TransactWriteItems, and nothing else moves money
\* (loadBalance / UpdateBalance / Commit in dynamo/tx.go).
NoLostUpdate ==
    [][ \/ log' = log /\ bal' = bal
        \/ \E r \in Requests :
              /\ log' = Append(log, r)
              /\ \A a \in Accounts :
                    IF a \in AccountsOf(r)
                    THEN /\ bal'[a].debits = bal[a].debits + DebitOf(r, a)
                         /\ bal'[a].credits = bal[a].credits + CreditOf(r, a)
                    ELSE bal'[a] = bal[a]
      ]_vars

\* Exactly once.  No two committed flows share an idempotency key or a journal
\* event id, for all the retries, lost answers, key reuse and concurrent
\* duplicates (the FIDEMP# and EVT# conditions of InsertFlowRun and
\* InsertJournal).
ExactlyOnce ==
    \A i, j \in DOMAIN log :
        i # j => /\ log[i].key # log[j].key
                 /\ Events(log[i]) \cap Events(log[j]) = {}

\* A non-overdraft account is never negative, although every handler decides
\* on balances it read some steps before it commits (execute_flow.go's final
\* check under the lock-set = write-set rule of the dynamo README).
NonNegative ==
    \A a \in Accounts : ~ Overdrawn(a, bal[a].debits, bal[a].credits)

\* The balance rows are the sums of the journals: replaying the committed
\* flows gives every stored debit and credit total.
BalancesMatchJournals == BooksMatch(bal, log)

\* The books balance: per currency, total debits equal total credits.
TrialBalance == BooksBalance(bal)

\* None of the request's event ids is posted.
EventsAreFree(r) == Events(r) \cap EventsIn(log) = {}

ReplyIsTrue(h) ==
    /\ reply[h] = "OK" => req[h].key \in KeysIn(log)
    /\ reply[h] = "FLOW_CONFLICT" => ~ KeyIsFree(req[h]) \/ ~ EventsAreFree(req[h])
    /\ reply[h] = "SERIALIZATION_RETRY_EXHAUSTED" => Len(log) > began[h]

\* What the caller is told is true: OK means the key's flow is posted (by this
\* attempt or an earlier one), FLOW_CONFLICT that the key or one of the event
\* ids is taken, and SERIALIZATION_RETRY_EXHAUSTED that some flow committed
\* since this attempt began, so that a retry storm always makes progress.
RepliesAreTrue == \A h \in Handlers : ReplyIsTrue(h)

\* A version conflict is reported only for a flow that can still be posted:
\* neither its key nor any of its event ids is taken, although a duplicate
\* nearly always finds the balances changed as well.  Commit's answer depends
\* on the order in which executeFlowInTx buffered its puts, the markers before
\* the balances.
RetryOnlyIfNotPosted ==
    [][ \A h \in Handlers :
          (reply'[h] = "SERIALIZATION_RETRY_EXHAUSTED" /\ reply[h] # reply'[h])
              => /\ req[h].key \notin KeysIn(log')
                 /\ Events(req[h]) \cap EventsIn(log') = {} ]_vars

\* The row is what account a held at some instant since the history counted
\* that many flows.
Held(posted, from, a, row) ==
    \E n \in from .. Len(posted) :
        LET before == SubSeq(posted, 1, n)
        IN  row.debits = PostedDebits(before, a) /\ row.credits = PostedCredits(before, a)

\* Whatever a handler works on was the table's balance at some instant since
\* its attempt began, each account at an instant of its own: nothing read is
\* carried over from an earlier attempt, and the zeros that loadBalance
\* assumes between its two reads were the balance when it first looked.
ReadsWereTrue ==
    \A h \in Handlers :
        /\ \A a \in loaded[h] : Held(log, began[h], a, ov[h][a])
        /\ pc[h] = "probe" =>
              \A a \in Pending(h) : IsNext(h, a) => Held(log, began[h], a, ZeroRow)

\* Posting the request at some instant since then would have left one of its
\* accounts negative.
RefusedSince(posted, from, r) ==
    \E n \in from .. Len(posted), a \in AccountsOf(r) :
        LET before == SubSeq(posted, 1, n)
        IN  Overdrawn(a, PostedDebits(before, a) + DebitOf(r, a),
                         PostedCredits(before, a) + CreditOf(r, a))

\* An overdraft refusal is justified although nothing validates the reads it
\* rests on: at some instant since the attempt began, posting the flow would
\* have left one of its accounts negative (execute_flow.go's final check,
\* after which the Tx is rolled back without a conditional write).
RefusedForCause ==
    \A h \in Handlers :
        reply[h] = "INSUFFICIENT_FUNDS" => RefusedSince(log, began[h], req[h])

\* Both: all that executeFlowInTx decides on, and refuses for, was so during
\* the attempt, however long ago its first read was.
AttemptsAreTrue == ReadsWereTrue /\ RefusedForCause

\* The promise: every committed flow is one atomic step of AtomicLedger.
Promise == INSTANCE AtomicLedger WITH
    opened <- accounts,
    book <- [a \in Accounts |-> [debits |-> bal[a].debits, credits |-> bal[a].credits]],
    history <- log

\* The optimistic protocol implements the atomic ledger: reads at different
\* instants and a conditional write are indistinguishable from one step that
\* checks and posts.
ImplementsAtomicLedger == Promise!ASpec

\* The flow is not posted and never can be: one of its event ids is posted
\* under another key.
EventIdTaken(h) == KeyIsFree(req[h]) /\ ~ EventsAreFree(req[h])

\* A persistent caller gets a definite answer: its request is eventually posted
\* or refused for good, or it is told FLOW_CONFLICT for an event id that another
\* flow has taken, the one case in which its loop goes round for nothing.
EverySubmissionSettles ==
    \A h \in Handlers :
        Running(h) ~> /\ pc[h] = "done"
                      /\ \/ reply[h] \notin Retryable
                         \/ reply[h] = "FLOW_CONFLICT" /\ EventIdTaken(h)
=============================================================================
