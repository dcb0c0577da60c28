-------------------------- MODULE DynamoFlowProofs --------------------------
(***************************************************************************)
(* Theorems about DynamoFlow, for any sets of accounts, requests and       *)
(* handlers and any number of faults.                                      *)
(*                                                                         *)
(* The argument is the usual one for optimistic concurrency control.       *)
(* OccInvariant relates what each handler has read to what the table holds *)
(* now; its heart is that a version never names two contents of a row.     *)
(* When the conditions of Commit hold, the overlay is therefore the table  *)
(* of this instant (CommitReadsCurrent), and everything the handler        *)
(* checked some steps ago is true at the instant of the write.             *)
(***************************************************************************)
EXTENDS DynamoFlow, LedgerTheorems, WellFoundedInduction, TLAPS

PCs == {"idle", "lookup", "load", "probe", "commit", "done"}

IInv == TypeOK /\ OccInvariant

\* What Lookup ... Apply, CommitCancelled and Abandon leave alone.
SameTable == UNCHANGED <<accounts, rows, bal, log>>

-----------------------------------------------------------------------------
(* The operators.                                                          *)

\* An empty row is not overdrawn.
LEMMA ZeroNotOverdrawn ==
    ASSUME NEW a \in Accounts
    PROVE  ~ Overdrawn(a, 0, 0)
BY DEF Overdrawn, NormalizedBalance

\* The accounts that come before one in the sorted list are finitely many.
LEMMA AccountsBefore ==
    ASSUME NEW r \in Requests, NEW a
    PROVE  Cardinality({b \in AccountsOf(r) : b < a}) \in Nat
<1>1. IsFiniteSet({b \in AccountsOf(r) : b < a})
  BY RequestTotals, AccountsAssumption, FS_Subset
<1> QED BY <1>1, FS_CardinalityType

\* The place of an account's BAL# put.
BalancePlace(r, a) == 3 * Len(r.steps) + 3 + Cardinality({b \in AccountsOf(r) : b < a})

\* What is in the buffer, and where: the puts of InsertFlowRun, those of each
\* step, and one per account.
LEMMA PutsAre ==
    ASSUME NEW r, NEW p \in Puts(r)
    PROVE  \/ p.kind \in {"FLOW", "FIDEMP"} /\ p.at \in {1, 2}
           \/ /\ p.kind \in {"JRN", "EVT", "OBX"}
              /\ p.of \in DOMAIN r.steps
              /\ p.at \in {3 * p.of, 3 * p.of + 1, 3 * p.of + 2}
           \/ /\ p.kind = "BAL"
              /\ p.of \in AccountsOf(r)
              /\ p.at = BalancePlace(r, p.of)
<1>1. CASE p \in InsertFlowRun(r)
  <2>1. PICK k \in {"FLOW", "FIDEMP"}, n \in {1, 2} : p = Put(k, 0, n)
    BY <1>1 DEF InsertFlowRun
  <2> QED BY <2>1 DEF Put
<1>2. CASE p \in InsertSteps(r)
  <2>1. PICK i \in DOMAIN r.steps :
           p \in {Put("JRN", i, 3 * i), Put("EVT", i, 3 * i + 1), Put("OBX", i, 3 * i + 2)}
    BY <1>2 DEF InsertSteps
  <2>2. p.of = i /\ p.kind \in {"JRN", "EVT", "OBX"}
        /\ p.at \in {3 * i, 3 * i + 1, 3 * i + 2}
    BY <2>1 DEF Put
  <2> QED BY <2>2
<1>3. CASE p \in UpdateBalances(r)
  <2>1. PICK a \in AccountsOf(r) : p = Put("BAL", a, BalancePlace(r, a))
    BY <1>3 DEF UpdateBalances, BalancePlace
  <2>2. p.kind = "BAL" /\ p.of = a /\ p.at = BalancePlace(r, a)
    BY <2>1 DEF Put
  <2> QED BY <2>2
<1> QED BY <1>1, <1>2, <1>3 DEF Puts

\* A put's place in t.order is a number, and the markers come before the
\* balances (InsertFlowRun, InsertJournal and then UpdateBalance in
\* executeFlowInTx).
LEMMA MarkersFirst ==
    ASSUME NEW r \in Requests
    PROVE  /\ \A p \in Puts(r) : p.at \in Nat
           /\ \A p, q \in Puts(r) : p.kind # "BAL" /\ q.kind = "BAL" => p.at < q.at
<1>1. Len(r.steps) \in Nat /\ DOMAIN r.steps = 1 .. Len(r.steps)
  BY RequestShape
<1>2. ASSUME NEW a
      PROVE  BalancePlace(r, a) \in Nat /\ BalancePlace(r, a) >= 3 * Len(r.steps) + 3
  <2> DEFINE n == Cardinality({b \in AccountsOf(r) : b < a})
  <2>1. n \in Nat
    BY AccountsBefore
  <2>2. BalancePlace(r, a) = 3 * Len(r.steps) + 3 + n
    BY DEF BalancePlace
  <2> HIDE DEF n
  <2> QED BY <1>1, <2>1, <2>2
<1>3. \A p \in Puts(r) : p.kind # "BAL" => p.at \in Nat /\ p.at < 3 * Len(r.steps) + 3
  BY <1>1, PutsAre
<1>4. \A p \in Puts(r) : p.kind = "BAL" => p.at \in Nat /\ p.at >= 3 * Len(r.steps) + 3
  BY <1>2, PutsAre
<1> QED BY <1>1, <1>3, <1>4

\* The buffer holds the FIDEMP# marker, an EVT# marker per step and a BAL# item
\* per account.
LEMMA PutsOf ==
    ASSUME NEW r
    PROVE  /\ \E p \in Puts(r) : p.kind = "FIDEMP"
           /\ \A i \in DOMAIN r.steps : \E p \in Puts(r) : p.kind = "EVT" /\ p.of = i
           /\ \A a \in AccountsOf(r) : \E p \in Puts(r) : p.kind = "BAL" /\ p.of = a
<1>1. \E p \in Puts(r) : p.kind = "FIDEMP"
  <2>1. Put("FIDEMP", 0, 2) \in Puts(r)
    BY DEF Puts, InsertFlowRun
  <2>2. Put("FIDEMP", 0, 2).kind = "FIDEMP"
    BY DEF Put
  <2> QED BY <2>1, <2>2
<1>2. ASSUME NEW i \in DOMAIN r.steps
      PROVE  \E p \in Puts(r) : p.kind = "EVT" /\ p.of = i
  <2> DEFINE p == Put("EVT", i, 3 * i + 1)
  <2>1. p \in Puts(r)
    BY DEF Puts, InsertSteps
  <2>2. p.kind = "EVT" /\ p.of = i
    BY DEF Put
  <2> QED BY <2>1, <2>2
<1>3. ASSUME NEW a \in AccountsOf(r)
      PROVE  \E p \in Puts(r) : p.kind = "BAL" /\ p.of = a
  <2> DEFINE p == Put("BAL", a, BalancePlace(r, a))
  <2>1. p \in Puts(r)
    BY DEF Puts, UpdateBalances, BalancePlace
  <2>2. p.kind = "BAL" /\ p.of = a
    BY DEF Put
  <2> QED BY <2>1, <2>2
<1> QED BY <1>1, <1>2, <1>3

\* When the conditions of those puts hold, the key, the event ids and the
\* balances are as the flow needs them.
LEMMA HoldsMeans ==
    ASSUME NEW h
    PROVE  /\ (\A p \in Puts(req[h]) : p.kind = "FIDEMP" => Holds(h, p)) => KeyIsFree(req[h])
           /\ (\A p \in Puts(req[h]) : p.kind = "EVT" => Holds(h, p)) => EventsAreFree(req[h])
           /\ (\A p \in Puts(req[h]) : p.kind = "BAL" => Holds(h, p))
                 => \A a \in AccountsOf(req[h]) : BalanceCondition(h, a)
<1>1. ASSUME \A p \in Puts(req[h]) : p.kind = "FIDEMP" => Holds(h, p)
      PROVE  KeyIsFree(req[h])
  BY <1>1, PutsOf DEF Holds
<1>2. ASSUME \A p \in Puts(req[h]) : p.kind = "EVT" => Holds(h, p)
      PROVE  EventsAreFree(req[h])
  <2>1. ASSUME NEW i \in DOMAIN req[h].steps PROVE EventIsFree(req[h].steps[i].event)
    <3>1. PICK p \in Puts(req[h]) : p.kind = "EVT" /\ p.of = i
      BY PutsOf
    <3>2. EventIsFree(req[h].steps[p.of].event)
      BY <1>2, <3>1 DEF Holds
    <3> QED BY <3>1, <3>2
  <2> QED BY <2>1 DEF EventIsFree, EventsAreFree, Events
<1>3. ASSUME \A p \in Puts(req[h]) : p.kind = "BAL" => Holds(h, p),
             NEW a \in AccountsOf(req[h])
      PROVE  BalanceCondition(h, a)
  <2>1. PICK p \in Puts(req[h]) : p.kind = "BAL" /\ p.of = a
    BY PutsOf
  <2>2. BalanceCondition(h, p.of)
    BY <1>3, <2>1 DEF Holds
  <2> QED BY <2>1, <2>2
<1> QED BY <1>1, <1>2, <1>3

\* A write lands only where its key, its event ids and its balances allow it.
LEMMA WriteConditions ==
    ASSUME NEW h \in Handlers, Failed(h) = {}
    PROVE  /\ KeyIsFree(req[h])
           /\ EventsAreFree(req[h])
           /\ \A a \in AccountsOf(req[h]) : BalanceCondition(h, a)
<1>1. \A p \in Puts(req[h]) : Holds(h, p)
  BY DEF Failed
<1> QED BY <1>1, HoldsMeans

\* Of the failed conditions there is a first, which is the one Commit reports.
LEMMA FirstFailedIsFirst ==
    ASSUME NEW h \in Handlers, req[h] \in Requests, Failed(h) # {}
    PROVE  /\ FirstFailed(h) \in Failed(h)
           /\ \A q \in Failed(h) : FirstFailed(h).at <= q.at
<1> DEFINE T == {p.at : p \in Failed(h)}
<1>1. \A p \in Failed(h) : p.at \in Nat
  BY MarkersFirst DEF Failed
<1>2. T \subseteq Nat /\ T # {}
  BY <1>1
<1>3. PICK x \in T : \A y \in T : ~ (<<y, x>> \in OpToRel(<, Nat))
  BY <1>2, NatLessThanWellFounded, WFMin
<1>4. \A y \in T : ~ (y < x)
  BY <1>2, <1>3 DEF OpToRel
<1>5. \E p \in Failed(h) : \A q \in Failed(h) : p.at <= q.at
  <2>1. PICK p \in Failed(h) : x = p.at
    BY <1>3
  <2>2. ASSUME NEW q \in Failed(h) PROVE p.at <= q.at
    <3>1. ~ (q.at < p.at) /\ q.at \in Nat /\ p.at \in Nat
      BY <1>1, <1>4, <2>1
    <3> QED BY <3>1
  <2> QED BY <2>2
<1> QED BY <1>5 DEF FirstFailed

\* What Commit's classification amounts to, given the order of the puts: a
\* retryable conflict only where the key and every event id are free and some
\* balance changed, a duplicate only where one of them is taken.
LEMMA ConflictTells ==
    ASSUME NEW h \in Handlers, req[h] \in Requests, Failed(h) # {}
    PROVE  \/ /\ ConflictCode(h) = "SERIALIZATION_RETRY_EXHAUSTED"
              /\ KeyIsFree(req[h]) /\ EventsAreFree(req[h])
              /\ \E a \in AccountsOf(req[h]) : ~ BalanceCondition(h, a)
           \/ /\ ConflictCode(h) = "FLOW_CONFLICT"
              /\ ~ (KeyIsFree(req[h]) /\ EventsAreFree(req[h]))
<1> DEFINE p == FirstFailed(h)
<1>1. p \in Puts(req[h]) /\ ~ Holds(h, p) /\ \A q \in Failed(h) : p.at <= q.at
  BY FirstFailedIsFirst DEF Failed
<1>2. CASE p.kind = "BAL"
  <2>1. ConflictCode(h) = "SERIALIZATION_RETRY_EXHAUSTED"
    BY <1>2 DEF ConflictCode
  <2>2. p.of \in AccountsOf(req[h]) /\ ~ BalanceCondition(h, p.of)
    BY <1>1, <1>2, PutsAre DEF Holds
  <2>3. ASSUME NEW q \in Puts(req[h]), q.kind # "BAL" PROVE Holds(h, q)
    <3>1. q.at < p.at /\ q.at \in Nat /\ p.at \in Nat
      BY <1>1, <1>2, <2>3, MarkersFirst
    <3>2. q \notin Failed(h)
      BY <1>1, <3>1
    <3> QED BY <3>2 DEF Failed
  <2>4. KeyIsFree(req[h]) /\ EventsAreFree(req[h])
    BY <2>3, HoldsMeans
  <2> QED BY <2>1, <2>2, <2>4
<1>3. CASE p.kind # "BAL"
  <2>1. ConflictCode(h) = "FLOW_CONFLICT"
    BY <1>3 DEF ConflictCode, VersionEquals
  <2>2. CASE p.kind = "FIDEMP"
    BY <1>1, <2>1, <2>2 DEF Holds
  <2>3. CASE p.kind = "EVT"
    <3>1. p.of \in DOMAIN req[h].steps /\ ~ EventIsFree(req[h].steps[p.of].event)
      BY <1>1, <2>3, PutsAre DEF Holds
    <3>2. ~ EventsAreFree(req[h])
      BY <3>1 DEF EventIsFree, EventsAreFree, Events
    <3> QED BY <2>1, <3>2
  <2> QED BY <1>1, <1>3, <2>2, <2>3 DEF Holds
<1> QED BY <1>2, <1>3

\* What a rewritten row holds (the record UpdateBalance buffers).
LEMMA NewRowType ==
    ASSUME TypeOK, NEW h \in Handlers, Parses(req[h]), NEW a \in Accounts
    PROVE  /\ NewDebits(h, a) \in Nat
           /\ NewCredits(h, a) \in Nat
           /\ ov[h][a].version + 1 \in Nat
<1>1. req[h] \in Requests /\ ov[h][a] \in Row
  BY DEF TypeOK
<1>2. DebitOf(req[h], a) \in Nat /\ CreditOf(req[h], a) \in Nat
  BY <1>1, RequestTotals
<1> QED
  BY <1>1, <1>2 DEF NewDebits, NewCredits, Row

\* Answering leaves handler variables of the right kind.
LEMMA AnswerType ==
    ASSUME TypeOK, NEW h \in Handlers, NEW code \in Codes, Answer(h, code)
    PROVE  /\ pc' \in [Handlers -> PCs]
           /\ reply' \in [Handlers -> Codes]
           /\ loaded' \in [Handlers -> SUBSET Accounts]
           /\ existed' \in [Handlers -> SUBSET Accounts]
           /\ ov' \in [Handlers -> [Accounts -> Row]]
BY DEF TypeOK, Answer, Row, ZeroRow, PCs

-----------------------------------------------------------------------------
(* Type correctness.                                                       *)

\* The empty table and idle handlers have their types.
LEMMA InitType == Init => TypeOK
<1> SUFFICES ASSUME Init PROVE TypeOK
  OBVIOUS
<1>1. ZeroRow \in Row
  BY DEF ZeroRow, Row
<1>2. (CHOOSE r \in Requests : TRUE) \in Requests
  BY RequestsAssumption
<1>3. log \in Seq(Requests)
  BY DEF Init
<1> QED
  BY <1>1, <1>2, <1>3, MaxFaultsAssumption DEF Init, TypeOK, Codes

\* A request that arrives leaves every variable of the right kind.
LEMMA BeginType ==
    ASSUME IInv, NEW h \in Handlers, NEW r \in Requests, Begin(h, r)
    PROVE  TypeOK'
<1> USE DEF IInv
<1>0. "UNBALANCED_JOURNAL" \in Codes /\ "NONE" \in Codes
  BY DEF Codes, Rejections
<1>1. req' \in [Handlers -> Requests] /\ began' \in [Handlers -> Nat]
  BY DEF Begin, TypeOK
<1>2. SameTable /\ faults' = faults
  BY DEF Begin, SameTable
<1>3. /\ pc' \in [Handlers -> PCs]
      /\ reply' \in [Handlers -> Codes]
      /\ loaded' \in [Handlers -> SUBSET Accounts]
      /\ existed' \in [Handlers -> SUBSET Accounts]
      /\ ov' \in [Handlers -> [Accounts -> Row]]
  <2>1. CASE Parses(r)
    BY <1>0, <2>1 DEF Begin, TypeOK, tx, PCs
  <2>2. CASE ~ Parses(r)
    BY <1>0, <2>2, AnswerType DEF Begin
  <2> QED BY <2>1, <2>2
<1> QED
  BY <1>1, <1>2, <1>3 DEF TypeOK, SameTable, PCs

\* Every step preserves the types.  OccInvariant is needed because a commit
\* adds the totals of a request that was parsed some steps before.
LEMMA NextType == IInv /\ [Next]_vars => TypeOK'
<1> SUFFICES ASSUME IInv, [Next]_vars PROVE TypeOK'
  OBVIOUS
<1> USE DEF IInv
<1>c. {"OK", "UNKNOWN", "ACCOUNT_NOT_FOUND", "ACCOUNT_CURRENCY_MISMATCH",
       "UNBALANCED_JOURNAL", "INSUFFICIENT_FUNDS", "FLOW_TOO_LARGE",
       "SERIALIZATION_RETRY_EXHAUSTED", "FLOW_CONFLICT", "NONE"} \subseteq Codes
  BY DEF Codes, Rejections, Retryable
<1>1. CASE UNCHANGED vars
  BY <1>1 DEF TypeOK, vars
<1>2. ASSUME NEW a \in Accounts, CreateAccount(a) PROVE TypeOK'
  BY <1>2 DEF TypeOK, CreateAccount
<1>3. ASSUME NEW h \in Handlers, NEW r \in Requests, Submit(h, r) PROVE TypeOK'
  BY <1>3, BeginType DEF Submit
<1>4. ASSUME NEW h \in Handlers, Retry(h) PROVE TypeOK'
  <2>1. req[h] \in Requests
    BY DEF TypeOK
  <2> QED BY <1>4, <2>1, BeginType DEF Retry
<1>5. ASSUME NEW h \in Handlers, GiveUp(h) PROVE TypeOK'
  BY <1>5, <1>c DEF TypeOK, GiveUp
<1>6. ASSUME NEW h \in Handlers, Lookup(h) PROVE TypeOK'
  <2>1. CASE Replays(h)
    <3>1. Answer(h, "OK")
      BY <1>6, <2>1 DEF Lookup
    <3> QED BY <1>6, <3>1, <1>c, AnswerType DEF Lookup, TypeOK, PCs
  <2>2. CASE ~ Replays(h)
    BY <1>6, <2>2 DEF Lookup, TypeOK
  <2> QED BY <2>1, <2>2
<1>7. ASSUME NEW h \in Handlers, NEW a \in Accounts, Load(h, a) PROVE TypeOK'
  <2>1. CASE AccountError(h, a) # "NONE"
    <3>1. AccountError(h, a) \in Codes
      BY <1>c DEF AccountError
    <3>2. Answer(h, AccountError(h, a))
      BY <1>7, <2>1 DEF Load
    <3> QED BY <1>7, <3>1, <3>2, AnswerType DEF Load, TypeOK, PCs
  <2>2. CASE AccountError(h, a) = "NONE"
    <3>1. CASE bal[a] = ZeroRow
      BY <1>7, <2>2, <3>1 DEF Load, TypeOK
    <3>2. CASE bal[a] # ZeroRow
      <4>1. /\ loaded' = [loaded EXCEPT ![h] = @ \cup {a}]
            /\ existed' = [existed EXCEPT ![h] = @ \cup {a}]
            /\ ov' = [ov EXCEPT ![h][a] = bal[a]]
            /\ UNCHANGED <<accounts, rows, bal, log, pc, req, reply, began, faults>>
        BY <1>7, <2>2, <3>2 DEF Load
      <4>2. bal[a] \in Row
        BY DEF TypeOK
      <4> QED BY <4>1, <4>2 DEF TypeOK
    <3> QED BY <3>1, <3>2
  <2> QED BY <2>1, <2>2
<1>8. ASSUME NEW h \in Handlers, NEW a \in Accounts, Probe(h, a) PROVE TypeOK'
  <2>1. ZeroRow \in Row
    BY DEF ZeroRow, Row
  <2> QED BY <1>8, <2>1 DEF Probe, TypeOK
<1>9. ASSUME NEW h \in Handlers, Apply(h) PROVE TypeOK'
  <2>1. CASE pc' = [pc EXCEPT ![h] = "commit"] /\ UNCHANGED <<reply, loaded, existed, ov>>
    BY <1>9, <2>1 DEF Apply, TypeOK
  <2>2. ASSUME NEW code \in Codes, Answer(h, code) PROVE TypeOK'
    BY <1>9, <2>2, AnswerType DEF Apply, TypeOK, PCs
  <2> QED BY <1>9, <1>c, <2>1, <2>2 DEF Apply
<1>10. ASSUME NEW h \in Handlers, NEW code \in Codes, Write(h), Answer(h, code),
              faults' \in 0 .. MaxFaults
       PROVE  TypeOK'
  <2>1. req[h] \in Requests /\ Parses(req[h]) /\ AccountsOf(req[h]) \subseteq Accounts
    BY <1>10, RequestTotals DEF Write, OccInvariant, HandlerIsTracked, Running, ReadsAreTracked, TypeOK
  <2>2. bal' \in [Accounts -> Row]
    <3>1. \A a \in Accounts :
             [debits |-> NewDebits(h, a), credits |-> NewCredits(h, a),
              version |-> ov[h][a].version + 1] \in Row
      BY <2>1, NewRowType DEF Row
    <3>2. \A a \in Accounts : bal[a] \in Row
      BY DEF TypeOK
    <3> QED BY <1>10, <3>1, <3>2 DEF Write
  <2>3. log' \in Seq(Requests)
    BY <1>10, <2>1 DEF Write, TypeOK
  <2>4. rows' \subseteq Accounts
    BY <1>10, <2>1 DEF Write, TypeOK
  <2> QED BY <1>10, <2>2, <2>3, <2>4, AnswerType DEF Write, TypeOK, PCs
<1>11. ASSUME NEW h \in Handlers, Commit(h) PROVE TypeOK'
  <2>1. faults' \in 0 .. MaxFaults
    BY <1>11 DEF Commit, TypeOK
  <2> QED BY <1>11, <1>10, <1>c, <2>1 DEF Commit
<1>12. ASSUME NEW h \in Handlers, CommitLost(h) PROVE TypeOK'
  <2>1. faults' \in 0 .. MaxFaults
    BY <1>12, MaxFaultsAssumption DEF CommitLost, TypeOK
  <2> QED BY <1>12, <1>10, <1>c, <2>1 DEF CommitLost
<1>13. ASSUME NEW h \in Handlers, CommitCancelled(h) PROVE TypeOK'
  <2>1. ConflictCode(h) \in Codes
    BY <1>c DEF ConflictCode
  <2> QED BY <1>13, <2>1, AnswerType DEF CommitCancelled, TypeOK, PCs
<1>14. ASSUME NEW h \in Handlers, Abandon(h) PROVE TypeOK'
  <2>1. faults' \in 0 .. MaxFaults
    BY <1>14, MaxFaultsAssumption DEF Abandon, TypeOK
  <2> QED BY <1>14, <1>c, <2>1, AnswerType DEF Abandon, TypeOK, PCs
<1> QED
  BY <1>1, <1>2, <1>3, <1>4, <1>5, <1>6, <1>7, <1>8, <1>9, <1>11, <1>12, <1>13, <1>14
  DEF Next, Step

-----------------------------------------------------------------------------
(* The optimistic protocol.                                                *)

\* What CommitReadsCurrent is for: the conditions of a write hold, so the
\* handler's overlay is the table of this instant.
LEMMA CommitReadsCurrent ==
    ASSUME IInv, NEW h \in Handlers, Write(h)
    PROVE  /\ req[h] \in Requests
           /\ Parses(req[h])
           /\ Valid(req[h])
           /\ AccountsOf(req[h]) \subseteq Accounts
           /\ AccountsOf(req[h]) \subseteq accounts
           /\ \A a \in AccountsOf(req[h]) :
                 /\ ov[h][a] = bal[a]
                 /\ CurrencyMatches(req[h], a)
                 /\ ~ Overdrawn(a, NewDebits(h, a), NewCredits(h, a))
<1>1. ReadsAreTracked(h) /\ CommitIsChecked(h) /\ req[h] \in Requests
  BY DEF IInv, OccInvariant, HandlerIsTracked, Running, Write, TypeOK
<1>2. AccountsOf(req[h]) \subseteq Accounts
  BY <1>1, RequestTotals
<1>3. ASSUME NEW a \in AccountsOf(req[h]) PROVE ov[h][a] = bal[a]
  <2>1. a \in loaded[h] /\ a \in Accounts /\ BalanceCondition(h, a)
    BY <1>1, <1>2, WriteConditions DEF CommitIsChecked, Write
  <2>2. CASE a \in existed[h]
    BY <1>1, <2>1, <2>2 DEF ReadsAreTracked, BalanceCondition
  <2>3. CASE a \notin existed[h]
    BY <1>1, <2>1, <2>3 DEF ReadsAreTracked, BalanceCondition, IInv, OccInvariant, RowsHaveVersions
  <2> QED BY <2>2, <2>3
<1> QED
  BY <1>1, <1>2, <1>3 DEF ReadsAreTracked, CommitIsChecked, WouldOverdraw

-----------------------------------------------------------------------------
(* The optimistic protocol: OccInvariant is inductive.                     *)

\* How the table may change under a handler that is not looking: items are
\* added, and a balance row changes only with its version and the log.
Advances ==
    /\ accounts \subseteq accounts'
    /\ rows \subseteq rows'
    /\ Len(log) <= Len(log')
    /\ \A a \in Accounts :
          \/ bal'[a] = bal[a]
          \/ bal'[a].version > bal[a].version /\ Len(log) < Len(log')

\* A handler that takes no step keeps its part of the invariant.
LEMMA OthersKeep ==
    ASSUME IInv, TypeOK', Advances, NEW g \in Handlers,
           pc'[g] = pc[g], req'[g] = req[g], began'[g] = began[g],
           loaded'[g] = loaded[g], existed'[g] = existed[g], ov'[g] = ov[g]
    PROVE  HandlerIsTracked(g)'
<1>1. HandlerIsTracked(g)
  BY DEF IInv, OccInvariant
<1>2. CASE ~ Running(g)
  BY <1>1, <1>2 DEF HandlerIsTracked, Running
<1>3. CASE Running(g)
  <2>1. ReadsAreTracked(g) /\ Running(g)'
    BY <1>1, <1>3 DEF HandlerIsTracked, Running
  <2>2. began[g] \in Nat /\ Len(log) \in Nat /\ Len(log') \in Nat /\ req[g] \in Requests
    BY DEF IInv, TypeOK
  <2>3. \A a \in Accounts : ov[g][a] \in Row /\ bal[a] \in Row /\ bal'[a] \in Row
    BY DEF IInv, TypeOK
  <2>4. \A a \in Accounts : ov[g][a].version \in Nat /\ bal[a].version \in Nat /\ bal'[a].version \in Nat
    BY <2>3 DEF Row
  <2>5. loaded[g] \subseteq Accounts /\ AccountsOf(req[g]) \subseteq Accounts
    BY <2>2, RequestTotals DEF IInv, TypeOK
  <2>6. ASSUME NEW a \in loaded'[g]
        PROVE  /\ CurrencyMatches(req'[g], a)
               /\ ov'[g][a].version <= bal'[a].version
               /\ ov'[g][a].version = bal'[a].version => ov'[g][a] = bal'[a]
               /\ IF a \in existed'[g] THEN a \in rows' ELSE ov'[g][a] = ZeroRow
               /\ ov'[g][a] # bal'[a] => began'[g] < Len(log')
    <3>1. a \in loaded[g] /\ a \in Accounts
      BY <2>5
    <3>2. CASE bal'[a] = bal[a]
      BY <3>1, <3>2, <2>1, <2>2 DEF ReadsAreTracked, Advances
    <3>3. CASE bal'[a].version > bal[a].version /\ Len(log) < Len(log')
      BY <3>1, <3>3, <2>1, <2>2, <2>4 DEF ReadsAreTracked, Advances
    <3> QED BY <3>1, <3>2, <3>3 DEF Advances
  <2>7. ASSUME pc'[g] = "probe", NEW a \in Pending(g)', IsNext(g, a)'
        PROVE  AccountError(g, a)' = "NONE" /\ (bal'[a] # ZeroRow => began'[g] < Len(log'))
    <3>1. pc[g] = "probe" /\ a \in Pending(g) /\ IsNext(g, a) /\ a \in Accounts
      BY <2>7, <2>5 DEF Pending, IsNext
    <3>2. AccountError(g, a) = "NONE" /\ (bal[a] # ZeroRow => began[g] < Len(log))
      BY <2>1, <3>1 DEF ReadsAreTracked
    <3>3. AccountError(g, a)' = "NONE"
      BY <3>2 DEF AccountError, Advances
    <3>4. bal'[a] = bal[a] \/ began[g] < Len(log')
      BY <2>1, <2>2, <3>1 DEF Advances, ReadsAreTracked
    <3>5. bal'[a] # ZeroRow => began'[g] < Len(log')
      BY <2>2, <3>2, <3>4 DEF Advances
    <3> QED BY <3>3, <3>5
  <2>8. ReadsAreTracked(g)'
    <3>1. /\ Parses(req'[g])
          /\ began'[g] <= Len(log')
          /\ pc'[g] = "lookup" => loaded'[g] = {}
          /\ existed'[g] \subseteq loaded'[g]
          /\ loaded'[g] \subseteq AccountsOf(req'[g]) \cap accounts'
      BY <2>1, <2>2 DEF ReadsAreTracked, Advances
    <3> QED BY <3>1, <2>6, <2>7 DEF ReadsAreTracked
  <2>9. pc'[g] = "commit" => CommitIsChecked(g)'
    BY <1>1 DEF HandlerIsTracked, CommitIsChecked, WouldOverdraw, NewDebits, NewCredits
  <2> QED BY <2>1, <2>8, <2>9 DEF HandlerIsTracked
<1> QED BY <1>2, <1>3

\* A handler that has answered has no overlay.
LEMMA AnswerTracked ==
    ASSUME TypeOK, NEW h \in Handlers, NEW code, Answer(h, code)
    PROVE  HandlerIsTracked(h)'
BY DEF TypeOK, Answer, HandlerIsTracked, Running

\* The table as a whole: what one step of a handler does to it and to the
\* other handlers.
LEMMA QuietStep ==
    ASSUME IInv, TypeOK', NEW h \in Handlers, SameTable,
           \A g \in Handlers \ {h} :
              /\ pc'[g] = pc[g] /\ req'[g] = req[g] /\ began'[g] = began[g]
              /\ loaded'[g] = loaded[g] /\ existed'[g] = existed[g] /\ ov'[g] = ov[g],
           HandlerIsTracked(h)'
    PROVE  OccInvariant'
<1>1. Advances
  BY DEF SameTable, Advances, IInv, TypeOK
<1>2. RowsHaveVersions'
  BY DEF SameTable, RowsHaveVersions, IInv, OccInvariant
<1>3. \A g \in Handlers \ {h} : HandlerIsTracked(g)'
  BY <1>1, OthersKeep
<1> QED
  BY <1>2, <1>3 DEF OccInvariant

\* No handler has read anything at the start.
LEMMA InitOcc == Init => OccInvariant
BY DEF Init, OccInvariant, RowsHaveVersions, HandlerIsTracked, Running

\* A new or retried attempt begins with an empty overlay (BeginFlowTx).
LEMMA BeginOcc ==
    ASSUME IInv, TypeOK', NEW h \in Handlers, NEW r \in Requests,
           ~ Running(h), pc[h] # "commit", Begin(h, r)
    PROVE  OccInvariant'
<1>1. loaded[h] = {} /\ existed[h] = {}
  BY DEF IInv, OccInvariant, HandlerIsTracked
<1>2. SameTable
  BY DEF Begin, SameTable
<1>3. CASE Parses(r)
  <2>1. /\ pc' = [pc EXCEPT ![h] = "lookup"]
        /\ req' = [req EXCEPT ![h] = r]
        /\ began' = [began EXCEPT ![h] = Len(log)]
        /\ UNCHANGED <<log, loaded, existed, ov>>
    BY <1>3 DEF Begin, tx
  <2>2. HandlerIsTracked(h)'
    BY <1>1, <1>3, <2>1 DEF HandlerIsTracked, ReadsAreTracked, Running, IInv, TypeOK
  <2> QED BY <1>2, <2>1, <2>2, QuietStep DEF IInv, TypeOK
<1>4. CASE ~ Parses(r)
  <2>1. Answer(h, "UNBALANCED_JOURNAL")
    BY <1>4 DEF Begin
  <2>2. HandlerIsTracked(h)'
    BY <2>1, AnswerTracked DEF IInv
  <2> QED BY <1>2, <2>1, <2>2, QuietStep DEF Begin, Answer, IInv, TypeOK
<1> QED BY <1>3, <1>4

\* A step that answers without writing keeps the invariant (Rollback).
LEMMA AnswerOcc ==
    ASSUME IInv, TypeOK', NEW h \in Handlers, NEW code, Answer(h, code),
           SameTable, req' = req, began' = began
    PROVE  OccInvariant'
<1>1. HandlerIsTracked(h)'
  BY AnswerTracked DEF IInv
<1> QED BY <1>1, QuietStep DEF Answer, IInv, TypeOK

\* At most one account is next in the sorted order.
LEMMA NextIsUnique ==
    ASSUME IInv, NEW h \in Handlers, NEW a, NEW b, IsNext(h, a), IsNext(h, b)
    PROVE  a = b
<1>1. req[h] \in Requests
  BY DEF IInv, TypeOK
<1>2. a \in Nat /\ b \in Nat /\ a <= b /\ b <= a
  BY <1>1, RequestTotals, AccountsAssumption DEF IsNext, Pending
<1> QED BY <1>2

\* The idempotency check reads no balance.
LEMMA LookupOcc ==
    ASSUME IInv, TypeOK', NEW h \in Handlers, Lookup(h)
    PROVE  OccInvariant'
<1>1. CASE Replays(h)
  BY <1>1, AnswerOcc DEF Lookup, SameTable
<1>2. CASE ~ Replays(h)
  <2>1. pc' = [pc EXCEPT ![h] = "load"] /\ UNCHANGED <<loaded, existed, ov, req, began>> /\ SameTable
    BY <1>2 DEF Lookup, SameTable
  <2>2. ReadsAreTracked(h) /\ pc[h] = "lookup"
    BY DEF Lookup, IInv, OccInvariant, HandlerIsTracked, Running
  <2>3. HandlerIsTracked(h)'
    BY <2>1, <2>2 DEF HandlerIsTracked, ReadsAreTracked, Running, SameTable, IInv, TypeOK
  <2> QED BY <2>1, <2>3, QuietStep DEF IInv, TypeOK
<1> QED BY <1>1, <1>2

\* loadBalance reads a row that is there, or sees zeros and goes on to probe.
LEMMA LoadOcc ==
    ASSUME IInv, TypeOK', NEW h \in Handlers, NEW a \in Accounts, Load(h, a)
    PROVE  OccInvariant'
<1>1. ReadsAreTracked(h) /\ pc[h] = "load" /\ IsNext(h, a) /\ SameTable
  BY DEF Load, IInv, OccInvariant, HandlerIsTracked, Running, SameTable
<1>2. CASE AccountError(h, a) # "NONE"
  BY <1>2, AnswerOcc DEF Load, SameTable
<1>3. CASE AccountError(h, a) = "NONE" /\ bal[a] = ZeroRow
  <2>1. pc' = [pc EXCEPT ![h] = "probe"] /\ UNCHANGED <<loaded, existed, ov, req, began>>
    BY <1>3 DEF Load
  <2>2. pc'[h] = "probe"
    BY <2>1 DEF IInv, TypeOK
  <2>3. ASSUME NEW b \in Pending(h)', IsNext(h, b)'
        PROVE  AccountError(h, b)' = "NONE" /\ bal'[b] = ZeroRow
    <3>1. IsNext(h, b)
      BY <2>1, <2>3 DEF IsNext, Pending
    <3>2. b = a
      BY <1>1, <3>1, NextIsUnique
    <3> QED BY <1>1, <1>3, <2>1, <3>2 DEF AccountError, SameTable
  <2>4. ReadsAreTracked(h)'
    BY <1>1, <2>1, <2>2, <2>3 DEF ReadsAreTracked, SameTable
  <2>5. HandlerIsTracked(h)'
    BY <2>2, <2>4 DEF HandlerIsTracked, Running
  <2> QED BY <1>1, <2>1, <2>5, QuietStep DEF IInv, TypeOK
<1>4. CASE AccountError(h, a) = "NONE" /\ bal[a] # ZeroRow
  <2>1. /\ loaded' = [loaded EXCEPT ![h] = @ \cup {a}]
        /\ existed' = [existed EXCEPT ![h] = @ \cup {a}]
        /\ ov' = [ov EXCEPT ![h][a] = bal[a]]
        /\ UNCHANGED <<pc, req, began>>
    BY <1>4 DEF Load
  <2>2. /\ loaded'[h] = loaded[h] \cup {a}
        /\ existed'[h] = existed[h] \cup {a}
        /\ ov'[h] = [ov[h] EXCEPT ![a] = bal[a]]
        /\ pc'[h] = "load"
    BY <1>1, <2>1 DEF IInv, TypeOK
  <2>3. a \in rows /\ bal[a].version \in Nat
    BY <1>4 DEF IInv, OccInvariant, RowsHaveVersions, TypeOK, Row
  <2>4. a \in AccountsOf(req[h]) /\ a \notin loaded[h] /\ a \in accounts /\ CurrencyMatches(req[h], a)
    BY <1>1, <1>4 DEF IsNext, Pending, AccountError
  <2>5. ov'[h][a] = bal[a] /\ \A b \in loaded[h] : ov'[h][b] = ov[h][b]
    BY <2>2, <2>4 DEF IInv, TypeOK
  <2>6. ReadsAreTracked(h)'
    BY <1>1, <2>1, <2>2, <2>3, <2>4, <2>5 DEF ReadsAreTracked, SameTable
  <2>7. HandlerIsTracked(h)'
    BY <2>2, <2>6 DEF HandlerIsTracked, Running
  <2> QED BY <1>1, <2>1, <2>7, QuietStep DEF IInv, TypeOK
<1> QED BY <1>2, <1>3, <1>4

\* The second read of loadBalance.  A row that appeared since the first read
\* is recorded with version 0, which no row has, so the commit will fail.
LEMMA ProbeOcc ==
    ASSUME IInv, TypeOK', NEW h \in Handlers, NEW a \in Accounts, Probe(h, a)
    PROVE  OccInvariant'
<1>1. ReadsAreTracked(h) /\ pc[h] = "probe" /\ IsNext(h, a) /\ SameTable
  BY DEF Probe, IInv, OccInvariant, HandlerIsTracked, Running, SameTable
<1>2. /\ loaded'[h] = loaded[h] \cup {a}
      /\ existed'[h] = IF a \in rows THEN existed[h] \cup {a} ELSE existed[h]
      /\ ov'[h] = [ov[h] EXCEPT ![a] = ZeroRow]
      /\ pc'[h] = "load"
      /\ req'[h] = req[h] /\ began'[h] = began[h]
  BY DEF Probe, IInv, TypeOK
<1>3. a \in AccountsOf(req[h]) /\ a \notin loaded[h] /\ a \notin existed[h]
  BY <1>1 DEF IsNext, Pending, ReadsAreTracked
<1>4. AccountError(h, a) = "NONE" /\ (bal[a] # ZeroRow => began[h] < Len(log))
  BY <1>1 DEF ReadsAreTracked, IsNext
<1>5. a \in accounts /\ CurrencyMatches(req[h], a)
  BY <1>4 DEF AccountError
<1>6. /\ ov'[h][a] = ZeroRow
      /\ \A b \in loaded[h] : ov'[h][b] = ov[h][b]
      /\ ZeroRow.version = 0
      /\ bal[a].version \in Nat
      /\ bal[a].version = 0 => bal[a] = ZeroRow
  BY <1>2, <1>3 DEF IInv, TypeOK, OccInvariant, RowsHaveVersions, ZeroRow, Row
<1>7. ReadsAreTracked(h)'
  <2>1. ASSUME NEW b \in loaded'[h]
        PROVE  /\ CurrencyMatches(req'[h], b)
               /\ ov'[h][b].version <= bal'[b].version
               /\ ov'[h][b].version = bal'[b].version => ov'[h][b] = bal'[b]
               /\ IF b \in existed'[h] THEN b \in rows' ELSE ov'[h][b] = ZeroRow
               /\ ov'[h][b] # bal'[b] => began'[h] < Len(log')
    <3>1. CASE b = a
      BY <3>1, <1>1, <1>2, <1>3, <1>4, <1>5, <1>6 DEF SameTable
    <3>2. CASE b # a
      <4>1. b \in loaded[h] /\ (b \in existed'[h] <=> b \in existed[h]) /\ ov'[h][b] = ov[h][b]
        BY <2>1, <3>2, <1>2, <1>6
      <4> QED BY <4>1, <1>1, <1>2 DEF SameTable, ReadsAreTracked
    <3> QED BY <3>1, <3>2
  <2>2. /\ Parses(req'[h])
        /\ began'[h] <= Len(log')
        /\ existed'[h] \subseteq loaded'[h]
        /\ loaded'[h] \subseteq AccountsOf(req'[h]) \cap accounts'
    BY <1>1, <1>2, <1>3, <1>5 DEF ReadsAreTracked, SameTable
  <2> QED BY <1>2, <2>1, <2>2 DEF ReadsAreTracked
<1>8. HandlerIsTracked(h)'
  BY <1>2, <1>7 DEF HandlerIsTracked, Running
<1> QED BY <1>1, <1>8, QuietStep DEF Probe, IInv, TypeOK

\* A handler that goes on to Commit has checked all it locked.
LEMMA ApplyOcc ==
    ASSUME IInv, TypeOK', NEW h \in Handlers, Apply(h)
    PROVE  OccInvariant'
<1>1. ReadsAreTracked(h) /\ pc[h] = "load" /\ Pending(h) = {} /\ SameTable
      /\ req' = req /\ began' = began
  BY DEF Apply, IInv, OccInvariant, HandlerIsTracked, Running, SameTable
<1>2. ASSUME NEW code, Answer(h, code) PROVE OccInvariant'
  BY <1>1, <1>2, AnswerOcc
<1>3. ASSUME Valid(req[h]), ~ WouldOverdraw(h), pc' = [pc EXCEPT ![h] = "commit"],
             UNCHANGED <<reply, loaded, existed, ov>>
      PROVE  OccInvariant'
  <2>1. loaded[h] = AccountsOf(req[h])
    BY <1>1 DEF ReadsAreTracked, Pending
  <2>2. pc'[h] = "commit"
    BY <1>3 DEF IInv, TypeOK
  <2>3. CommitIsChecked(h)'
    BY <1>1, <1>3, <2>1 DEF CommitIsChecked, WouldOverdraw, NewDebits, NewCredits
  <2>4. ReadsAreTracked(h)'
    BY <1>1, <1>3, <2>2 DEF ReadsAreTracked, SameTable
  <2>5. HandlerIsTracked(h)'
    BY <2>2, <2>3, <2>4 DEF HandlerIsTracked, Running
  <2> QED BY <1>1, <1>3, <2>5, QuietStep DEF IInv, TypeOK
<1> QED BY <1>2, <1>3 DEF Apply

\* A write changes exactly the rows of the request, each by the request's
\* totals and one version.
LEMMA WriteChanges ==
    ASSUME IInv, NEW h \in Handlers, Write(h)
    PROVE  /\ log' = Append(log, req[h])
           /\ \A a \in AccountsOf(req[h]) :
                 /\ bal'[a].debits = bal[a].debits + DebitOf(req[h], a)
                 /\ bal'[a].credits = bal[a].credits + CreditOf(req[h], a)
                 /\ bal'[a].version = bal[a].version + 1
                 /\ bal'[a].debits = NewDebits(h, a)
                 /\ bal'[a].credits = NewCredits(h, a)
           /\ \A a \in Accounts \ AccountsOf(req[h]) : bal'[a] = bal[a]
<1>1. /\ AccountsOf(req[h]) \subseteq Accounts
      /\ \A a \in AccountsOf(req[h]) : ov[h][a] = bal[a]
  BY CommitReadsCurrent
<1>2. \A a \in Accounts :
         bal'[a] = IF a \in AccountsOf(req[h])
                   THEN [debits |-> NewDebits(h, a), credits |-> NewCredits(h, a),
                         version |-> ov[h][a].version + 1]
                   ELSE bal[a]
  BY DEF Write
<1> QED
  BY <1>1, <1>2 DEF Write, NewDebits, NewCredits

\* The conditional write keeps the writer's and everybody else's invariant:
\* the rows it rewrites get versions that no other overlay holds.
LEMMA WriteOcc ==
    ASSUME IInv, TypeOK', NEW h \in Handlers, NEW code, Write(h), Answer(h, code)
    PROVE  OccInvariant'
<1>1. /\ AccountsOf(req[h]) \subseteq Accounts
      /\ rows' = rows \cup AccountsOf(req[h])
      /\ UNCHANGED <<accounts, req, began>>
  BY CommitReadsCurrent DEF Write
<1>2. Len(log') = Len(log) + 1 /\ Len(log) \in Nat
  BY WriteChanges DEF IInv, TypeOK
<1>3. \A a \in Accounts : bal[a].version \in Nat
  BY DEF IInv, TypeOK, Row
<1>4. Advances
  BY <1>1, <1>2, <1>3, WriteChanges DEF Advances
<1>5. RowsHaveVersions'
  <2> SUFFICES ASSUME NEW a \in Accounts
               PROVE  IF a \in rows' THEN bal'[a].version > 0 ELSE bal'[a] = ZeroRow
    BY DEF RowsHaveVersions
  <2>1. IF a \in rows THEN bal[a].version > 0 ELSE bal[a] = ZeroRow
    BY DEF IInv, OccInvariant, RowsHaveVersions
  <2>2. CASE a \in AccountsOf(req[h])
    BY <2>2, <1>1, <1>3, WriteChanges
  <2>3. CASE a \notin AccountsOf(req[h])
    BY <2>1, <2>3, <1>1, WriteChanges
  <2> QED BY <2>2, <2>3
<1>6. ASSUME NEW g \in Handlers \ {h} PROVE HandlerIsTracked(g)'
  BY <1>1, <1>4, OthersKeep DEF Answer, IInv, TypeOK
<1>7. HandlerIsTracked(h)'
  BY AnswerTracked DEF IInv
<1> QED
  BY <1>5, <1>6, <1>7 DEF OccInvariant

\* Every action of Next keeps the optimistic protocol's invariant.
LEMMA NextOcc == IInv /\ TypeOK' /\ [Next]_vars => OccInvariant'
<1> SUFFICES ASSUME IInv, TypeOK', [Next]_vars PROVE OccInvariant'
  OBVIOUS
<1>1. CASE UNCHANGED vars
  <2>1. Advances /\ RowsHaveVersions'
    BY <1>1 DEF vars, Advances, RowsHaveVersions, IInv, OccInvariant, TypeOK
  <2>2. \A g \in Handlers : HandlerIsTracked(g)'
    BY <1>1, <2>1, OthersKeep DEF vars
  <2> QED BY <2>1, <2>2 DEF OccInvariant
<1>2. ASSUME NEW a \in Accounts, CreateAccount(a) PROVE OccInvariant'
  <2>1. Advances /\ RowsHaveVersions'
    BY <1>2 DEF CreateAccount, Advances, RowsHaveVersions, IInv, OccInvariant, TypeOK
  <2>2. \A g \in Handlers : HandlerIsTracked(g)'
    BY <1>2, <2>1, OthersKeep DEF CreateAccount
  <2> QED BY <2>1, <2>2 DEF OccInvariant
<1>3. ASSUME NEW h \in Handlers, NEW r \in Requests, Submit(h, r) PROVE OccInvariant'
  BY <1>3, BeginOcc DEF Submit, Running
<1>4. ASSUME NEW h \in Handlers, Retry(h) PROVE OccInvariant'
  <2>1. req[h] \in Requests
    BY DEF IInv, TypeOK
  <2> QED BY <1>4, <2>1, BeginOcc DEF Retry, Running
<1>5. ASSUME NEW h \in Handlers, GiveUp(h) PROVE OccInvariant'
  <2>1. HandlerIsTracked(h)'
    BY <1>5 DEF GiveUp, HandlerIsTracked, Running, IInv, OccInvariant, TypeOK
  <2> QED BY <1>5, <2>1, QuietStep DEF GiveUp, SameTable, IInv, TypeOK
<1>6. ASSUME NEW h \in Handlers, Lookup(h) PROVE OccInvariant'
  BY <1>6, LookupOcc
<1>7. ASSUME NEW h \in Handlers, NEW a \in Accounts, Load(h, a) PROVE OccInvariant'
  BY <1>7, LoadOcc
<1>8. ASSUME NEW h \in Handlers, NEW a \in Accounts, Probe(h, a) PROVE OccInvariant'
  BY <1>8, ProbeOcc
<1>9. ASSUME NEW h \in Handlers, Apply(h) PROVE OccInvariant'
  BY <1>9, ApplyOcc
<1>10. ASSUME NEW h \in Handlers, Commit(h) PROVE OccInvariant'
  BY <1>10, WriteOcc DEF Commit
<1>11. ASSUME NEW h \in Handlers, CommitLost(h) PROVE OccInvariant'
  BY <1>11, WriteOcc DEF CommitLost
<1>12. ASSUME NEW h \in Handlers, CommitCancelled(h) PROVE OccInvariant'
  BY <1>12, AnswerOcc DEF CommitCancelled, SameTable
<1>13. ASSUME NEW h \in Handlers, Abandon(h) PROVE OccInvariant'
  BY <1>13, AnswerOcc DEF Abandon, SameTable
<1> QED
  BY <1>1, <1>2, <1>3, <1>4, <1>5, <1>6, <1>7, <1>8, <1>9, <1>10, <1>11, <1>12, <1>13
  DEF Next, Step

-----------------------------------------------------------------------------
(* The theorems.                                                           *)

\* The optimistic protocol keeps its inductive invariant (with the types)
\* through every interleaving of executeFlowInTx and Commit.
THEOREM OccCorrect == Spec => [](TypeOK /\ OccInvariant)
<1>1. Init => IInv
  BY InitType, InitOcc DEF IInv
<1>2. IInv /\ [Next]_vars => IInv'
  BY NextType, NextOcc DEF IInv
<1> QED
  BY <1>1, <1>2, PTL DEF Spec, IInv

\* What a step of the system does to the table: nothing, an account is
\* created, or some handler's write lands.
LEMMA TableSteps ==
    ASSUME [Next]_vars
    PROVE  \/ UNCHANGED <<accounts, rows, bal, log>>
           \/ \E a \in Accounts : CreateAccount(a)
           \/ \E h \in Handlers : Write(h)
BY DEF vars, Next, Step, Submit, Retry, Begin, GiveUp, Lookup, Load, Probe, Apply,
       Commit, CommitLost, CommitCancelled, Abandon

\* No commit of dynamo/tx.go loses another's update: it adds the flow's own
\* debits and credits to the balances of that instant, for any number of
\* handlers and accounts.
THEOREM NoLostUpdateCorrect == Spec => NoLostUpdate
<1> DEFINE A == \/ log' = log /\ bal' = bal
                \/ \E r \in Requests :
                      /\ log' = Append(log, r)
                      /\ \A a \in Accounts :
                            IF a \in AccountsOf(r)
                            THEN /\ bal'[a].debits = bal[a].debits + DebitOf(r, a)
                                 /\ bal'[a].credits = bal[a].credits + CreditOf(r, a)
                            ELSE bal'[a] = bal[a]
<1>1. IInv /\ [Next]_vars => [A]_vars
  <2> SUFFICES ASSUME IInv, [Next]_vars PROVE A
    OBVIOUS
  <2>1. CASE UNCHANGED <<accounts, rows, bal, log>>
    BY <2>1
  <2>2. CASE \E a \in Accounts : CreateAccount(a)
    BY <2>2 DEF CreateAccount
  <2>3. ASSUME NEW h \in Handlers, Write(h) PROVE A
    <3>1. req[h] \in Requests
      BY DEF IInv, TypeOK
    <3> QED BY <2>3, <3>1, WriteChanges
  <2> QED BY <2>1, <2>2, <2>3, TableSteps
<1>2. [](TypeOK /\ OccInvariant) /\ [][Next]_vars => [][A]_vars
  BY <1>1, PTL DEF IInv
<1> QED
  BY <1>2, OccCorrect, PTL DEF Spec, NoLostUpdate

\* No non-overdraft account is ever negative (execute_flow.go's final check),
\* although the check reads balances some steps before the write.
THEOREM NonNegativeCorrect == Spec => []NonNegative
<1>1. Init => NonNegative
  BY ZeroNotOverdrawn DEF Init, NonNegative, ZeroRow
<1>2. IInv /\ NonNegative /\ [Next]_vars => NonNegative'
  <2> SUFFICES ASSUME IInv, NonNegative, [Next]_vars PROVE NonNegative'
    OBVIOUS
  <2>1. CASE UNCHANGED <<accounts, rows, bal, log>>
    BY <2>1 DEF NonNegative
  <2>2. CASE \E a \in Accounts : CreateAccount(a)
    BY <2>2 DEF NonNegative, CreateAccount
  <2>3. ASSUME NEW h \in Handlers, Write(h) PROVE NonNegative'
    <3> SUFFICES ASSUME NEW a \in Accounts
                 PROVE  ~ Overdrawn(a, bal'[a].debits, bal'[a].credits)
      BY DEF NonNegative
    <3>1. CASE a \in AccountsOf(req[h])
      BY <2>3, <3>1, WriteChanges, CommitReadsCurrent
    <3>2. CASE a \notin AccountsOf(req[h])
      BY <2>3, <3>2, WriteChanges DEF NonNegative
    <3> QED BY <3>1, <3>2
  <2> QED BY <2>1, <2>2, <2>3, TableSteps
<1> QED
  BY <1>1, <1>2, OccCorrect, PTL DEF Spec, IInv

\* Exactly once: no two committed flows share an idempotency key or a journal
\* event id (the FIDEMP# and EVT# conditions).
THEOREM ExactlyOnceCorrect == Spec => []ExactlyOnce
<1>1. Init => ExactlyOnce
  BY DEF Init, ExactlyOnce
<1>2. IInv /\ ExactlyOnce /\ [Next]_vars => ExactlyOnce'
  <2> SUFFICES ASSUME IInv, ExactlyOnce, [Next]_vars PROVE ExactlyOnce'
    OBVIOUS
  <2>1. CASE UNCHANGED <<accounts, rows, bal, log>>
    BY <2>1 DEF ExactlyOnce
  <2>2. CASE \E a \in Accounts : CreateAccount(a)
    BY <2>2 DEF ExactlyOnce, CreateAccount
  <2>3. ASSUME NEW h \in Handlers, Write(h) PROVE ExactlyOnce'
    <3>1. /\ log \in Seq(Requests) /\ req[h] \in Requests
          /\ log' = Append(log, req[h])
      BY <2>3 DEF IInv, TypeOK, Write
    <3>2. \A i \in DOMAIN log' : \/ i \in DOMAIN log /\ log'[i] = log[i]
                                 \/ i = Len(log) + 1 /\ log'[i] = req[h]
      BY <3>1
    <3>3. \A i \in DOMAIN log : /\ log[i].key # req[h].key
                                /\ Events(log[i]) \cap Events(req[h]) = {}
      BY <2>3, WriteConditions DEF Write, KeyIsFree, EventsAreFree, KeysIn, EventsIn
    <3> QED BY <3>2, <3>3 DEF ExactlyOnce
  <2> QED BY <2>1, <2>2, <2>3, TableSteps
<1> QED
  BY <1>1, <1>2, OccCorrect, PTL DEF Spec, IInv

\* The log only grows, and what was posted stays posted.
LEMMA LogGrows ==
    ASSUME IInv, [Next]_vars
    PROVE  /\ KeysIn(log) \subseteq KeysIn(log')
           /\ EventsIn(log) \subseteq EventsIn(log')
           /\ Len(log) <= Len(log')
           /\ Len(log) \in Nat /\ Len(log') \in Nat
<1>1. log \in Seq(Requests)
  BY DEF IInv, TypeOK
<1>2. CASE log' = log
  BY <1>1, <1>2
<1>3. ASSUME NEW r, log' = Append(log, r)
      PROVE  /\ KeysIn(log) \subseteq KeysIn(log')
             /\ EventsIn(log) \subseteq EventsIn(log')
             /\ Len(log) <= Len(log')
             /\ Len(log) \in Nat /\ Len(log') \in Nat
  <2>1. \A i \in DOMAIN log : i \in DOMAIN log' /\ log'[i] = log[i]
    BY <1>1, <1>3
  <2> QED BY <1>1, <1>3, <2>1 DEF KeysIn, EventsIn
<1> QED
  BY <1>2, <1>3, TableSteps DEF CreateAccount, Write

\* A balance condition that fails is the doing of a flow that committed since
\* the attempt began.
LEMMA ConflictMeansProgress ==
    ASSUME IInv, NEW h \in Handlers, pc[h] = "commit",
           \E a \in AccountsOf(req[h]) : ~ BalanceCondition(h, a)
    PROVE  began[h] < Len(log)
<1>1. ReadsAreTracked(h) /\ CommitIsChecked(h) /\ req[h] \in Requests
  BY DEF IInv, OccInvariant, HandlerIsTracked, Running, TypeOK
<1>2. PICK a \in AccountsOf(req[h]) : ~ BalanceCondition(h, a)
  OBVIOUS
<1>3. a \in loaded[h] /\ a \in Accounts
  BY <1>1, <1>2, RequestTotals DEF CommitIsChecked
<1>4. ov[h][a] # bal[a]
  <2>1. CASE a \in existed[h]
    BY <1>1, <1>2, <1>3, <2>1 DEF ReadsAreTracked, BalanceCondition
  <2>2. CASE a \notin existed[h]
    <3>1. a \in rows /\ ov[h][a] = ZeroRow
      BY <1>1, <1>2, <1>3, <2>2 DEF ReadsAreTracked, BalanceCondition
    <3>2. bal[a].version > 0 /\ ZeroRow.version = 0
      BY <1>3, <3>1 DEF IInv, OccInvariant, RowsHaveVersions, ZeroRow
    <3> QED BY <3>1, <3>2
  <2> QED BY <2>1, <2>2
<1> QED
  BY <1>1, <1>3, <1>4 DEF ReadsAreTracked

\* A reply stays true while its handler does nothing.
LEMMA ReplyStaysTrue ==
    ASSUME IInv, [Next]_vars, NEW g \in Handlers, ReplyIsTrue(g),
           reply'[g] = reply[g], req'[g] = req[g], began'[g] = began[g]
    PROVE  ReplyIsTrue(g)'
<1>1. began[g] \in Nat
  BY DEF IInv, TypeOK
<1> QED BY <1>1, LogGrows DEF ReplyIsTrue, KeyIsFree, EventsAreFree

\* The replies of ExecuteFlow are true: OK means posted, FLOW_CONFLICT that
\* the key or an event id is taken, SERIALIZATION_RETRY_EXHAUSTED that some
\* other flow made progress.
THEOREM RepliesAreTrueCorrect == Spec => []RepliesAreTrue
<1>1. Init => RepliesAreTrue
  BY DEF Init, RepliesAreTrue, ReplyIsTrue
<1>2. IInv /\ RepliesAreTrue /\ [Next]_vars => RepliesAreTrue'
  <2> SUFFICES ASSUME IInv, RepliesAreTrue, [Next]_vars, NEW g \in Handlers
               PROVE  ReplyIsTrue(g)'
    BY DEF RepliesAreTrue
  <2>g. ReplyIsTrue(g)
    BY DEF RepliesAreTrue
  <2>t. /\ pc \in [Handlers -> PCs] /\ reply \in [Handlers -> Codes]
        /\ req \in [Handlers -> Requests] /\ began \in [Handlers -> Nat]
    BY DEF IInv, TypeOK, PCs
  <2>1. CASE UNCHANGED vars
    BY <2>1, <2>g, ReplyStaysTrue DEF vars
  <2>2. ASSUME NEW a \in Accounts, CreateAccount(a) PROVE ReplyIsTrue(g)'
    BY <2>2, <2>g, ReplyStaysTrue DEF CreateAccount
  <2>3. ASSUME NEW h \in Handlers, NEW r \in Requests, Begin(h, r) PROVE ReplyIsTrue(g)'
    <3>1. CASE g = h
      <4>1. reply'[h] \in {"NONE", "UNBALANCED_JOURNAL"}
        BY <2>3, <2>t DEF Begin, Answer
      <4> QED BY <3>1, <4>1 DEF ReplyIsTrue
    <3>2. CASE g # h
      BY <2>3, <2>t, <2>g, <3>2, ReplyStaysTrue DEF Begin, Answer
    <3> QED BY <3>1, <3>2
  <2>4. ASSUME NEW h \in Handlers, GiveUp(h) PROVE ReplyIsTrue(g)'
    <3>1. CASE g = h
      BY <2>4, <2>t, <3>1 DEF GiveUp, ReplyIsTrue
    <3>2. CASE g # h
      BY <2>4, <2>t, <2>g, <3>2, ReplyStaysTrue DEF GiveUp
    <3> QED BY <3>1, <3>2
  <2>5. ASSUME NEW h \in Handlers, NEW code, Answer(h, code), UNCHANGED <<req, began>>,
               /\ code = "OK" => req[h].key \in KeysIn(log')
               /\ code = "FLOW_CONFLICT" =>
                     req[h].key \in KeysIn(log') \/ Events(req[h]) \cap EventsIn(log') # {}
               /\ code = "SERIALIZATION_RETRY_EXHAUSTED" => Len(log') > began[h]
        PROVE  ReplyIsTrue(g)'
    <3>1. CASE g = h
      BY <2>5, <2>t, <3>1 DEF Answer, ReplyIsTrue, KeyIsFree, EventsAreFree
    <3>2. CASE g # h
      BY <2>5, <2>t, <2>g, <3>2, ReplyStaysTrue DEF Answer
    <3> QED BY <3>1, <3>2
  <2>6. ASSUME UNCHANGED <<reply, req, began>> PROVE ReplyIsTrue(g)'
    BY <2>6, <2>g, ReplyStaysTrue
  <2>7. ASSUME NEW h \in Handlers, Lookup(h) PROVE ReplyIsTrue(g)'
    BY <2>5, <2>6, <2>7 DEF Lookup, Replays
  <2>8. ASSUME NEW h \in Handlers, NEW a \in Accounts, Load(h, a) PROVE ReplyIsTrue(g)'
    <3>1. AccountError(h, a) \in {"NONE", "ACCOUNT_NOT_FOUND", "ACCOUNT_CURRENCY_MISMATCH"}
      BY DEF AccountError
    <3>2. CASE AccountError(h, a) # "NONE"
      <4>1. Answer(h, AccountError(h, a)) /\ UNCHANGED <<req, began>>
        BY <2>8, <3>2 DEF Load
      <4>2. /\ AccountError(h, a) # "OK"
            /\ AccountError(h, a) # "FLOW_CONFLICT"
            /\ AccountError(h, a) # "SERIALIZATION_RETRY_EXHAUSTED"
        BY <3>1
      <4> QED BY <2>5, <4>1, <4>2
    <3>3. CASE AccountError(h, a) = "NONE"
      BY <2>6, <2>8, <3>3 DEF Load
    <3> QED BY <3>2, <3>3
  <2>9. ASSUME NEW h \in Handlers, NEW a \in Accounts, Probe(h, a) PROVE ReplyIsTrue(g)'
    BY <2>6, <2>9 DEF Probe
  <2>10. ASSUME NEW h \in Handlers, Apply(h) PROVE ReplyIsTrue(g)'
    <3>1. UNCHANGED <<req, began>>
      BY <2>10 DEF Apply
    <3>2. \/ \E code \in {"UNBALANCED_JOURNAL", "INSUFFICIENT_FUNDS", "FLOW_TOO_LARGE"} :
               Answer(h, code)
          \/ reply' = reply
      BY <2>10 DEF Apply
    <3> QED BY <2>5, <2>6, <3>1, <3>2
  <2>11. ASSUME NEW h \in Handlers, Write(h) PROVE req[h].key \in KeysIn(log')
    <3>1. log' = Append(log, req[h]) /\ log \in Seq(Requests) /\ req[h] \in Requests
      BY <2>11 DEF Write, IInv, TypeOK
    <3>2. Len(log) + 1 \in DOMAIN log' /\ log'[Len(log) + 1] = req[h]
      BY <3>1
    <3> QED BY <3>2 DEF KeysIn
  <2>12. ASSUME NEW h \in Handlers, Commit(h) PROVE ReplyIsTrue(g)'
    <3>1. Write(h) /\ Answer(h, "OK") /\ UNCHANGED <<req, began>>
      BY <2>12 DEF Commit, Write
    <3> QED BY <2>5, <2>11, <3>1
  <2>13. ASSUME NEW h \in Handlers, CommitLost(h) PROVE ReplyIsTrue(g)'
    <3>1. Answer(h, "UNKNOWN") /\ UNCHANGED <<req, began>>
      BY <2>13 DEF CommitLost, Write
    <3> QED BY <2>5, <3>1
  <2>14. ASSUME NEW h \in Handlers, CommitCancelled(h) PROVE ReplyIsTrue(g)'
    <3>1. /\ pc[h] = "commit" /\ Answer(h, ConflictCode(h)) /\ UNCHANGED <<req, began, log>>
          /\ Failed(h) # {} /\ req[h] \in Requests
      BY <2>14 DEF CommitCancelled, IInv, TypeOK
    <3>2. CASE /\ ConflictCode(h) = "SERIALIZATION_RETRY_EXHAUSTED"
               /\ \E a \in AccountsOf(req[h]) : ~ BalanceCondition(h, a)
      <4>1. began[h] < Len(log) /\ began[h] \in Nat /\ Len(log) \in Nat
        BY <3>1, <3>2, ConflictMeansProgress DEF IInv, TypeOK
      <4> QED BY <2>5, <3>1, <3>2, <4>1
    <3>3. CASE /\ ConflictCode(h) = "FLOW_CONFLICT"
               /\ ~ (KeyIsFree(req[h]) /\ EventsAreFree(req[h]))
      <4>1. req[h].key \in KeysIn(log') \/ Events(req[h]) \cap EventsIn(log') # {}
        BY <3>1, <3>3 DEF KeyIsFree, EventsAreFree
      <4> QED BY <2>5, <3>1, <3>3, <4>1
    <3> QED BY <3>1, <3>2, <3>3, ConflictTells
  <2>15. ASSUME NEW h \in Handlers, Abandon(h) PROVE ReplyIsTrue(g)'
    BY <2>5, <2>15 DEF Abandon
  <2>16. ASSUME NEW h \in Handlers, NEW r \in Requests, Submit(h, r) PROVE ReplyIsTrue(g)'
    BY <2>3, <2>16 DEF Submit
  <2>17. ASSUME NEW h \in Handlers, Retry(h) PROVE ReplyIsTrue(g)'
    BY <2>3, <2>17, <2>t DEF Retry
  <2> QED
    BY <2>1, <2>2, <2>4, <2>7, <2>8, <2>9, <2>10, <2>12, <2>13, <2>14, <2>15, <2>16, <2>17
    DEF Next, Step
<1> QED
  BY <1>1, <1>2, OccCorrect, PTL DEF Spec, IInv

\* A version conflict is only reported for a flow that can still be posted.  It
\* rests on the order of the buffer (MarkersFirst): executeFlowInTx puts the
\* FIDEMP# and EVT# markers before the balances, and Commit reports the first
\* put that failed.
THEOREM RetryOnlyIfNotPostedCorrect == Spec => RetryOnlyIfNotPosted
<1> DEFINE A == \A h \in Handlers :
                  (reply'[h] = "SERIALIZATION_RETRY_EXHAUSTED" /\ reply[h] # reply'[h])
                      => /\ req[h].key \notin KeysIn(log')
                         /\ Events(req[h]) \cap EventsIn(log') = {}
<1>1. TypeOK /\ [Next]_vars => [A]_vars
  <2> SUFFICES ASSUME TypeOK, [Next]_vars, NEW g \in Handlers,
                      reply'[g] = "SERIALIZATION_RETRY_EXHAUSTED", reply[g] # reply'[g]
               PROVE  /\ req[g].key \notin KeysIn(log')
                      /\ Events(req[g]) \cap EventsIn(log') = {}
    OBVIOUS
  <2>1. CASE CommitCancelled(g)
    <3>1. Answer(g, ConflictCode(g)) /\ log' = log /\ Failed(g) # {} /\ req[g] \in Requests
      BY <2>1 DEF CommitCancelled, TypeOK
    <3>2. ConflictCode(g) = "SERIALIZATION_RETRY_EXHAUSTED"
      BY <3>1 DEF Answer, TypeOK
    <3>3. KeyIsFree(req[g]) /\ EventsAreFree(req[g])
      BY <3>1, <3>2, ConflictTells
    <3> QED BY <3>1, <3>3 DEF KeyIsFree, EventsAreFree
  <2>2. ASSUME NEW h \in Handlers, NEW code, Answer(h, code),
               code # "SERIALIZATION_RETRY_EXHAUSTED"
        PROVE  FALSE
    BY <2>2 DEF Answer, TypeOK
  <2>3. ASSUME NEW h \in Handlers, NEW r \in Requests, Begin(h, r) PROVE FALSE
    BY <2>2, <2>3 DEF Begin, TypeOK
  <2>4. ASSUME NEW h \in Handlers, NEW a \in Accounts, Load(h, a) PROVE FALSE
    <3>1. AccountError(h, a) # "SERIALIZATION_RETRY_EXHAUSTED"
      BY DEF AccountError
    <3> QED BY <2>2, <2>4, <3>1 DEF Load
  <2>5. ASSUME NEW h \in Handlers, CommitCancelled(h) PROVE h = g
    BY <2>5 DEF CommitCancelled, Answer, TypeOK
  <2>6. ASSUME NEW h \in Handlers, Lookup(h) \/ Apply(h) PROVE FALSE
    BY <2>2, <2>6 DEF Lookup, Apply
  <2>7. ASSUME NEW h \in Handlers, Commit(h) \/ CommitLost(h) \/ Abandon(h) PROVE FALSE
    BY <2>2, <2>7 DEF Commit, CommitLost, Abandon
  <2>8. ASSUME NEW h \in Handlers, GiveUp(h) PROVE FALSE
    BY <2>8 DEF GiveUp, TypeOK
  <2>9. ASSUME NEW h \in Handlers, NEW a \in Accounts, Probe(h, a) \/ CreateAccount(a)
        PROVE  FALSE
    BY <2>9 DEF Probe, CreateAccount
  <2>10. ASSUME NEW h \in Handlers, (\E r \in Requests : Submit(h, r)) \/ Retry(h)
         PROVE  FALSE
    BY <2>3, <2>10 DEF Submit, Retry, TypeOK
  <2>11. ASSUME UNCHANGED vars PROVE FALSE
    BY <2>11 DEF vars
  <2> QED
    BY <2>1, <2>4, <2>5, <2>6, <2>7, <2>8, <2>9, <2>10, <2>11 DEF Next, Step
<1>2. [](TypeOK /\ OccInvariant) /\ [][Next]_vars => [][A]_vars
  BY <1>1, PTL
<1> QED
  BY <1>2, OccCorrect, PTL DEF Spec, RetryOnlyIfNotPosted

-----------------------------------------------------------------------------
(* The books.                                                              *)

\* A write adds the request to the table it finds.
LEMMA WriteAdds ==
    ASSUME IInv, NEW h \in Handlers, Write(h)
    PROVE  Adds(req[h], bal, bal') /\ log' = Append(log, req[h])
<1>1. req[h] \in Requests /\ log' = Append(log, req[h])
  BY WriteChanges DEF IInv, TypeOK
<1>2. \A a \in Accounts : bal[a].debits \in Int /\ bal[a].credits \in Int
  BY DEF IInv, TypeOK, Row
<1>3. \A a \in Accounts :
         IF a \in AccountsOf(req[h])
         THEN /\ bal'[a].debits = bal[a].debits + DebitOf(req[h], a)
              /\ bal'[a].credits = bal[a].credits + CreditOf(req[h], a)
         ELSE bal'[a] = bal[a]
  BY WriteChanges
<1> QED BY <1>1, <1>2, <1>3, RewriteAdds

\* The balance rows are the sums of the posted journals, through every
\* interleaving of reads and conditional writes (loadBalance, UpdateBalance
\* and Commit).
THEOREM BalancesMatchJournalsCorrect == Spec => []BalancesMatchJournals
<1>1. Init => BalancesMatchJournals
  BY EmptyBooks DEF Init, BalancesMatchJournals, ZeroRow
<1>2. IInv /\ BalancesMatchJournals /\ [Next]_vars => BalancesMatchJournals'
  <2> SUFFICES ASSUME IInv, BalancesMatchJournals, [Next]_vars
               PROVE  BalancesMatchJournals'
    OBVIOUS
  <2>1. CASE bal' = bal /\ log' = log
    BY <2>1 DEF BalancesMatchJournals, BooksMatch
  <2>2. ASSUME NEW h \in Handlers, Write(h) PROVE BalancesMatchJournals'
    <3>1. log \in Seq(Requests) /\ req[h] \in Requests
      BY DEF IInv, TypeOK
    <3>2. BooksMatch(bal', Append(log, req[h]))
      BY <2>2, <3>1, WriteAdds, MatchStep DEF BalancesMatchJournals
    <3> QED BY <2>2, <3>2, WriteAdds DEF BalancesMatchJournals, BooksMatch
  <2> QED BY <2>1, <2>2, TableSteps DEF CreateAccount
<1> QED
  BY <1>1, <1>2, OccCorrect, PTL DEF Spec, IInv

\* The books balance in every currency: Journal.Validate and the currency
\* check of executeFlowInTx let no other flow through to Commit.
THEOREM TrialBalanceCorrect == Spec => []TrialBalance
<1>1. Init => TrialBalance
  BY EmptyBooks DEF Init, TrialBalance, ZeroRow
<1>2. IInv /\ TrialBalance /\ [Next]_vars => TrialBalance'
  <2> SUFFICES ASSUME IInv, TrialBalance, [Next]_vars PROVE TrialBalance'
    OBVIOUS
  <2>1. CASE bal' = bal
    BY <2>1 DEF TrialBalance, BooksBalance
  <2>2. ASSUME NEW h \in Handlers, Write(h) PROVE TrialBalance'
    <3>1. /\ req[h] \in Requests /\ Valid(req[h])
          /\ \A a \in AccountsOf(req[h]) : CurrencyMatches(req[h], a)
      BY <2>2, CommitReadsCurrent
    <3>2. \A a \in Accounts : bal[a].debits \in Int /\ bal[a].credits \in Int
      BY DEF IInv, TypeOK, Row
    <3>3. BooksBalance(bal')
      BY <2>2, <3>1, <3>2, WriteAdds, BalanceStep DEF TrialBalance
    <3> QED BY <3>3 DEF TrialBalance, BooksBalance
  <2> QED BY <2>1, <2>2, TableSteps DEF CreateAccount
<1> QED
  BY <1>1, <1>2, OccCorrect, PTL DEF Spec, IInv

-----------------------------------------------------------------------------
(* Refusals.                                                               *)

\* What was held or refused at an earlier instant stays so when a flow is
\* posted.
LEMMA HeldStays ==
    ASSUME NEW posted \in Seq(Requests), NEW r \in Requests, NEW from \in Nat,
           NEW a, NEW row, Held(posted, from, a, row)
    PROVE  Held(Append(posted, r), from, a, row)
<1>1. PICK n \in from .. Len(posted) :
         /\ row.debits = PostedDebits(SubSeq(posted, 1, n), a)
         /\ row.credits = PostedCredits(SubSeq(posted, 1, n), a)
  BY DEF Held
<1>2. n \in 0 .. Len(posted) /\ n \in from .. Len(Append(posted, r))
  OBVIOUS
<1>3. SubSeq(Append(posted, r), 1, n) = SubSeq(posted, 1, n)
  BY <1>2, PrefixAppend
<1> QED BY <1>1, <1>2, <1>3 DEF Held

\* A refusal that was justified stays so when more flows are posted.
LEMMA RefusedStays ==
    ASSUME NEW posted \in Seq(Requests), NEW r \in Requests, NEW from \in Nat,
           NEW q, RefusedSince(posted, from, q)
    PROVE  RefusedSince(Append(posted, r), from, q)
<1>1. PICK n \in from .. Len(posted), a \in AccountsOf(q) :
         Overdrawn(a, PostedDebits(SubSeq(posted, 1, n), a) + DebitOf(q, a),
                      PostedCredits(SubSeq(posted, 1, n), a) + CreditOf(q, a))
  BY DEF RefusedSince
<1>2. n \in 0 .. Len(posted) /\ n \in from .. Len(Append(posted, r))
  OBVIOUS
<1>3. SubSeq(Append(posted, r), 1, n) = SubSeq(posted, 1, n)
  BY <1>2, PrefixAppend
<1> QED BY <1>1, <1>2, <1>3 DEF RefusedSince

\* The current balance is one that was held since any earlier instant.
LEMMA HeldNow ==
    ASSUME NEW posted \in Seq(Requests), NEW from \in Nat, from <= Len(posted),
           NEW book, BooksMatch(book, posted), NEW a \in Accounts
    PROVE  Held(posted, from, a, book[a])
<1>1. Len(posted) \in from .. Len(posted) /\ SubSeq(posted, 1, Len(posted)) = posted
  BY WholePrefix
<1> QED BY <1>1 DEF Held, BooksMatch

\* An overdraft by the overlay is an overdraft at the instant the account's
\* balance was read.
LEMMA OverlayRefuses ==
    ASSUME IInv, ReadsWereTrue, NEW h \in Handlers, pc[h] = "load",
           Pending(h) = {}, WouldOverdraw(h)
    PROVE  RefusedSince(log, began[h], req[h])
<1>1. PICK a \in AccountsOf(req[h]) : Overdrawn(a, NewDebits(h, a), NewCredits(h, a))
  BY DEF WouldOverdraw
<1>2. a \in loaded[h]
  BY <1>1 DEF Pending
<1>3. PICK n \in began[h] .. Len(log) :
         /\ ov[h][a].debits = PostedDebits(SubSeq(log, 1, n), a)
         /\ ov[h][a].credits = PostedCredits(SubSeq(log, 1, n), a)
  BY <1>2 DEF ReadsWereTrue, Held
<1> QED BY <1>1, <1>3 DEF RefusedSince, NewDebits, NewCredits

\* What must hold of one handler, with the variables of its next state.
TrueFor(h) ==
    /\ \A a \in loaded[h] : Held(log, began[h], a, ov[h][a])
    /\ pc[h] = "probe" =>
          \A a \in Pending(h) : IsNext(h, a) => Held(log, began[h], a, ZeroRow)
    /\ reply[h] = "INSUFFICIENT_FUNDS" => RefusedSince(log, began[h], req[h])

\* A handler that takes no step keeps what it read and was told.
LEMMA OthersStayTrue ==
    ASSUME IInv, [Next]_vars, NEW g \in Handlers, TrueFor(g),
           pc'[g] = pc[g], req'[g] = req[g], began'[g] = began[g],
           loaded'[g] = loaded[g], ov'[g] = ov[g], reply'[g] = reply[g]
    PROVE  TrueFor(g)'
<1>1. log \in Seq(Requests) /\ began[g] \in Nat
  BY DEF IInv, TypeOK
<1>2. CASE log' = log
  BY <1>2 DEF TrueFor, Pending, IsNext
<1>3. ASSUME NEW r \in Requests, log' = Append(log, r) PROVE TrueFor(g)'
  <2>1. \A a, row : Held(log, began[g], a, row) => Held(log', began[g], a, row)
    BY <1>1, <1>3, HeldStays
  <2>2. \A q : RefusedSince(log, began[g], q) => RefusedSince(log', began[g], q)
    BY <1>1, <1>3, RefusedStays
  <2> QED BY <2>1, <2>2 DEF TrueFor, Pending, IsNext
<1>4. \A h \in Handlers : Write(h) => req[h] \in Requests /\ log' = Append(log, req[h])
  BY DEF Write, IInv, TypeOK
<1> QED BY <1>2, <1>3, <1>4, TableSteps DEF CreateAccount

\* A handler that answers has nothing loaded; the answer is justified.
LEMMA AnswerStaysTrue ==
    ASSUME IInv, NEW h \in Handlers, NEW code, Answer(h, code), UNCHANGED <<req, began>>,
           code = "INSUFFICIENT_FUNDS" => RefusedSince(log', began[h], req[h])
    PROVE  TrueFor(h)'
BY DEF Answer, TrueFor, IInv, TypeOK

\* Every action keeps both, given that the rows are the sums of the journals:
\* what Load reads is then the history's balance of that instant.
LEMMA NextTrue ==
    ASSUME IInv, BalancesMatchJournals, [Next]_vars, \A h \in Handlers : TrueFor(h)
    PROVE  \A h \in Handlers : TrueFor(h)'
<1> SUFFICES ASSUME NEW g \in Handlers PROVE TrueFor(g)'
  OBVIOUS
<1>t. /\ pc \in [Handlers -> PCs] /\ reply \in [Handlers -> Codes]
      /\ req \in [Handlers -> Requests] /\ began \in [Handlers -> Nat]
      /\ loaded \in [Handlers -> SUBSET Accounts]
      /\ ov \in [Handlers -> [Accounts -> Row]] /\ log \in Seq(Requests)
  BY DEF IInv, TypeOK, PCs
<1>g. TrueFor(g)
  OBVIOUS
<1>r. ASSUME NEW h \in Handlers, Running(h) PROVE began[h] <= Len(log)
  BY <1>r DEF IInv, OccInvariant, HandlerIsTracked, ReadsAreTracked
<1>n. ASSUME NEW h \in Handlers, Running(h), NEW a \in Accounts
      PROVE  Held(log, began[h], a, bal[a])
  BY <1>n, <1>r, <1>t, HeldNow DEF BalancesMatchJournals
<1>1. CASE UNCHANGED vars
  BY <1>1, <1>g, OthersStayTrue DEF vars
<1>2. ASSUME NEW a \in Accounts, CreateAccount(a) PROVE TrueFor(g)'
  BY <1>2, <1>g, OthersStayTrue DEF CreateAccount
<1>3. ASSUME NEW h \in Handlers, NEW r \in Requests, ~ Running(h), Begin(h, r)
      PROVE  TrueFor(g)'
  <2>1. CASE g = h
    <3>1. loaded[h] = {}
      BY <1>3 DEF IInv, OccInvariant, HandlerIsTracked
    <3>2. /\ loaded'[h] = {} /\ pc'[h] # "probe"
          /\ reply'[h] \in {"NONE", "UNBALANCED_JOURNAL"}
      BY <1>3, <1>t, <3>1 DEF Begin, Answer, tx
    <3> QED BY <2>1, <3>2 DEF TrueFor
  <2>2. CASE g # h
    BY <1>3, <1>t, <1>g, <2>2, OthersStayTrue DEF Begin, Answer, tx
  <2> QED BY <2>1, <2>2
<1>4. ASSUME NEW h \in Handlers, GiveUp(h) PROVE TrueFor(g)'
  <2>1. CASE g = h
    <3>1. loaded'[h] = {} /\ pc'[h] = "idle" /\ reply'[h] = "NONE"
      BY <1>4, <1>t DEF GiveUp, IInv, OccInvariant, HandlerIsTracked, Running
    <3> QED BY <2>1, <3>1 DEF TrueFor
  <2>2. CASE g # h
    BY <1>4, <1>t, <1>g, <2>2, OthersStayTrue DEF GiveUp
  <2> QED BY <2>1, <2>2
<1>5. ASSUME NEW h \in Handlers, NEW code, Answer(h, code), UNCHANGED <<req, began>>,
             code = "INSUFFICIENT_FUNDS" => RefusedSince(log', began[h], req[h])
      PROVE  TrueFor(g)'
  <2>1. CASE g = h
    BY <1>5, <2>1, AnswerStaysTrue
  <2>2. CASE g # h
    BY <1>5, <1>t, <1>g, <2>2, OthersStayTrue DEF Answer
  <2> QED BY <2>1, <2>2
<1>6. ASSUME NEW h \in Handlers, Lookup(h) PROVE TrueFor(g)'
  <2>1. CASE Replays(h)
    BY <1>5, <1>6, <2>1 DEF Lookup
  <2>2. CASE ~ Replays(h)
    <3>1. /\ pc' = [pc EXCEPT ![h] = "load"]
          /\ UNCHANGED <<log, reply, loaded, ov, req, began>>
      BY <1>6, <2>2 DEF Lookup
    <3>2. CASE g = h
      BY <3>1, <3>2, <1>t, <1>g DEF TrueFor
    <3>3. CASE g # h
      BY <3>1, <3>3, <1>t, <1>g, OthersStayTrue
    <3> QED BY <3>2, <3>3
  <2> QED BY <2>1, <2>2
<1>7. ASSUME NEW h \in Handlers, NEW a \in Accounts, Load(h, a) PROVE TrueFor(g)'
  <2>1. /\ pc[h] = "load" /\ IsNext(h, a) /\ UNCHANGED <<log, req, began>>
        /\ Held(log, began[h], a, bal[a]) /\ a \notin loaded[h]
    BY <1>7, <1>n DEF Load, Running, IsNext, Pending
  <2>2. CASE AccountError(h, a) # "NONE"
    <3>1. Answer(h, AccountError(h, a)) /\ AccountError(h, a) # "INSUFFICIENT_FUNDS"
      BY <1>7, <2>2 DEF Load, AccountError
    <3> QED BY <1>5, <2>1, <3>1
  <2>3. CASE AccountError(h, a) = "NONE" /\ bal[a] = ZeroRow
    <3>1. pc' = [pc EXCEPT ![h] = "probe"] /\ UNCHANGED <<reply, loaded, ov>>
      BY <1>7, <2>3 DEF Load
    <3>2. CASE g = h
      <4>1. \A b : IsNext(h, b) => Held(log, began[h], b, ZeroRow)
        BY <2>1, <2>3, NextIsUnique
      <4> QED BY <2>1, <3>1, <3>2, <4>1, <1>t, <1>g DEF TrueFor, Pending, IsNext
    <3>3. CASE g # h
      BY <2>1, <3>1, <3>3, <1>t, <1>g, OthersStayTrue
    <3> QED BY <3>2, <3>3
  <2>4. CASE AccountError(h, a) = "NONE" /\ bal[a] # ZeroRow
    <3>1. /\ loaded' = [loaded EXCEPT ![h] = @ \cup {a}]
          /\ ov' = [ov EXCEPT ![h][a] = bal[a]]
          /\ UNCHANGED <<pc, reply>>
      BY <1>7, <2>4 DEF Load
    <3>2. CASE g = h
      <4>1. /\ loaded'[h] = loaded[h] \cup {a}
            /\ ov'[h][a] = bal[a] /\ \A b \in loaded[h] : ov'[h][b] = ov[h][b]
            /\ pc'[h] # "probe" /\ reply'[h] = reply[h]
        BY <2>1, <3>1, <1>t
      <4> QED BY <2>1, <3>2, <4>1, <1>g DEF TrueFor
    <3>3. CASE g # h
      BY <2>1, <3>1, <3>3, <1>t, <1>g, OthersStayTrue
    <3> QED BY <3>2, <3>3
  <2> QED BY <2>2, <2>3, <2>4
<1>8. ASSUME NEW h \in Handlers, NEW a \in Accounts, Probe(h, a) PROVE TrueFor(g)'
  <2>1. /\ pc[h] = "probe" /\ IsNext(h, a)
        /\ pc' = [pc EXCEPT ![h] = "load"]
        /\ loaded' = [loaded EXCEPT ![h] = @ \cup {a}]
        /\ ov' = [ov EXCEPT ![h][a] = ZeroRow]
        /\ UNCHANGED <<log, req, reply, began>>
    BY <1>8 DEF Probe
  <2>2. CASE g = h
    <3>1. Held(log, began[h], a, ZeroRow) /\ a \notin loaded[h]
      BY <2>1, <2>2, <1>g DEF TrueFor, IsNext, Pending
    <3>2. /\ loaded'[h] = loaded[h] \cup {a}
          /\ ov'[h][a] = ZeroRow /\ \A b \in loaded[h] : ov'[h][b] = ov[h][b]
          /\ pc'[h] # "probe" /\ reply'[h] = reply[h]
      BY <2>1, <3>1, <1>t
    <3> QED BY <2>1, <2>2, <3>1, <3>2, <1>g DEF TrueFor
  <2>3. CASE g # h
    BY <2>1, <2>3, <1>t, <1>g, OthersStayTrue
  <2> QED BY <2>2, <2>3
<1>9. ASSUME NEW h \in Handlers, Apply(h) PROVE TrueFor(g)'
  <2>1. pc[h] = "load" /\ Pending(h) = {} /\ UNCHANGED <<log, req, began>>
    BY <1>9 DEF Apply
  <2>2. CASE WouldOverdraw(h) /\ Answer(h, "INSUFFICIENT_FUNDS")
    <3>1. RefusedSince(log, began[h], req[h])
      BY <2>1, <2>2, OverlayRefuses DEF ReadsWereTrue, TrueFor
    <3> QED BY <1>5, <2>1, <2>2, <3>1
  <2>3. CASE \E code \in {"UNBALANCED_JOURNAL", "FLOW_TOO_LARGE"} : Answer(h, code)
    BY <1>5, <2>1, <2>3
  <2>4. CASE pc' = [pc EXCEPT ![h] = "commit"] /\ UNCHANGED <<reply, loaded, existed, ov>>
    <3>1. CASE g = h
      BY <2>1, <2>4, <3>1, <1>t, <1>g DEF TrueFor
    <3>2. CASE g # h
      BY <2>1, <2>4, <3>2, <1>t, <1>g, OthersStayTrue
    <3> QED BY <3>1, <3>2
  <2> QED BY <1>9, <2>2, <2>3, <2>4 DEF Apply
<1>10. ASSUME NEW h \in Handlers, Commit(h) \/ CommitLost(h) \/ Abandon(h) PROVE TrueFor(g)'
  BY <1>5, <1>10 DEF Commit, CommitLost, Abandon, Write
<1>11. ASSUME NEW h \in Handlers, CommitCancelled(h) PROVE TrueFor(g)'
  <2>1. ConflictCode(h) # "INSUFFICIENT_FUNDS"
    BY DEF ConflictCode
  <2> QED BY <1>5, <1>11, <2>1 DEF CommitCancelled
<1>12. ASSUME NEW h \in Handlers, NEW r \in Requests, Submit(h, r) PROVE TrueFor(g)'
  BY <1>3, <1>12 DEF Submit, Running
<1>13. ASSUME NEW h \in Handlers, Retry(h) PROVE TrueFor(g)'
  BY <1>3, <1>13, <1>t DEF Retry, Running
<1> QED
  BY <1>1, <1>2, <1>4, <1>6, <1>7, <1>8, <1>9, <1>10, <1>11, <1>12, <1>13 DEF Next, Step

\* What a handler works on, and what it refuses, was so at some instant since
\* its attempt began: loadBalance's two reads make up no value, no read is
\* carried over from an earlier attempt, and an INSUFFICIENT_FUNDS reply of
\* executeFlowInTx is justified although its reads are never validated.
THEOREM AttemptsAreTrueCorrect == Spec => []AttemptsAreTrue
<1> DEFINE T == \A h \in Handlers : TrueFor(h)
<1>1. Init => T
  BY DEF Init, TrueFor
<1>2. IInv /\ BalancesMatchJournals /\ T /\ [Next]_vars => T'
  BY NextTrue
<1>3. T => AttemptsAreTrue
  BY DEF TrueFor, AttemptsAreTrue, ReadsWereTrue, RefusedForCause
<1> HIDE DEF T
<1> QED
  BY <1>1, <1>2, <1>3, OccCorrect, BalancesMatchJournalsCorrect, PTL DEF Spec, IInv

-----------------------------------------------------------------------------
(* The refinement.                                                         *)

\* A write is the atomic ledger's Post, at the instant it lands.
LEMMA WriteIsPost ==
    ASSUME IInv, NEW h \in Handlers, Write(h), NEW r \in Requests, r = req[h]
    PROVE  Promise!Post(r)
<1> DEFINE Book == [a \in Accounts |-> [debits |-> bal[a].debits, credits |-> bal[a].credits]]
<1>1. /\ Valid(r)
      /\ AccountsOf(r) \subseteq Accounts /\ AccountsOf(r) \subseteq accounts
      /\ \A a \in AccountsOf(r) :
            /\ CurrencyMatches(r, a)
            /\ ~ Overdrawn(a, NewDebits(h, a), NewCredits(h, a))
  BY CommitReadsCurrent
<1>2. KeyIsFree(r) /\ EventsAreFree(r)
  BY WriteConditions DEF Write
<1>3. \A a \in AccountsOf(r) :
         Promise!Posted(r, a) = [debits |-> bal'[a].debits, credits |-> bal'[a].credits]
  BY <1>1, WriteChanges DEF Promise!Posted
<1>4. ASSUME NEW a \in AccountsOf(r)
      PROVE  ~ Overdrawn(a, Promise!Posted(r, a).debits, Promise!Posted(r, a).credits)
  <2>1. bal'[a].debits = NewDebits(h, a) /\ bal'[a].credits = NewCredits(h, a)
    BY WriteChanges
  <2>2. /\ Promise!Posted(r, a).debits = NewDebits(h, a)
        /\ Promise!Posted(r, a).credits = NewCredits(h, a)
    BY <1>1, <2>1, WriteChanges DEF Promise!Posted
  <2> QED BY <1>1, <2>2
<1>5. Book' = [a \in Accounts |->
                  IF a \in AccountsOf(r) THEN Promise!Posted(r, a) ELSE Book[a]]
  BY <1>1, <1>3, WriteChanges
<1>6. log' = Append(log, r) /\ accounts' = accounts
  BY DEF Write
<1> QED
  BY <1>1, <1>2, <1>4, <1>5, <1>6 DEF Promise!Post, KeyIsFree, EventsAreFree

\* ExecuteFlow over the optimistic Tx implements the atomic ledger, for any
\* number of handlers, accounts, requests and faults.
THEOREM Refinement == Spec => ImplementsAtomicLedger
<1>1. Init => Promise!AInit
  BY DEF Init, Promise!AInit, ZeroRow
<1>2. IInv /\ [Next]_vars => [Promise!ANext]_(Promise!avars)
  <2> SUFFICES ASSUME IInv, [Next]_vars PROVE [Promise!ANext]_(Promise!avars)
    OBVIOUS
  <2>1. CASE UNCHANGED <<accounts, rows, bal, log>>
    BY <2>1 DEF Promise!avars
  <2>2. ASSUME NEW a \in Accounts, CreateAccount(a) PROVE Promise!ANext
    BY <2>2 DEF CreateAccount, Promise!ANext, Promise!OpenAccount
  <2>3. ASSUME NEW h \in Handlers, Write(h) PROVE Promise!ANext
    <3>1. PICK r \in Requests : r = req[h]
      BY DEF IInv, TypeOK
    <3>2. Promise!Post(r)
      BY <2>3, <3>1, WriteIsPost
    <3> QED BY <3>2 DEF Promise!ANext
  <2> QED BY <2>1, <2>2, <2>3, TableSteps
<1> QED
  BY <1>1, <1>2, OccCorrect, PTL DEF Spec, IInv, ImplementsAtomicLedger, Promise!ASpec
=============================================================================
