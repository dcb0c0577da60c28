--------------------------- MODULE SqlFlowProofs ---------------------------
(***************************************************************************)
(* Proofs about the SQL backends, for any accounts, requests, callers and  *)
(* number of faults: locking is enough (SqlInvariant is inductive), and    *)
(* the protocol implements the atomic ledger.                              *)
(***************************************************************************)
EXTENDS SqlFlow, LedgerTheorems, TLAPS

\* What SqlInvariant says of one call besides what it holds.
CallOK(h) ==
    /\ pc[h] \in Working => req[h] \in Requests
    /\ pc[h] \in InTx => ReadsAreCurrent(h)
    /\ pc[h] \notin InTx => locked[h] = {} /\ at[h] = 0

\* Rows of different tables, and of different keys, are different rows.
LEMMA RowsDiffer ==
    /\ \A k : Conn # FlowRow(k)
    /\ \A a : Conn # BalanceRow(a)
    /\ \A e : Conn # EventRow(e)
    /\ \A k, a : FlowRow(k) # BalanceRow(a)
    /\ \A k, e : FlowRow(k) # EventRow(e)
    /\ \A a, e : BalanceRow(a) # EventRow(e)
    /\ \A k, l : FlowRow(k) = FlowRow(l) => k = l
    /\ \A a, b : BalanceRow(a) = BalanceRow(b) => a = b
    /\ \A e, f : EventRow(e) = EventRow(f) => e = f
  BY DEF Conn, FlowRow, BalanceRow, EventRow

\* The members of Holdings, one kind of row at a time.
LEMMA HoldingsRows ==
    ASSUME NEW h
    PROVE  /\ Conn \in Holdings(h) <=> pc[h] \in InTx /\ backend = "sqlite"
           /\ \A k : FlowRow(k) \in Holdings(h) <=>
                        pc[h] \in {"load", "journal", "replayed"} /\ k = req[h].key
           /\ \A a : BalanceRow(a) \in Holdings(h) <=> a \in locked[h]
           /\ \A e : EventRow(e) \in Holdings(h) <=>
                        \E i \in 1 .. at[h] : e = req[h].steps[i].event
  <1>1. Conn \in Holdings(h) <=> pc[h] \in InTx /\ backend = "sqlite"
    BY RowsDiffer DEF Holdings
  <1>2. ASSUME NEW k
        PROVE  FlowRow(k) \in Holdings(h) <=>
                        pc[h] \in {"load", "journal", "replayed"} /\ k = req[h].key
    BY RowsDiffer DEF Holdings
  <1>3. ASSUME NEW a PROVE BalanceRow(a) \in Holdings(h) <=> a \in locked[h]
    BY RowsDiffer DEF Holdings
  <1>4. ASSUME NEW e
        PROVE  EventRow(e) \in Holdings(h) <=> \E i \in 1 .. at[h] : e = req[h].steps[i].event
    BY RowsDiffer DEF Holdings
  <1> QED
    BY <1>1, <1>2, <1>3, <1>4

\* A request has a sequence of steps.
LEMMA StepsOf ==
    ASSUME NEW r \in Requests
    PROVE  /\ Len(r.steps) \in Nat
           /\ DOMAIN r.steps = 1 .. Len(r.steps)
           /\ Events(r) = {r.steps[i].event : i \in 1 .. Len(r.steps)}
           /\ Valid(r) <=> \A i \in 1 .. Len(r.steps) : Validate(r.steps[i])
  <1>1. r.steps \in Seq([event : STRING, entries : Seq(EntryType)])
    BY RequestShape
  <1> QED
    BY <1>1 DEF Events, Valid

\* What Append adds to the keys and events of the posted flows.
LEMMA AppendedLog ==
    ASSUME NEW r \in Requests, log \in Seq(Requests), log' = Append(log, r)
    PROVE  /\ log' \in Seq(Requests)
           /\ KeysIn(log') = KeysIn(log) \cup {r.key}
           /\ EventsIn(log') = EventsIn(log) \cup Events(r)
  <1>1. /\ log' \in Seq(Requests)
        /\ DOMAIN log' = DOMAIN log \cup {Len(log) + 1}
        /\ \A i \in DOMAIN log : log'[i] = log[i]
        /\ log'[Len(log) + 1] = r
    OBVIOUS
  <1>2. KeysIn(log') = KeysIn(log) \cup {r.key}
    BY <1>1 DEF KeysIn
  <1>3. EventsIn(log') = EventsIn(log) \cup Events(r)
    BY <1>1 DEF EventsIn
  <1> QED
    BY <1>1, <1>2, <1>3

\* At the start nothing is held and nobody is at work.
LEMMA InitInvariant == Init => SqlInvariant
  <1> SUFFICES ASSUME Init PROVE SqlInvariant
    OBVIOUS
  <1>1. TypeOK
    <2>1. dirty \in BOOLEAN
      BY Zenon DEF Init
    <2>2. /\ bal \in [Accounts -> [debits : Nat, credits : Nat]]
          /\ read \in [Handlers -> [Accounts -> [debits : Nat, credits : Nat]]]
      BY DEF Init, Zero
    <2>3. /\ accounts \subseteq Accounts
          /\ log \in Seq(Requests)
          /\ faults \in 0 .. MaxFaults
          /\ at \in [Handlers -> Nat]
      BY ExistingAssumption, SqlFaultsAssumption DEF Init
    <2>4. /\ backend \in {"crdb", "sqlite"}
          /\ pc \in [Handlers -> {"idle"} \cup Working]
          /\ req \in [Handlers -> Requests \cup {NoRequest}]
          /\ exch \in [Handlers -> Exchanges \cup {NoExchange}]
          /\ locked \in [Handlers -> SUBSET Accounts]
          /\ answer \in {"NONE", "OK", "UNKNOWN"} \cup Refusals
      BY Zenon DEF Init
    <2> QED
      BY <2>1, <2>2, <2>3, <2>4, Zenon DEF TypeOK
  <1>2. \A h \in Handlers : Holdings(h) = {}
    BY DEF Init, Holdings, InTx
  <1>3. Exclusive /\ held = [h \in Handlers |-> Holdings(h)]
    BY <1>2 DEF Init, Exclusive
  <1> QED
    BY <1>1, <1>3 DEF Init, SqlInvariant, InTx, Working

-----------------------------------------------------------------------------
(* The one step that changes the committed data.                           *)

\* What SqlInvariant says of a call that is about to commit: its flow is new,
\* valid, on open accounts of the right currency, and its totals are those
\* of the committed rows.
LEMMA PublishFacts ==
    ASSUME SqlInvariant, NEW h \in Handlers, Publish(h)
    PROVE  /\ pc[h] = "journal" /\ req[h] \in Requests
           /\ locked[h] = AccountsOf(req[h]) /\ AccountsOf(req[h]) \subseteq accounts
           /\ Parses(req[h]) /\ Valid(req[h])
           /\ \A a \in AccountsOf(req[h]) : read[h][a] = bal[a] /\ CurrencyMatches(req[h], a)
           /\ req[h].key \notin KeysIn(log)
           /\ Events(req[h]) \cap EventsIn(log) = {}
           /\ \A e \in Events(req[h]) : EventRow(e) \in held[h]
           /\ log' = Append(log, req[h])
           /\ bal' \in [Accounts -> [debits : Nat, credits : Nat]]
  <1> DEFINE r == req[h]
  <1>1. /\ pc[h] = "journal" /\ pc[h] \in Working /\ pc[h] \in InTx
        /\ at[h] = Len(r.steps)
        /\ log' = Append(log, r)
        /\ bal' = [a \in Accounts |-> IF a \in AccountsOf(r) THEN NewTotals(h, a) ELSE bal[a]]
    BY DEF Publish, AtCommit, Working, InTx
  <1>2. r \in Requests /\ ReadsAreCurrent(h) /\ held[h] = Holdings(h)
    BY <1>1 DEF SqlInvariant
  <1>3. /\ Parses(r) /\ locked[h] = AccountsOf(r) /\ AccountsOf(r) \subseteq accounts
        /\ \A a \in AccountsOf(r) : read[h][a] = bal[a] /\ CurrencyMatches(r, a)
        /\ r.key \notin KeysIn(log)
        /\ \A i \in 1 .. Len(r.steps) : Validate(r.steps[i]) /\ r.steps[i].event \notin EventsIn(log)
    BY <1>1, <1>2 DEF ReadsAreCurrent, KeyIsPosted
  <1>4. Valid(r) /\ Events(r) \cap EventsIn(log) = {}
    BY <1>2, <1>3, StepsOf
  <1>5. \A e \in Events(r) : EventRow(e) \in held[h]
    BY <1>1, <1>2, StepsOf, HoldingsRows
  <1>6. ASSUME NEW a \in AccountsOf(r)
        PROVE  NewTotals(h, a) \in [debits : Nat, credits : Nat]
    <2>1. a \in Accounts /\ DebitOf(r, a) \in Nat /\ CreditOf(r, a) \in Nat
      BY <1>2, <1>3, RequestTotals
    <2>2. read[h][a] \in [debits : Nat, credits : Nat]
      BY <2>1 DEF SqlInvariant, TypeOK
    <2> QED
      BY <2>1, <2>2 DEF NewTotals
  <1>7. bal \in [Accounts -> [debits : Nat, credits : Nat]]
    BY DEF SqlInvariant, TypeOK
  <1>8. bal' \in [Accounts -> [debits : Nat, credits : Nat]]
    BY <1>1, <1>6, <1>7
  <1> QED
    BY <1>1, <1>2, <1>3, <1>4, <1>5, <1>8

\* The local state of call g is as it was.
Same(g) ==
    /\ pc'[g] = pc[g] /\ req'[g] = req[g] /\ locked'[g] = locked[g]
    /\ read'[g] = read[g] /\ at'[g] = at[g]

\* What a step of another call may do to the database.
DbStep(h) ==
    /\ backend' = backend /\ accounts \subseteq accounts'
    /\ UNCHANGED <<bal, log>> \/ Publish(h)

\* A commit touches no row that another call holds.
LEMMA OthersAreSafe ==
    ASSUME SqlInvariant, NEW h \in Handlers, NEW g \in Handlers, g # h, Publish(h)
    PROVE  /\ \A a \in locked[g] : bal'[a] = bal[a]
           /\ pc[g] \in {"load", "journal"} /\ req[g].key \notin KeysIn(log)
                 => req[g].key \notin KeysIn(log')
           /\ \A i \in 1 .. at[g] : req[g].steps[i].event \notin Events(req[h])
  <1>1. /\ held[h] = Holdings(h) /\ held[g] = Holdings(g) /\ held[g] \cap held[h] = {}
        /\ locked[g] \subseteq Accounts
    BY DEF SqlInvariant, Exclusive, TypeOK
  <1>2. \A a \in locked[g] : a \notin AccountsOf(req[h])
    BY <1>1, PublishFacts, HoldingsRows
  <1>3. \A a \in locked[g] : bal'[a] = bal[a]
    BY <1>1, <1>2 DEF Publish
  <1>4. ASSUME pc[g] \in {"load", "journal"} PROVE req[g].key # req[h].key
    <2>1. FlowRow(req[g].key) \in held[g]
      BY <1>1, <1>4, HoldingsRows
    <2>2. FlowRow(req[h].key) \in held[h]
      BY <1>1, PublishFacts, HoldingsRows
    <2> QED
      BY <1>1, <2>1, <2>2
  <1>5. \A i \in 1 .. at[g] : EventRow(req[g].steps[i].event) \in held[g]
    BY <1>1, HoldingsRows
  <1>6. \A i \in 1 .. at[g] : req[g].steps[i].event \notin Events(req[h])
    BY <1>1, <1>5, PublishFacts
  <1> QED
    <2>1. KeysIn(log') = KeysIn(log) \cup {req[h].key}
      BY PublishFacts, AppendedLog DEF SqlInvariant, TypeOK
    <2> QED
      BY <1>3, <1>4, <1>6, <2>1

\* A call that does not move keeps its invariant: what it relies on is behind
\* its locks.
LEMMA OthersKeep ==
    ASSUME SqlInvariant, NEW h \in Handlers, NEW g \in Handlers, g # h,
           Same(g), DbStep(h)
    PROVE  CallOK(g)' /\ Holdings(g)' = Holdings(g)
  <1>1. Holdings(g)' = Holdings(g)
    BY DEF Same, DbStep, Holdings
  <1>2. CASE pc[g] \notin InTx
    BY <1>1, <1>2 DEF SqlInvariant, Same, CallOK
  <1>3. CASE pc[g] \in InTx
    <2>1. /\ ReadsAreCurrent(g)
          /\ pc[g] \in Working => req[g] \in Requests
      BY <1>3 DEF SqlInvariant
    <2>2. Pending(g)' = Pending(g)
      BY DEF Same, Pending
    <2>3. CASE UNCHANGED <<bal, log>>
      <3>1. KeyIsPosted(req[g])' <=> KeyIsPosted(req[g])
        BY <2>3 DEF KeyIsPosted, Same
      <3>2. ReadsAreCurrent(g)'
        BY <2>1, <2>2, <2>3, <3>1 DEF ReadsAreCurrent, Same, DbStep
      <3> QED
        BY <1>1, <1>3, <2>1, <3>2 DEF CallOK, Same
    <2>4. CASE Publish(h)
      <3>1. /\ \A a \in locked[g] : bal'[a] = bal[a]
            /\ pc[g] \in {"load", "journal"} => req'[g].key \notin KeysIn(log')
            /\ \A i \in 1 .. at[g] : req[g].steps[i].event \notin Events(req[h])
        BY <2>1, <2>4, OthersAreSafe DEF ReadsAreCurrent, KeyIsPosted, Same
      <3>2. /\ KeysIn(log) \subseteq KeysIn(log')
            /\ EventsIn(log') = EventsIn(log) \cup Events(req[h])
        BY <2>4, PublishFacts, AppendedLog DEF SqlInvariant, TypeOK
      <3>3. /\ pc'[g] \in {"load", "journal"} => ~ KeyIsPosted(req[g])'
            /\ pc'[g] = "replayed" => KeyIsPosted(req[g])'
        BY <2>1, <3>1, <3>2 DEF ReadsAreCurrent, KeyIsPosted, Same
      <3>4. /\ Parses(req[g])' /\ (locked[g] \subseteq AccountsOf(req[g]) \cap accounts)'
            /\ \A a \in locked'[g] :
                  /\ read'[g][a] = bal'[a]
                  /\ CurrencyMatches(req'[g], a)
                  /\ \A b \in Pending(g)' : a < b
        BY <2>1, <2>2, <3>1 DEF ReadsAreCurrent, Same, DbStep
      <3>5. \A i \in 1 .. at'[g] :
                /\ Validate(req'[g].steps[i])
                /\ req'[g].steps[i].event \notin EventsIn(log')
        BY <2>1, <3>1, <3>2 DEF ReadsAreCurrent, Same
      <3>6. ReadsAreCurrent(g)'
        BY <2>1, <3>3, <3>4, <3>5 DEF ReadsAreCurrent, Same
      <3> QED
        BY <1>1, <1>3, <2>1, <3>6 DEF CallOK, Same
    <2> QED
      BY <2>3, <2>4 DEF DbStep
  <1> QED
    BY <1>1, <1>2, <1>3

\* A step of h keeps the invariant if it keeps h's own part and takes nothing
\* that another call holds.
LEMMA HandlerStep ==
    ASSUME SqlInvariant, NEW h \in Handlers, TypeOK',
           DbStep(h),
           \A g \in Handlers \ {h} : Same(g),
           held' = [held EXCEPT ![h] = Holdings(h)'],
           \A g \in Handlers \ {h} : Holdings(h)' \cap held[g] = {},
           CallOK(h)'
    PROVE  SqlInvariant'
  <1>1. held = [g \in Handlers |-> Holdings(g)]
    BY DEF SqlInvariant
  <1>2. \A g \in Handlers \ {h} : CallOK(g)' /\ Holdings(g)' = Holdings(g)
    BY OthersKeep
  <1>3. held' = [g \in Handlers |-> Holdings(g)']
    BY <1>1, <1>2
  <1>4. Exclusive'
    BY <1>1, <1>2, <1>3 DEF SqlInvariant, Exclusive
  <1> QED
    BY <1>2, <1>3, <1>4 DEF SqlInvariant, CallOK

-----------------------------------------------------------------------------
(* The steps of a call.                                                    *)

Codes == {"OK", "UNKNOWN"} \cup Refusals

\* Whatever it answers, a handler that returns lets go of everything.
LEMMA ReturnStep ==
    ASSUME SqlInvariant, NEW h \in Handlers, NEW code \in Codes, Return(h, code),
           DbStep(h), accounts' \subseteq Accounts, dirty' \in BOOLEAN,
           faults' \in 0 .. MaxFaults
    PROVE  SqlInvariant'
  <1>t. TypeOK
    BY DEF SqlInvariant
  <1>1. /\ bal' \in [Accounts -> [debits : Nat, credits : Nat]]
        /\ log' \in Seq(Requests)
    <2>1. CASE UNCHANGED <<bal, log>>
      BY <1>t, <2>1 DEF TypeOK
    <2>2. CASE Publish(h)
      BY <1>t, <2>2, PublishFacts, AppendedLog DEF TypeOK
    <2> QED
      BY <2>1, <2>2 DEF DbStep
  <1>2. /\ pc' \in [Handlers -> {"idle"} \cup Working]
        /\ req' \in [Handlers -> Requests \cup {NoRequest}]
        /\ exch' \in [Handlers -> Exchanges \cup {NoExchange}]
        /\ locked' \in [Handlers -> SUBSET Accounts]
    BY <1>t DEF TypeOK, Return
  <1>3. /\ read' \in [Handlers -> [Accounts -> [debits : Nat, credits : Nat]]]
        /\ at' \in [Handlers -> Nat]
    BY <1>t DEF TypeOK, Return, Zero
  <1>4. backend' \in {"crdb", "sqlite"} /\ answer' \in {"NONE", "OK", "UNKNOWN"} \cup Refusals
    BY <1>t DEF TypeOK, Return, DbStep, Codes
  <1>5. TypeOK'
    BY <1>1, <1>2, <1>3, <1>4, Zenon DEF TypeOK
  <1>6. /\ pc'[h] = "idle" /\ locked'[h] = {} /\ at'[h] = 0
        /\ \A g \in Handlers \ {h} : Same(g)
    BY <1>t DEF Return, TypeOK, Same
  <1>7. Holdings(h)' = {}
    BY <1>6 DEF Holdings, InTx
  <1>8. CallOK(h)'
    BY <1>6 DEF CallOK, InTx, Working
  <1> QED
    BY <1>5, <1>6, <1>7, <1>8, HandlerStep DEF Return

\* A step that goes on leaves the database alone; only the types of what it
\* changes are left to show.
LEMMA TypeKept ==
    ASSUME SqlInvariant, NEW h \in Handlers, NEW label \in Working, Goto(h, label),
           UNCHANGED <<db, faults>>,
           req' \in [Handlers -> Requests \cup {NoRequest}],
           exch' \in [Handlers -> Exchanges \cup {NoExchange}],
           locked' \in [Handlers -> SUBSET Accounts],
           read' \in [Handlers -> [Accounts -> [debits : Nat, credits : Nat]]],
           at' \in [Handlers -> Nat]
    PROVE  TypeOK' /\ DbStep(h)
  <1>t. TypeOK
    BY DEF SqlInvariant
  <1>1. /\ pc' \in [Handlers -> {"idle"} \cup Working]
        /\ answer' \in {"NONE", "OK", "UNKNOWN"} \cup Refusals
    BY <1>t DEF TypeOK, Goto
  <1>2. /\ dirty' \in BOOLEAN /\ UNCHANGED <<backend, accounts, bal, log, faults>>
    BY <1>t, Zenon DEF TypeOK, db
  <1> QED
    BY <1>t, <1>1, <1>2, Zenon DEF TypeOK, DbStep

\* Outside a transaction a call holds nothing.
LEMMA NothingHeld ==
    ASSUME SqlInvariant, NEW h \in Handlers, pc[h] \notin InTx
    PROVE  held[h] = {} /\ locked[h] = {} /\ at[h] = 0
  <1>1. held[h] = Holdings(h) /\ locked[h] = {} /\ at[h] = 0
    BY DEF SqlInvariant
  <1> QED
    BY <1>1 DEF Holdings, InTx

\* The steps of ExecuteExchange before its transaction, and a new request.
LEMMA OutsideStep ==
    ASSUME SqlInvariant, NEW h \in Handlers, NEW label \in {"from", "to", "rate", "begin"},
           Goto(h, label), pc[h] \notin InTx,
           UNCHANGED <<db, faults, held, locked, read, at>>,
           req' \in [Handlers -> Requests \cup {NoRequest}],
           exch' \in [Handlers -> Exchanges \cup {NoExchange}],
           req'[h] \in Requests,
           \A g \in Handlers \ {h} : req'[g] = req[g]
    PROVE  SqlInvariant'
  <1>t. TypeOK
    BY DEF SqlInvariant
  <1>1. label \in Working /\ label \notin InTx
    BY DEF Working, InTx
  <1>2. TypeOK' /\ DbStep(h)
    BY <1>t, <1>1, TypeKept DEF TypeOK
  <1>3. /\ pc'[h] = label
        /\ \A g \in Handlers \ {h} : Same(g)
    BY <1>t DEF Goto, TypeOK, Same
  <1>4. held[h] = {} /\ locked[h] = {} /\ at[h] = 0
    BY NothingHeld
  <1>5. Holdings(h)' = {}
    BY <1>1, <1>3, <1>4 DEF Holdings, InTx
  <1>6. held' = [held EXCEPT ![h] = Holdings(h)']
    BY <1>4, <1>5 DEF SqlInvariant
  <1>7. CallOK(h)'
    BY <1>1, <1>3, <1>4 DEF CallOK
  <1> QED
    BY <1>2, <1>3, <1>5, <1>6, <1>7, HandlerStep

\* What a call may take, nobody else holds.
LEMMA GrantedIsFree ==
    ASSUME NEW h \in Handlers, Granted(h), NEW x \in Needs(h)
    PROVE  \A g \in Handlers \ {h} : x \notin held[g]
  BY DEF Granted, WaitsFor

\* The call is refused or answered without a change of the database.
LEMMA QuietReturn ==
    ASSUME SqlInvariant, NEW h \in Handlers, NEW code \in Codes, Return(h, code),
           UNCHANGED db, faults' \in 0 .. MaxFaults
    PROVE  SqlInvariant'
  <1>1. /\ dirty \in BOOLEAN /\ accounts \subseteq Accounts
        /\ UNCHANGED <<backend, accounts, bal, log, dirty>>
    BY Zenon DEF SqlInvariant, TypeOK, db
  <1>2. DbStep(h)
    BY <1>1 DEF DbStep
  <1>3. dirty' \in BOOLEAN /\ accounts' \subseteq Accounts
    BY <1>1, Zenon
  <1> QED
    BY <1>2, <1>3, ReturnStep

\* A new request, or the retry of one.
LEMMA ArriveStep ==
    ASSUME SqlInvariant, NEW h \in Handlers, NEW r \in Requests,
           NEW x \in Exchanges \cup {NoExchange}, NEW label \in {"from", "begin"},
           Arrive(h, r, x, label)
    PROVE  SqlInvariant'
  <1>t. TypeOK
    BY DEF SqlInvariant
  <1>1. /\ req' \in [Handlers -> Requests \cup {NoRequest}]
        /\ exch' \in [Handlers -> Exchanges \cup {NoExchange}]
        /\ req'[h] \in Requests
        /\ \A g \in Handlers \ {h} : req'[g] = req[g]
    BY <1>t DEF Arrive, TypeOK
  <1>2. pc[h] \notin InTx
    BY DEF Arrive, InTx
  <1> QED
    BY <1>1, <1>2, OutsideStep DEF Arrive

\* ExecuteExchange before its transaction.
LEMMA ExchangeSteps ==
    ASSUME SqlInvariant, NEW h \in Handlers, ReadFrom(h) \/ ReadTo(h) \/ ResolveRate(h)
    PROVE  SqlInvariant'
  <1>t. TypeOK
    BY DEF SqlInvariant
  <1>1. /\ pc[h] \in {"from", "to", "rate"} /\ UNCHANGED <<db, faults>>
    BY DEF ReadFrom, ReadTo, ResolveRate
  <1>2. pc[h] \notin InTx /\ pc[h] \in Working
    BY <1>1 DEF InTx, Working
  <1>3. CASE \E code \in Codes : Return(h, code)
    <2>1. faults' \in 0 .. MaxFaults
      BY <1>t, <1>1 DEF TypeOK
    <2> QED
      BY <1>1, <1>3, <2>1, QuietReturn
  <1>4. CASE /\ \E label \in {"from", "to", "rate", "begin"} : Goto(h, label)
             /\ UNCHANGED <<held, req, exch, locked, read, at>>
    <2>1. req[h] \in Requests
      BY <1>2 DEF SqlInvariant
    <2> QED
      BY <1>t, <1>1, <1>2, <1>4, <2>1, OutsideStep DEF TypeOK
  <1> QED
    BY <1>3, <1>4 DEF ReadFrom, ReadTo, ResolveRate, Codes, Refusals, call

\* The transaction begins.
LEMMA BeginStep ==
    ASSUME SqlInvariant, NEW h \in Handlers, BeginFlowTx(h)
    PROVE  SqlInvariant'
  <1>t. TypeOK /\ held = [g \in Handlers |-> Holdings(g)]
    BY DEF SqlInvariant
  <1>1. /\ pc[h] = "begin" /\ pc[h] \notin InTx /\ pc[h] \in Working
        /\ UNCHANGED <<db, faults>> /\ Granted(h)
    BY DEF BeginFlowTx, InTx, Working
  <1>2. CASE \E code \in Codes : Return(h, code)
    <2>1. faults' \in 0 .. MaxFaults
      BY <1>t, <1>1 DEF TypeOK
    <2> QED
      BY <1>1, <1>2, <2>1, QuietReturn
  <1>3. CASE /\ Parses(req[h])
             /\ Goto(h, "lookup")
             /\ held' = [held EXCEPT ![h] = IF backend = "sqlite" THEN {Conn} ELSE {}]
             /\ UNCHANGED call
    <2>0. UNCHANGED <<req, exch, locked, read, at, backend, log, bal, accounts>>
      BY <1>1, <1>3 DEF call, db
    <2>1. TypeOK' /\ DbStep(h)
      BY <1>t, <1>1, <1>3, <2>0, TypeKept DEF TypeOK, Working, InTx
    <2>2. pc'[h] = "lookup" /\ \A g \in Handlers \ {h} : Same(g)
      BY <1>t, <1>3, <2>0 DEF Goto, TypeOK, Same
    <2>3. locked[h] = {} /\ at[h] = 0 /\ req[h] \in Requests
      BY <1>1, NothingHeld DEF SqlInvariant
    <2>4. Holdings(h)' = IF backend = "sqlite" THEN {Conn} ELSE {}
      BY <2>0, <2>2, <2>3 DEF Holdings, InTx
    <2>5. ASSUME NEW g \in Handlers \ {h} PROVE Holdings(h)' \cap held[g] = {}
      <3>1. backend = "sqlite" => Conn \in Needs(h)
        BY <1>1 DEF Needs
      <3> QED
        BY <1>1, <2>4, <3>1, GrantedIsFree
    <2>6. ReadsAreCurrent(h)'
      BY <1>3, <2>0, <2>2, <2>3, StepsOf DEF ReadsAreCurrent
    <2>7. CallOK(h)'
      BY <2>0, <2>2, <2>3, <2>6 DEF CallOK, InTx
    <2> QED
      BY <1>3, <2>1, <2>2, <2>4, <2>5, <2>7, HandlerStep
  <1> QED
    BY <1>2, <1>3 DEF BeginFlowTx, Codes, Refusals

\* A step inside the transaction that takes one more row, or none.
LEMMA InsideStep ==
    ASSUME SqlInvariant, NEW h \in Handlers, NEW label \in InTx, Goto(h, label),
           pc[h] \in InTx, UNCHANGED <<db, faults, req, exch>>,
           locked' \in [Handlers -> SUBSET Accounts],
           read' \in [Handlers -> [Accounts -> [debits : Nat, credits : Nat]]],
           at' \in [Handlers -> Nat],
           \A g \in Handlers \ {h} :
               locked'[g] = locked[g] /\ read'[g] = read[g] /\ at'[g] = at[g],
           NEW X, Granted(h), X \subseteq Needs(h),
           held' = [held EXCEPT ![h] = held[h] \cup X],
           Holdings(h)' = Holdings(h) \cup X,
           ReadsAreCurrent(h)'
    PROVE  SqlInvariant'
  <1>t. TypeOK /\ held = [g \in Handlers |-> Holdings(g)] /\ Exclusive
    BY DEF SqlInvariant
  <1>1. label \in Working /\ pc[h] \in Working
    BY DEF Working
  <1>2. TypeOK' /\ DbStep(h)
    BY <1>t, <1>1, TypeKept DEF TypeOK
  <1>3. pc'[h] = label /\ \A g \in Handlers \ {h} : Same(g)
    BY <1>t DEF Goto, TypeOK, Same
  <1>4. held' = [held EXCEPT ![h] = Holdings(h)']
    BY <1>t
  <1>5. \A g \in Handlers \ {h} : Holdings(h)' \cap held[g] = {}
    BY <1>t, GrantedIsFree DEF Exclusive
  <1>6. CallOK(h)'
    BY <1>1, <1>3 DEF CallOK, SqlInvariant
  <1> QED
    BY <1>2, <1>3, <1>4, <1>5, <1>6, HandlerStep

\* GetFlowByIdempotency locks the flow it finds.
LEMMA LookupStep ==
    ASSUME SqlInvariant, NEW h \in Handlers, GetFlowByIdempotency(h)
    PROVE  SqlInvariant'
  <1>t. TypeOK /\ held = [g \in Handlers |-> Holdings(g)]
    BY DEF SqlInvariant
  <1>1. /\ pc[h] = "lookup" /\ pc[h] \in InTx /\ Granted(h)
        /\ UNCHANGED <<db, faults, req, exch, locked, read, at, backend, accounts, bal, log>>
    BY DEF GetFlowByIdempotency, InTx, call, db
  <1>2. ReadsAreCurrent(h) /\ Needs(h) = {FlowRow(req[h].key)}
    BY <1>1 DEF SqlInvariant, Needs
  <1>3. CASE KeyIsPosted(req[h])
    <2>1. Goto(h, "replayed") /\ held' = [held EXCEPT ![h] = held[h] \cup {FlowRow(req[h].key)}]
      BY <1>3 DEF GetFlowByIdempotency, Take
    <2>2. pc'[h] = "replayed"
      BY <1>t, <2>1 DEF Goto, TypeOK
    <2>3. Holdings(h)' = Holdings(h) \cup {FlowRow(req[h].key)}
      BY <1>1, <2>2 DEF Holdings, InTx
    <2>4. ReadsAreCurrent(h)'
      BY <1>1, <1>2, <1>3, <2>2 DEF ReadsAreCurrent, KeyIsPosted, Pending
    <2> QED
      BY <1>t, <1>1, <1>2, <2>1, <2>3, <2>4, InsideStep DEF TypeOK, InTx
  <1>4. CASE ~ KeyIsPosted(req[h])
    <2>1. Goto(h, "insert") /\ held' = held
      BY <1>4 DEF GetFlowByIdempotency
    <2>2. pc'[h] = "insert"
      BY <1>t, <2>1 DEF Goto, TypeOK
    <2>3. PICK X : X = {}
      OBVIOUS
    <2>4. X \subseteq Needs(h) /\ Holdings(h)' = Holdings(h) \cup X
      BY <1>1, <2>2, <2>3 DEF Holdings, InTx
    <2>5. ReadsAreCurrent(h)'
      BY <1>1, <1>2, <2>2 DEF ReadsAreCurrent, KeyIsPosted, Pending
    <2>6. held' = [held EXCEPT ![h] = held[h] \cup X]
      BY <1>t, <2>1, <2>3
    <2> QED
      BY <1>t, <1>1, <2>1, <2>4, <2>5, <2>6, InsideStep DEF TypeOK, InTx
  <1> QED
    BY <1>3, <1>4

\* InsertFlowRun: the unique key belongs to this transaction from now on.
LEMMA InsertStep ==
    ASSUME SqlInvariant, NEW h \in Handlers, InsertFlowRun(h)
    PROVE  SqlInvariant'
  <1>t. TypeOK /\ held = [g \in Handlers |-> Holdings(g)]
    BY DEF SqlInvariant
  <1>1. /\ pc[h] = "insert" /\ pc[h] \in InTx /\ Granted(h) /\ UNCHANGED <<db, faults>>
    BY DEF InsertFlowRun, InTx
  <1>2. ReadsAreCurrent(h) /\ Needs(h) = {FlowRow(req[h].key)}
    BY <1>1 DEF SqlInvariant, Needs
  <1>3. CASE KeyIsPosted(req[h])
    <2>1. Return(h, "UNKNOWN") /\ faults' \in 0 .. MaxFaults
      BY <1>t, <1>1, <1>3 DEF InsertFlowRun, TypeOK
    <2> QED
      BY <1>1, <2>1, QuietReturn DEF Codes
  <1>4. CASE ~ KeyIsPosted(req[h])
    <2> DEFINE label == IF AccountsOf(req[h]) = {} THEN "journal" ELSE "load"
    <2>1. /\ Goto(h, label)
          /\ held' = [held EXCEPT ![h] = held[h] \cup {FlowRow(req[h].key)}]
          /\ UNCHANGED <<req, exch, locked, read, at, backend, accounts, bal, log>>
      BY <1>1, <1>4 DEF InsertFlowRun, Take, call, db
    <2>2. pc'[h] = label /\ label \in {"load", "journal"} /\ label \in InTx
      BY <1>t, <2>1 DEF Goto, TypeOK, InTx
    <2>3. Holdings(h)' = Holdings(h) \cup {FlowRow(req[h].key)}
      BY <1>1, <2>1, <2>2 DEF Holdings, InTx
    <2>4. ReadsAreCurrent(h)'
      BY <1>1, <1>2, <1>4, <2>1, <2>2 DEF ReadsAreCurrent, KeyIsPosted, Pending
    <2> HIDE DEF label
    <2> QED
      BY <1>t, <1>1, <1>2, <2>1, <2>2, <2>3, <2>4, InsideStep DEF TypeOK
  <1> QED
    BY <1>3, <1>4

\* LockBalance: accounts are locked from the smallest id up, and what is read
\* under the lock is what is committed.
LEMMA LoadStep ==
    ASSUME SqlInvariant, NEW h \in Handlers, NEW a \in Accounts, LoadAccount(h, a)
    PROVE  SqlInvariant'
  <1>t. TypeOK /\ held = [g \in Handlers |-> Holdings(g)]
    BY DEF SqlInvariant
  <1>1. /\ pc[h] = "load" /\ pc[h] \in InTx /\ IsNext(h, a) /\ UNCHANGED <<db, faults>>
    BY DEF LoadAccount, InTx
  <1>2. ReadsAreCurrent(h) /\ req[h] \in Requests
    BY <1>1 DEF SqlInvariant, Working
  <1>3. CASE \E code \in Codes : Return(h, code)
    <2>1. faults' \in 0 .. MaxFaults
      BY <1>t, <1>1 DEF TypeOK
    <2> QED
      BY <1>1, <1>3, <2>1, QuietReturn
  <1>4. CASE /\ a \in accounts /\ CurrencyMatches(req[h], a) /\ LockBalance(h, a)
             /\ Goto(h, IF Pending(h) = {a} THEN "journal" ELSE "load")
             /\ UNCHANGED <<req, exch, quote, at>>
    <2> DEFINE label == IF Pending(h) = {a} THEN "journal" ELSE "load"
    <2>1. /\ Goto(h, label) /\ Granted(h)
          /\ held' = [held EXCEPT ![h] = held[h] \cup {BalanceRow(a)}]
          /\ locked' = [locked EXCEPT ![h] = locked[h] \cup {a}]
          /\ read' = [read EXCEPT ![h][a] = bal[a]]
          /\ UNCHANGED <<req, exch, at, backend, accounts, bal, log>>
      BY <1>1, <1>4 DEF LockBalance, Take, db
    <2>2. pc'[h] = label /\ label \in {"load", "journal"} /\ label \in InTx
      BY <1>t, <2>1 DEF Goto, TypeOK, InTx
    <2>3. /\ locked' \in [Handlers -> SUBSET Accounts] /\ locked'[h] = locked[h] \cup {a}
          /\ \A g \in Handlers \ {h} : locked'[g] = locked[g]
      BY <1>t, <2>1 DEF TypeOK
    <2>4. /\ read' \in [Handlers -> [Accounts -> [debits : Nat, credits : Nat]]]
          /\ read'[h][a] = bal[a]
          /\ \A b \in Accounts \ {a} : read'[h][b] = read[h][b]
          /\ \A g \in Handlers \ {h} : read'[g] = read[g]
      BY <1>t, <2>1 DEF TypeOK
    <2>5. /\ a \in Pending(h) /\ Pending(h)' = Pending(h) \ {a}
          /\ \A b \in Pending(h) \ {a} : a < b
          /\ Pending(h) \subseteq Nat
      BY <1>1, <1>2, <2>1, <2>3, AccountsAssumption, RequestTotals DEF IsNext, Pending
    <2>6. Holdings(h)' = Holdings(h) \cup {BalanceRow(a)}
      BY <1>1, <2>1, <2>2, <2>3 DEF Holdings, InTx
    <2>7. {BalanceRow(a)} \subseteq Needs(h)
      BY <1>1, <2>5 DEF Needs
    <2>8. ReadsAreCurrent(h)'
      <3>1. \A b \in locked'[h] :
                /\ read'[h][b] = bal'[b]
                /\ CurrencyMatches(req'[h], b)
                /\ \A c \in Pending(h)' : b < c
        BY <1>2, <1>4, <2>1, <2>3, <2>4, <2>5 DEF ReadsAreCurrent, TypeOK, SqlInvariant
      <3>2. /\ locked'[h] \subseteq AccountsOf(req'[h]) \cap accounts'
            /\ label = "journal" => locked'[h] = AccountsOf(req'[h])
        BY <1>2, <1>4, <2>1, <2>3, <2>5 DEF ReadsAreCurrent, Pending
      <3> HIDE DEF label
      <3> QED
        BY <1>1, <1>2, <2>1, <2>2, <3>1, <3>2 DEF ReadsAreCurrent, KeyIsPosted
    <2> HIDE DEF label
    <2> QED
      <3>1. at' \in [Handlers -> Nat] /\ \A g \in Handlers \ {h} : at'[g] = at[g]
        BY <1>t, <2>1 DEF TypeOK
      <3>2. PICK X : X = {BalanceRow(a)}
        OBVIOUS
      <3>3. /\ X \subseteq Needs(h) /\ Holdings(h)' = Holdings(h) \cup X
            /\ held' = [held EXCEPT ![h] = held[h] \cup X]
        BY <2>1, <2>6, <2>7, <3>2
      <3>4. UNCHANGED <<db, faults, req, exch>>
        BY <1>1, <2>1
      <3> QED
        BY <1>1, <2>1, <2>2, <2>3, <2>4, <2>8, <3>1, <3>3, <3>4, InsideStep
  <1> QED
    BY <1>3, <1>4 DEF LoadAccount, Codes, Refusals

\* InsertJournal: the event id belongs to this transaction from now on.
LEMMA JournalStep ==
    ASSUME SqlInvariant, NEW h \in Handlers, InsertJournal(h)
    PROVE  SqlInvariant'
  <1>t. TypeOK /\ held = [g \in Handlers |-> Holdings(g)]
    BY DEF SqlInvariant
  <1>1. /\ pc[h] = "journal" /\ pc[h] \in InTx /\ at[h] < Len(req[h].steps)
        /\ UNCHANGED <<db, faults>>
    BY DEF InsertJournal, InTx
  <1>2. ReadsAreCurrent(h) /\ req[h] \in Requests /\ at[h] \in Nat
    BY <1>1, <1>t DEF SqlInvariant, Working, TypeOK
  <1>3. CASE \E code \in Codes : Return(h, code)
    <2>1. faults' \in 0 .. MaxFaults
      BY <1>t, <1>1 DEF TypeOK
    <2> QED
      BY <1>1, <1>3, <2>1, QuietReturn
  <1>4. CASE /\ Validate(Journal(h)) /\ Granted(h) /\ ~ EventTaken(h)
             /\ at' = [at EXCEPT ![h] = @ + 1]
             /\ Take(h, EventRow(Journal(h).event))
             /\ Goto(h, "journal")
             /\ UNCHANGED <<req, exch, quote, locked, read>>
    <2>1. /\ held' = [held EXCEPT ![h] = held[h] \cup {EventRow(Journal(h).event)}]
          /\ at' \in [Handlers -> Nat] /\ at'[h] = at[h] + 1
          /\ \A g \in Handlers \ {h} : at'[g] = at[g]
          /\ UNCHANGED <<backend, accounts, bal, log>>
      BY <1>t, <1>1, <1>4 DEF Take, TypeOK, db
    <2>2. pc'[h] = "journal"
      BY <1>t, <1>4 DEF Goto, TypeOK
    <2>3. 1 .. at'[h] = (1 .. at[h]) \cup {at[h] + 1}
      BY <1>2, <2>1
    <2>4. Holdings(h)' = Holdings(h) \cup {EventRow(Journal(h).event)}
      BY <1>1, <1>4, <2>1, <2>2, <2>3 DEF Holdings, Journal
    <2>5. {EventRow(Journal(h).event)} \subseteq Needs(h)
      BY <1>1 DEF Needs
    <2>6. ReadsAreCurrent(h)'
      <3>1. /\ at'[h] <= Len(req'[h].steps)
            /\ \A i \in 1 .. at'[h] :
                  /\ Validate(req'[h].steps[i])
                  /\ req'[h].steps[i].event \notin EventsIn(log')
        BY <1>1, <1>2, <1>4, <2>1, <2>3, StepsOf DEF ReadsAreCurrent, Journal, EventTaken
      <3> QED
        BY <1>1, <1>2, <1>4, <2>1, <2>2, <3>1 DEF ReadsAreCurrent, KeyIsPosted, Pending
    <2> QED
      BY <1>t, <1>1, <1>4, <2>1, <2>4, <2>5, <2>6, InsideStep DEF TypeOK
  <1> QED
    BY <1>3, <1>4 DEF InsertJournal, Codes, Refusals

\* The answers that end a call, with or without a commit.
LEMMA EndSteps ==
    ASSUME SqlInvariant, NEW h \in Handlers,
           \/ Refuse(h) \/ Commit(h) \/ CommitReplay(h) \/ AbortDeadlocked(h)
           \/ CommitLost(h) \/ CommitFails(h) \/ StatementFails(h)
    PROVE  SqlInvariant'
  <1>t. /\ faults \in 0 .. MaxFaults /\ dirty \in BOOLEAN /\ accounts \subseteq Accounts
    BY Zenon DEF SqlInvariant, TypeOK
  <1>f. Fault => faults' \in 0 .. MaxFaults
    BY <1>t, SqlFaultsAssumption DEF Fault
  <1>c. "OK" \in Codes /\ "UNKNOWN" \in Codes /\ "INSUFFICIENT_FUNDS" \in Codes
    BY DEF Codes, Refusals
  <1>1. CASE Refuse(h) \/ CommitReplay(h) \/ AbortDeadlocked(h)
    BY <1>1, <1>t, <1>c, QuietReturn DEF Refuse, CommitReplay, AbortDeadlocked
  <1>2. CASE StatementFails(h)
    BY <1>2, <1>f, <1>c, QuietReturn DEF StatementFails
  <1>3. CASE Publish(h) /\ (Return(h, "OK") \/ Return(h, "UNKNOWN")) /\ (Fault \/ UNCHANGED faults)
    <2>1. DbStep(h) /\ accounts' \subseteq Accounts
      BY <1>3, <1>t DEF Publish, DbStep
    <2>2. dirty' \in BOOLEAN
      BY <1>3, <1>t, Zenon DEF Publish
    <2>3. faults' \in 0 .. MaxFaults
      BY <1>3, <1>t, <1>f
    <2> QED
      BY <1>3, <1>c, <2>1, <2>2, <2>3, ReturnStep
  <1>4. CASE CommitFails(h)
    <2>1. DbStep(h) /\ accounts' \subseteq Accounts /\ Return(h, "UNKNOWN")
      BY <1>4, <1>t DEF CommitFails, DbStep
    <2>2. dirty' \in BOOLEAN
      BY <1>4, Zenon DEF CommitFails
    <2>3. faults' \in 0 .. MaxFaults
      BY <1>4, <1>f DEF CommitFails
    <2> QED
      BY <1>c, <2>1, <2>2, <2>3, ReturnStep
  <1> QED
    BY <1>1, <1>2, <1>3, <1>4 DEF Commit, CommitLost

\* CreateAccount and PutFXRate run beside the calls and take nothing away.
LEMMA TableSteps ==
    ASSUME SqlInvariant,
           (\E a \in Accounts : CreateAccount(a)) \/ (\E v \in Rates : PutFXRate(v))
    PROVE  SqlInvariant'
  <1>1. /\ accounts \subseteq accounts' /\ accounts' \subseteq Accounts
        /\ answer' = "NONE"
        /\ UNCHANGED <<backend, bal, log, dirty, held, pc, req, exch, locked, read, at, faults>>
    BY DEF SqlInvariant, TypeOK, CreateAccount, PutFXRate, call
  <1>2. TypeOK'
    <2>1. dirty' \in BOOLEAN
      BY <1>1, Zenon DEF SqlInvariant, TypeOK
    <2> QED
      BY <1>1, <2>1, Zenon DEF SqlInvariant, TypeOK
  <1>3. \A h \in Handlers : Holdings(h)' = Holdings(h)
    BY <1>1 DEF Holdings
  <1>4. Exclusive' /\ (held = [h \in Handlers |-> Holdings(h)])'
    BY <1>1, <1>3 DEF SqlInvariant, Exclusive
  <1>5. ASSUME NEW h \in Handlers PROVE CallOK(h)'
    <2>1. CASE pc[h] \notin InTx
      BY <1>1, <2>1 DEF SqlInvariant, CallOK
    <2>2. CASE pc[h] \in InTx
      <3>1. ReadsAreCurrent(h)'
        BY <1>1, <2>2 DEF SqlInvariant, ReadsAreCurrent, KeyIsPosted, Pending
      <3> QED
        BY <1>1, <2>2, <3>1 DEF SqlInvariant, CallOK
    <2> QED
      BY <2>1, <2>2
  <1> QED
    BY <1>2, <1>4, <1>5 DEF SqlInvariant, CallOK

\* Every step keeps the invariant.
LEMMA NextInvariant == SqlInvariant /\ [Next]_vars => SqlInvariant'
  <1> SUFFICES ASSUME SqlInvariant, [Next]_vars PROVE SqlInvariant'
    OBVIOUS
  <1>1. CASE UNCHANGED vars
    <2>1. UNCHANGED <<backend, accounts, bal, log, dirty, held, pc, req, exch, locked,
                      read, at, answer, faults>>
      BY <1>1, Zenon DEF vars
    <2>2. TypeOK'
      BY <2>1, Zenon DEF SqlInvariant, TypeOK
    <2>3. ASSUME NEW h \in Handlers PROVE CallOK(h)' /\ Holdings(h)' = Holdings(h)
      BY <2>1 DEF SqlInvariant, CallOK, Holdings, ReadsAreCurrent, KeyIsPosted, Pending
    <2>4. Exclusive' /\ (held = [h \in Handlers |-> Holdings(h)])'
      BY <2>1, <2>3 DEF SqlInvariant, Exclusive
    <2> QED
      BY <2>2, <2>3, <2>4 DEF SqlInvariant, CallOK
  <1>2. CASE (\E a \in Accounts : CreateAccount(a)) \/ (\E v \in Rates : PutFXRate(v))
    BY <1>2, TableSteps
  <1>3. ASSUME NEW h \in Handlers, NEW r \in Flows, ExecuteFlow(h, r) PROVE SqlInvariant'
    BY <1>3, ArriveStep DEF ExecuteFlow, Flows
  <1>4. ASSUME NEW h \in Handlers, NEW x \in Exchanges, ExecuteExchange(h, x) PROVE SqlInvariant'
    BY <1>4, ArriveStep, ExchangesAssumption DEF ExecuteExchange
  <1>5. ASSUME NEW h \in Handlers, Step(h) PROVE SqlInvariant'
    BY <1>5, ExchangeSteps, BeginStep, LookupStep, InsertStep, LoadStep, JournalStep,
       EndSteps DEF Step
  <1>6. ASSUME NEW h \in Handlers, CommitLost(h) \/ CommitFails(h) \/ StatementFails(h)
        PROVE  SqlInvariant'
    BY <1>6, EndSteps
  <1> QED
    BY <1>1, <1>2, <1>3, <1>4, <1>5, <1>6 DEF Next

\* Locking is enough: whatever a transaction has read under its locks, the
\* unique keys and the write lock is still what is committed, for any number
\* of callers, accounts, requests and faults, on both SQL backends.
THEOREM LockingCorrect == Spec => []SqlInvariant
  BY InitInvariant, NextInvariant, PTL DEF Spec

-----------------------------------------------------------------------------
(* The refinement.                                                         *)

\* A commit is the atomic ledger's Post.
LEMMA PublishIsPost ==
    ASSUME SqlInvariant, NEW h \in Handlers, Publish(h), NEW r \in Requests, r = req[h]
    PROVE  Promise!Post(r)
  <1>1. /\ Valid(r) /\ AccountsOf(r) \subseteq accounts
        /\ \A a \in AccountsOf(r) : read[h][a] = bal[a] /\ CurrencyMatches(r, a)
        /\ r.key \notin KeysIn(log) /\ Events(r) \cap EventsIn(log) = {}
        /\ log' = Append(log, r) /\ accounts' = accounts
    BY PublishFacts DEF Publish
  <1>2. \A a \in AccountsOf(r) : NewTotals(h, a) = Promise!Posted(r, a)
    BY <1>1 DEF NewTotals, Promise!Posted
  <1>3. \A a \in AccountsOf(r) :
            ~ Overdrawn(a, Promise!Posted(r, a).debits, Promise!Posted(r, a).credits)
    BY <1>2 DEF Publish, AtCommit, WouldOverdraw
  <1>4. bal' = [a \in Accounts |-> IF a \in AccountsOf(r) THEN Promise!Posted(r, a) ELSE bal[a]]
    BY <1>2 DEF Publish
  <1> QED
    BY <1>1, <1>3, <1>4 DEF Promise!Post

\* Every step of a handler leaves the tables alone, or is a commit.
LEMMA OnlyCommitsWrite ==
    ASSUME NEW h \in Handlers,
           \/ \E r \in Flows : ExecuteFlow(h, r)
           \/ \E x \in Exchanges : ExecuteExchange(h, x)
           \/ Step(h) \/ CommitLost(h) \/ CommitFails(h) \/ StatementFails(h)
    PROVE  UNCHANGED <<accounts, bal, log>> \/ Publish(h)
  <1>1. ASSUME UNCHANGED db PROVE UNCHANGED <<accounts, bal, log>>
    BY <1>1 DEF db
  <1>2. CASE \/ \E r \in Flows : ExecuteFlow(h, r)
             \/ \E x \in Exchanges : ExecuteExchange(h, x)
             \/ StatementFails(h)
    BY <1>1, <1>2 DEF ExecuteFlow, ExecuteExchange, Arrive, StatementFails
  <1>3. CASE CommitLost(h) \/ CommitFails(h)
    BY <1>3 DEF CommitLost, CommitFails
  <1>4. CASE Step(h)
    <2>1. CASE Commit(h)
      BY <2>1 DEF Commit
    <2>2. CASE ~ Commit(h)
      <3>1. UNCHANGED db
        BY <1>4, <2>2 DEF Step, ReadFrom, ReadTo, ResolveRate, BeginFlowTx,
           GetFlowByIdempotency, InsertFlowRun, LoadAccount, InsertJournal, Refuse,
           CommitReplay, AbortDeadlocked
      <3> QED
        BY <1>1, <3>1
    <2> QED
      BY <2>1, <2>2
  <1> QED
    BY <1>2, <1>3, <1>4

\* The SQL backends implement the atomic ledger: every interleaving of their
\* statements amounts to flows posted one at a time.
THEOREM SqlRefinement == Spec => ImplementsAtomicLedger
  <1>1. Init => Promise!AInit
    BY ExistingAssumption DEF Init, Promise!AInit, Zero
  <1>2. SqlInvariant /\ [Next]_vars => [Promise!ANext]_(Promise!avars)
    <2> SUFFICES ASSUME SqlInvariant, [Next]_vars PROVE [Promise!ANext]_(Promise!avars)
      OBVIOUS
    <2>1. CASE UNCHANGED <<accounts, bal, log>>
      BY <2>1 DEF Promise!avars
    <2>2. ASSUME NEW a \in Accounts, CreateAccount(a) PROVE Promise!ANext
      BY <2>2 DEF CreateAccount, Promise!ANext, Promise!OpenAccount
    <2>3. ASSUME NEW h \in Handlers, Publish(h) PROVE Promise!ANext
      <3>1. PICK r \in Requests : r = req[h]
        BY <2>3, PublishFacts
      <3>2. Promise!Post(r)
        BY <2>3, <3>1, PublishIsPost
      <3> QED
        BY <3>2 DEF Promise!ANext
    <2>4. CASE \E v \in Rates : PutFXRate(v)
      BY <2>1, <2>4 DEF PutFXRate
    <2>5. CASE UNCHANGED vars
      BY <2>1, <2>5 DEF vars
    <2> QED
      BY <2>1, <2>2, <2>3, <2>4, <2>5, OnlyCommitsWrite DEF Next
  <1> QED
    BY <1>1, <1>2, LockingCorrect, PTL DEF Spec, ImplementsAtomicLedger, Promise!ASpec

-----------------------------------------------------------------------------
(* The books.                                                              *)

\* A step leaves the balances and the history alone, or a call commits and
\* adds its request to both.
LEMMA BookSteps ==
    ASSUME SqlInvariant, [Next]_vars
    PROVE  \/ bal' = bal /\ log' = log
           \/ \E h \in Handlers :
                 /\ req[h] \in Requests /\ Valid(req[h])
                 /\ \A a \in AccountsOf(req[h]) : CurrencyMatches(req[h], a)
                 /\ Adds(req[h], bal, bal')
                 /\ log' = Append(log, req[h])
  <1>1. ASSUME NEW h \in Handlers, Publish(h)
        PROVE  /\ req[h] \in Requests /\ Valid(req[h])
               /\ \A a \in AccountsOf(req[h]) : CurrencyMatches(req[h], a)
               /\ Adds(req[h], bal, bal')
               /\ log' = Append(log, req[h])
    <2>1. /\ req[h] \in Requests /\ Valid(req[h]) /\ log' = Append(log, req[h])
          /\ \A a \in AccountsOf(req[h]) : read[h][a] = bal[a] /\ CurrencyMatches(req[h], a)
      BY <1>1, PublishFacts
    <2>2. \A a \in Accounts : bal[a].debits \in Int /\ bal[a].credits \in Int
      BY DEF SqlInvariant, TypeOK
    <2>3. \A a \in Accounts :
             IF a \in AccountsOf(req[h])
             THEN /\ bal'[a].debits = bal[a].debits + DebitOf(req[h], a)
                  /\ bal'[a].credits = bal[a].credits + CreditOf(req[h], a)
             ELSE bal'[a] = bal[a]
      BY <1>1, <2>1 DEF Publish, NewTotals
    <2>4. Adds(req[h], bal, bal')
      BY <2>1, <2>2, <2>3, RewriteAdds
    <2> QED
      BY <2>1, <2>4
  <1>2. CASE UNCHANGED <<accounts, bal, log>>
    BY <1>2
  <1>3. CASE \/ \E a \in Accounts : CreateAccount(a)
             \/ \E v \in Rates : PutFXRate(v)
             \/ UNCHANGED vars
    BY <1>3 DEF CreateAccount, PutFXRate, vars
  <1> QED
    BY <1>1, <1>2, <1>3, OnlyCommitsWrite DEF Next

\* The balance rows are the sums of the posted journals on both SQL backends,
\* whatever the calls interleave between LockBalance and UpdateBalance.
LEMMA SqlBalancesCorrect == Spec => []BalancesMatchJournals
  <1>1. Init => BalancesMatchJournals
    BY EmptyBooks DEF Init, BalancesMatchJournals, Zero
  <1>2. SqlInvariant /\ BalancesMatchJournals /\ [Next]_vars => BalancesMatchJournals'
    <2> SUFFICES ASSUME SqlInvariant, BalancesMatchJournals, [Next]_vars
                 PROVE  BalancesMatchJournals'
      OBVIOUS
    <2>1. CASE bal' = bal /\ log' = log
      BY <2>1 DEF BalancesMatchJournals, BooksMatch
    <2>2. ASSUME NEW h \in Handlers, req[h] \in Requests, Adds(req[h], bal, bal'),
                 log' = Append(log, req[h])
          PROVE  BalancesMatchJournals'
      <3>1. log \in Seq(Requests)
        BY DEF SqlInvariant, TypeOK
      <3>2. BooksMatch(bal', Append(log, req[h]))
        BY <2>2, <3>1, MatchStep DEF BalancesMatchJournals
      <3> QED
        BY <2>2, <3>2 DEF BalancesMatchJournals, BooksMatch
    <2> QED
      BY <2>1, <2>2, BookSteps
  <1> QED
    BY <1>1, <1>2, LockingCorrect, PTL DEF Spec

\* The books balance in every currency on both SQL backends, exchanges
\* included (Journal.Validate, the currency check of executeFlowInTx and the
\* counter accounts of ExecuteExchange).
LEMMA SqlTrialBalanceCorrect == Spec => []TrialBalance
  <1>1. Init => TrialBalance
    BY EmptyBooks DEF Init, TrialBalance, Zero
  <1>2. SqlInvariant /\ TrialBalance /\ [Next]_vars => TrialBalance'
    <2> SUFFICES ASSUME SqlInvariant, TrialBalance, [Next]_vars PROVE TrialBalance'
      OBVIOUS
    <2>1. CASE bal' = bal
      BY <2>1 DEF TrialBalance, BooksBalance
    <2>2. ASSUME NEW h \in Handlers, req[h] \in Requests, Valid(req[h]),
                 \A a \in AccountsOf(req[h]) : CurrencyMatches(req[h], a),
                 Adds(req[h], bal, bal')
          PROVE  TrialBalance'
      <3>1. \A a \in Accounts : bal[a].debits \in Int /\ bal[a].credits \in Int
        BY DEF SqlInvariant, TypeOK
      <3>2. BooksBalance(bal')
        BY <2>2, <3>1, BalanceStep DEF TrialBalance
      <3> QED
        BY <3>2 DEF TrialBalance, BooksBalance
    <2> QED
      BY <2>1, <2>2, BookSteps
  <1> QED
    BY <1>1, <1>2, LockingCorrect, PTL DEF Spec

\* Whatever flows and exchanges run on a SQL backend, statement by statement
\* and with any faults, the balance rows are the journals' sums and balance.
THEOREM SqlBooksCorrect == Spec => []BooksAreRight
  BY SqlBalancesCorrect, SqlTrialBalanceCorrect, PTL DEF BooksAreRight

-----------------------------------------------------------------------------
(* What callers are told.                                                  *)

\* A step of the call g.
CallStep(g) ==
    \/ \E r \in Flows : ExecuteFlow(g, r)
    \/ \E x \in Exchanges : ExecuteExchange(g, x)
    \/ Step(g) \/ CommitLost(g) \/ CommitFails(g) \/ StatementFails(g)

\* A call moves only by its own steps.
LEMMA OwnSteps ==
    ASSUME SqlInvariant, NEW g \in Handlers, CallStep(g), NEW h \in Handlers, h # g
    PROVE  pc'[h] = pc[h] /\ exch'[h] = exch[h]
  <1>1. pc \in [Handlers -> {"idle"} \cup Working] /\ exch \in [Handlers -> Exchanges \cup {NoExchange}]
    BY DEF SqlInvariant, TypeOK
  <1>2. \/ \E code : Return(g, code)
        \/ (\E label : Goto(g, label)) /\ (UNCHANGED exch \/ \E x : exch' = [exch EXCEPT ![g] = x])
    BY DEF CallStep, Step, ExecuteFlow, ExecuteExchange, Arrive, ReadFrom, ReadTo, ResolveRate,
       BeginFlowTx, GetFlowByIdempotency, InsertFlowRun, LoadAccount, InsertJournal, Refuse,
       Commit, CommitReplay, AbortDeadlocked, CommitLost, CommitFails, StatementFails, call
  <1> QED
    BY <1>1, <1>2 DEF Return, Goto

\* Before its transaction, a call is an ExecuteExchange; what is posted parsed.
Before(h) == pc[h] \in {"from", "to", "rate"} => exch[h] # NoExchange

PostedParses == \A i \in DOMAIN log : Parses(log[i])

\* Both stay true.
LEMMA BeforeKept ==
    SqlInvariant /\ (\A h \in Handlers : Before(h)) /\ PostedParses /\ [Next]_vars
      => (\A h \in Handlers : Before(h))' /\ PostedParses'
  <1> SUFFICES ASSUME SqlInvariant, \A h \in Handlers : Before(h), PostedParses, [Next]_vars
               PROVE  (\A h \in Handlers : Before(h))' /\ PostedParses'
    OBVIOUS
  <1>t. /\ pc \in [Handlers -> {"idle"} \cup Working] /\ exch \in [Handlers -> Exchanges \cup {NoExchange}]
        /\ log \in Seq(Requests)
    BY DEF SqlInvariant, TypeOK
  <1>1. ASSUME UNCHANGED <<pc, exch, log>>
        PROVE  (\A h \in Handlers : Before(h))' /\ PostedParses'
    BY <1>1 DEF Before, PostedParses
  <1>2. CASE UNCHANGED vars
    BY <1>1, <1>2 DEF vars
  <1>3. CASE (\E a \in Accounts : CreateAccount(a)) \/ (\E v \in Rates : PutFXRate(v))
    BY <1>1, <1>3 DEF CreateAccount, PutFXRate, call
  <1>4. ASSUME NEW g \in Handlers, CallStep(g)
        PROVE  (\A h \in Handlers : Before(h))' /\ PostedParses'
    <2>1. PostedParses'
      <3>1. CASE UNCHANGED log
        BY <3>1 DEF PostedParses
      <3>2. CASE Publish(g)
        <4>1. Parses(req[g]) /\ log' = Append(log, req[g]) /\ req[g] \in Requests
          BY <3>2, PublishFacts
        <4> QED
          BY <1>t, <4>1 DEF PostedParses
      <3> QED
        BY <1>4, <3>1, <3>2, OnlyCommitsWrite DEF CallStep
    <2>2. \/ \E code : Return(g, code)
          \/ \E r \in Flows : ExecuteFlow(g, r)
          \/ \E x \in Exchanges : ExecuteExchange(g, x)
          \/ UNCHANGED exch /\ pc[g] \in {"from", "to"} /\ (\E l : Goto(g, l))
          \/ \E l : Goto(g, l) /\ l \in {"begin", "lookup", "replayed", "insert", "load", "journal"}
      BY <1>4 DEF CallStep, Step, ReadFrom, ReadTo, ResolveRate, BeginFlowTx,
         GetFlowByIdempotency, InsertFlowRun, LoadAccount, InsertJournal, Refuse, Commit,
         CommitReplay, AbortDeadlocked, CommitLost, CommitFails, StatementFails, call
    <2>3. Before(g)'
      BY <1>t, <2>2, ExchangesAssumption DEF Before, Return, Goto, ExecuteFlow, ExecuteExchange, Arrive
    <2>4. \A h \in Handlers \ {g} : Before(h)'
      BY <1>4, OwnSteps DEF Before
    <2> QED
      BY <2>1, <2>3, <2>4
  <1> QED
    BY <1>2, <1>3, <1>4 DEF Next, CallStep

\* Which of its own steps end a call, and what they say.
LEMMA Endings ==
    ASSUME SqlInvariant, NEW h \in Handlers, CallStep(h),
           pc[h] \in Working, pc'[h] = "idle"
    PROVE  \/ answer' = "UNKNOWN"
           \/ answer' = "OK" /\ (Publish(h) \/ CommitReplay(h))
           \/ answer' = "INSUFFICIENT_FUNDS" /\ Refuse(h)
           \/ /\ answer' \in Refusals \ {"INSUFFICIENT_FUNDS"}
              /\ UNCHANGED log
              /\ \/ pc[h] \in {"from", "to", "rate", "load", "journal"}
                 \/ pc[h] = "begin" /\ (exch[h] # NoExchange \/ ~ Parses(req[h]))
  <1>t. pc \in [Handlers -> {"idle"} \cup Working]
    BY DEF SqlInvariant, TypeOK
  <1>1. ASSUME NEW label \in Working, Goto(h, label) PROVE FALSE
    BY <1>1, <1>t DEF Goto, Working, InTx
  <1>2. CASE (\E r \in Flows : ExecuteFlow(h, r)) \/ (\E x \in Exchanges : ExecuteExchange(h, x))
    BY <1>2 DEF ExecuteFlow, ExecuteExchange, Arrive, Working, InTx
  <1>3. CASE ReadFrom(h) \/ ReadTo(h) \/ ResolveRate(h)
    BY <1>1, <1>3 DEF ReadFrom, ReadTo, ResolveRate, Return, Refusals, Working, db
  <1>4. CASE BeginFlowTx(h)
    BY <1>1, <1>4 DEF BeginFlowTx, Return, Refusals, Working, InTx, db
  <1>5. CASE GetFlowByIdempotency(h) \/ InsertFlowRun(h)
    BY <1>1, <1>5 DEF GetFlowByIdempotency, InsertFlowRun, Return, Working, InTx
  <1>6. CASE (\E a \in Accounts : LoadAccount(h, a)) \/ InsertJournal(h)
    BY <1>1, <1>6 DEF LoadAccount, InsertJournal, Return, Refusals, Working, InTx, db
  <1>7. CASE \/ Refuse(h) \/ Commit(h) \/ CommitReplay(h) \/ AbortDeadlocked(h)
             \/ CommitLost(h) \/ CommitFails(h) \/ StatementFails(h)
    BY <1>7 DEF Refuse, Commit, CommitReplay, AbortDeadlocked, CommitLost, CommitFails,
       StatementFails, Return
  <1> QED
    BY <1>2, <1>3, <1>4, <1>5, <1>6, <1>7 DEF CallStep, Step

\* Answers are exact at the instant they are given, as long as a reused key
\* does not turn a flow with well formed amounts into one without: OK is
\* posted, INSUFFICIENT_FUNDS would overdraw right now, and ExecuteFlow never
\* refuses what is posted.
THEOREM AnswersCorrect ==
    ASSUME \A r, s \in Requests : r.key = s.key => (Parses(r) <=> Parses(s))
    PROVE  Spec => AnswersAreExact
  <1> DEFINE Exact(h) ==
        /\ answer' = "OK" => req[h].key \in KeysIn(log')
        /\ answer' = "INSUFFICIENT_FUNDS" =>
              \E a \in AccountsOf(req[h]) :
                  Overdrawn(a, bal[a].debits + DebitOf(req[h], a),
                               bal[a].credits + CreditOf(req[h], a))
        /\ (answer' \in Refusals /\ exch[h] = NoExchange) => ~ KeyIsPosted(req[h])
  <1> DEFINE A == \A h \in Handlers : (pc[h] \in Working /\ pc'[h] = "idle") => Exact(h)
  <1> DEFINE Inv == SqlInvariant /\ (\A h \in Handlers : Before(h)) /\ PostedParses
  <1>1. Init => Inv
    BY InitInvariant DEF Init, Before, PostedParses
  <1>2. Inv /\ [Next]_vars => Inv'
    BY NextInvariant, BeforeKept
  <1>3. Inv /\ [Next]_vars => [A]_vars
    <2> SUFFICES ASSUME Inv, [Next]_vars, NEW h \in Handlers,
                        pc[h] \in Working, pc'[h] = "idle"
                 PROVE  Exact(h)
      OBVIOUS
    <2>0. pc'[h] # pc[h]
      BY DEF Working, InTx
    <2>1. CallStep(h)
      <3>1. ~ UNCHANGED pc
        BY <2>0
      <3>2. ASSUME NEW g \in Handlers, CallStep(g) PROVE g = h
        BY <2>0, <3>2, OwnSteps
      <3>3. PICK g \in Handlers : CallStep(g)
        BY <3>1 DEF Next, CallStep, CreateAccount, PutFXRate, vars
      <3> QED
        BY <3>2, <3>3
    <2>2. req[h] \in Requests /\ (pc[h] \in InTx => ReadsAreCurrent(h)) /\ log \in Seq(Requests)
      BY DEF SqlInvariant, TypeOK
    <2>3. CASE answer' = "UNKNOWN"
      BY <2>3 DEF Refusals
    <2>4. CASE answer' = "OK" /\ Publish(h)
      <3>1. req[h].key \in KeysIn(log')
        BY <2>4, PublishFacts, AppendedLog DEF SqlInvariant, TypeOK
      <3> QED
        BY <2>4, <3>1 DEF Refusals
    <2>5. CASE answer' = "OK" /\ CommitReplay(h)
      <3>1. req[h].key \in KeysIn(log') 
        BY <2>2, <2>5 DEF CommitReplay, ReadsAreCurrent, KeyIsPosted, InTx, db
      <3> QED
        BY <2>5, <3>1 DEF Refusals
    <2>6. CASE answer' = "INSUFFICIENT_FUNDS" /\ Refuse(h)
      <3>1. ReadsAreCurrent(h) /\ pc[h] = "journal"
        BY <2>2, <2>6 DEF Refuse, InTx
      <3>2. \A a \in AccountsOf(req[h]) : read[h][a] = bal[a]
        BY <3>1 DEF ReadsAreCurrent
      <3>3. \E a \in AccountsOf(req[h]) :
                Overdrawn(a, bal[a].debits + DebitOf(req[h], a),
                             bal[a].credits + CreditOf(req[h], a))
        BY <2>6, <3>2 DEF Refuse, WouldOverdraw, NewTotals
      <3>4. ~ KeyIsPosted(req[h])
        BY <3>1 DEF ReadsAreCurrent
      <3> QED
        BY <2>6, <3>3, <3>4
    <2>7. CASE /\ answer' \in Refusals \ {"INSUFFICIENT_FUNDS"}
               /\ \/ pc[h] \in {"from", "to", "rate", "load", "journal"}
                  \/ pc[h] = "begin" /\ (exch[h] # NoExchange \/ ~ Parses(req[h]))
      <3>1. CASE pc[h] \in {"from", "to", "rate"} \/ exch[h] # NoExchange
        BY <2>7, <3>1 DEF Before, Refusals
      <3>2. CASE pc[h] \in {"load", "journal"}
        BY <2>2, <2>7, <3>2 DEF ReadsAreCurrent, InTx, Refusals
      <3>3. CASE ~ Parses(req[h])
        <4>1. ~ KeyIsPosted(req[h])
          BY <2>2, <3>3 DEF KeyIsPosted, KeysIn, PostedParses
        <4> QED
          BY <2>7, <4>1 DEF Refusals
      <3> QED
        BY <2>7, <3>1, <3>2, <3>3
    <2> QED
      BY <2>1, <2>3, <2>4, <2>5, <2>6, <2>7, Endings
  <1> QED
    BY <1>1, <1>2, <1>3, PTL DEF Spec, AnswersAreExact

-----------------------------------------------------------------------------
(* Deadlock.                                                               *)

\* A set of naturals has a least one, and below a bound a greatest one.
LEMMA LeastNatural ==
    ASSUME NEW T, T \subseteq Nat, T # {}
    PROVE  \E x \in T : \A y \in T : x <= y
  <1>1. PICK x \in T : \A y \in T : ~ (<<y, x>> \in OpToRel(<, Nat))
    BY NatLessThanWellFounded, WFMin
  <1>2. \A y \in T : ~ (y < x)
    BY <1>1 DEF OpToRel
  <1> QED
    BY <1>2

\* A bounded set of numbers, here of accounts, has a greatest one.
LEMMA GreatestNatural ==
    ASSUME NEW N \in Nat, NEW T, T \subseteq 0 .. N, T # {}
    PROVE  \E x \in T : \A y \in T : y <= x
  <1> DEFINE U == {n \in Nat : N - n \in T}
  <1>1. \A x \in T : x \in Nat /\ N - x \in Nat /\ N - (N - x) = x
    OBVIOUS
  <1>2. U \subseteq Nat /\ U # {} /\ \A x \in T : N - x \in U
    BY <1>1
  <1>3. PICK u \in U : \A v \in U : u <= v
    BY <1>2, LeastNatural
  <1>4. N - u \in T /\ \A y \in T : u <= N - y
    BY <1>2, <1>3
  <1>5. \A y \in T : y <= N - u
    BY <1>1, <1>2, <1>4
  <1> QED
    BY <1>4, <1>5

\* There are finitely many accounts, so their numbers are bounded.
LEMMA AccountsBounded == \E N \in Nat : Accounts \subseteq 0 .. N
  <1> DEFINE Bad == {X \in SUBSET Accounts : \A N \in Nat : ~ (X \subseteq 0 .. N)}
  <1> SUFFICES ASSUME Bad # {} PROVE FALSE
    OBVIOUS
  <1>1. PICK X \in Bad : \A Y \in Bad : Y \subseteq X => Y = X
    <2>1. Bad \subseteq SUBSET Accounts
      OBVIOUS
    <2>2. IsFiniteSet(Accounts)
      BY AccountsAssumption
    <2> HIDE DEF Bad
    <2> QED
      BY <2>1, <2>2, LeastSubset
  <1>2. X # {}
    <2>1. {} \subseteq 0 .. 0
      OBVIOUS
    <2> QED
      BY <1>1, <2>1
  <1>3. PICK x \in X : x \in Nat
    BY <1>1, <1>2, AccountsAssumption
  <1>4. PICK N \in Nat : X \ {x} \subseteq 0 .. N
    <2>1. X \ {x} \subseteq X /\ X \ {x} # X /\ X \ {x} \in SUBSET Accounts
      BY <1>1, <1>3
    <2>2. X \ {x} \notin Bad
      BY <1>1, <2>1
    <2> QED
      BY <2>1, <2>2
  <1>5. x + N \in Nat /\ X \subseteq 0 .. x + N
    BY <1>3, <1>4
  <1> QED
    BY <1>1, <1>5

\* Who can be in whose way, before any journal is inserted.
LEMMA WaitingFor ==
    ASSUME SqlInvariant, NEW h \in Handlers, NEW g \in Handlers, WaitsFor(h, g),
           pc[h] \in Working \ {"journal"}, pc[g] \in Working \ {"journal"}
    PROVE  \/ pc[h] \in {"from", "to", "rate", "begin"} /\ pc[g] \in InTx
           \/ /\ pc[h] \in {"lookup", "insert"} /\ pc[g] \in {"load", "replayed"}
           \/ /\ pc[h] = "load" /\ pc[g] = "load"
              /\ \E a \in Pending(h) : IsNext(h, a) /\ a \in locked[g]
  <1>1. held[g] = Holdings(g)
    BY DEF SqlInvariant
  <1>2. PICK x \in Needs(h) : x \in held[g]
    BY DEF WaitsFor
  <1>3. CASE pc[h] \in {"from", "to", "rate", "begin"}
    <2>1. x = Conn
      BY <1>2, <1>3 DEF Needs
    <2> QED
      BY <1>1, <1>2, <1>3, <2>1, HoldingsRows
  <1>4. CASE pc[h] \in {"lookup", "insert"}
    <2>1. x = FlowRow(req[h].key)
      BY <1>2, <1>4 DEF Needs
    <2> QED
      BY <1>1, <1>2, <1>4, <2>1, HoldingsRows
  <1>5. CASE pc[h] = "load"
    <2>1. PICK a \in Pending(h) : IsNext(h, a) /\ x = BalanceRow(a)
      BY <1>2, <1>5 DEF Needs
    <2>2. a \in locked[g]
      BY <1>1, <1>2, <2>1, HoldingsRows
    <2>3. pc[g] \in InTx /\ ReadsAreCurrent(g)
      BY <2>2 DEF SqlInvariant
    <2>4. pc[g] = "load"
      BY <2>2, <2>3 DEF ReadsAreCurrent, InTx
    <2> QED
      BY <1>5, <2>1, <2>2, <2>4
  <1>6. CASE pc[h] = "replayed"
    BY <1>2, <1>6 DEF Needs
  <1> QED
    BY <1>3, <1>4, <1>5, <1>6 DEF Working, InTx

\* executeFlowInTx sorts the accounts before it locks them, and
\* ExecuteExchange reads before it begins: in any set of calls that have not
\* begun to insert journals somebody can go on.  The call whose next account
\* is the greatest waits for nobody.
THEOREM DeadlockCorrect == Spec => []OnlyEventIdsDeadlock
  <1>1. SqlInvariant => OnlyEventIdsDeadlock
    <2>0. PICK N \in Nat : Accounts \subseteq 0 .. N
      BY AccountsBounded
    <2> SUFFICES ASSUME SqlInvariant,
                        NEW S \in SUBSET {h \in Handlers : pc[h] \in Working \ {"journal"}},
                        S # {},
                        \A h \in S : \E g \in S : WaitsFor(h, g)
                 PROVE  FALSE
      BY DEF OnlyEventIdsDeadlock
    <2> DEFINE Blocks(h, g) ==
          \/ pc[h] \in {"from", "to", "rate", "begin"} /\ pc[g] \in InTx
          \/ pc[h] \in {"lookup", "insert"} /\ pc[g] \in {"load", "replayed"}
          \/ /\ pc[h] = "load" /\ pc[g] = "load"
             /\ \E a \in Pending(h) : IsNext(h, a) /\ a \in locked[g]
    <2>1. \A h \in S : \E g \in S : Blocks(h, g)
      BY WaitingFor
    <2>2. \A h \in S : pc[h] # "replayed"
      BY <2>1 DEF InTx
    <2>3. \E h \in S : pc[h] \in InTx
      BY <2>1 DEF Working, InTx
    <2>4. \E h \in S : pc[h] = "load"
      BY <2>1, <2>2, <2>3 DEF InTx
    <2>5. ASSUME NEW h \in S, pc[h] = "load"
          PROVE  \E g \in S, a \in Pending(h) : pc[g] = "load" /\ IsNext(h, a) /\ a \in locked[g]
      BY <2>1, <2>5 DEF InTx
    <2>6. ASSUME NEW h \in S, pc[h] = "load"
          PROVE  Pending(h) \subseteq Accounts /\ ReadsAreCurrent(h)
      BY <2>6, RequestTotals DEF Pending, SqlInvariant, InTx
    <2> DEFINE T == {a \in Accounts : \E h \in S : pc[h] = "load" /\ IsNext(h, a)}
    <2>7. T # {} /\ T \subseteq 0 .. N
      BY <2>0, <2>4, <2>5, <2>6
    <2>8. PICK x \in T : \A y \in T : y <= x
      BY <2>7, GreatestNatural
    <2>9. PICK h \in S : pc[h] = "load" /\ IsNext(h, x)
      BY <2>8
    <2>10. PICK g \in S, a \in Pending(h) : pc[g] = "load" /\ IsNext(h, a) /\ a \in locked[g]
      BY <2>5, <2>9
    <2>11. a = x
      BY <2>6, <2>9, <2>10, AccountsAssumption DEF IsNext
    <2>12. PICK f \in S, c \in Pending(g) : IsNext(g, c)
      BY <2>5, <2>10
    <2>13. x < c /\ c \in T
      BY <2>6, <2>10, <2>11, <2>12 DEF ReadsAreCurrent
    <2> QED
      BY <2>7, <2>8, <2>13
  <1> QED
    BY <1>1, LockingCorrect, PTL
=============================================================================
