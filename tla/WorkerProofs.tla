---------------------------- MODULE WorkerProofs ----------------------------
(***************************************************************************)
(* Proofs about what runs beside the flows: the outbox dispatcher, the     *)
(* snapshots that the scheduler takes and prunes, and reconciliation.      *)
(*                                                                         *)
(* The dispatcher, for any number of events, servers and faults and any    *)
(* batch size: delivery is at least once, and every duplicate is explained *)
(* by a fault of the server that made it.                                  *)
(*                                                                         *)
(* Snapshots, for any accounts, postings, calls and times: a balance as of *)
(* T is exact apart from postings that ran while the row it starts from    *)
(* was being taken, and the newest row of an account is never pruned.      *)
(*                                                                         *)
(* Reconciliation, for any references, windows, batches and times: what a  *)
(* completed batch saw is matched or reported, and a discrepancy is        *)
(* resolved once.                                                          *)
(***************************************************************************)
EXTENDS Outbox, Snapshots, Recon, SumTheorems, TLAPS

-----------------------------------------------------------------------------
(* The dispatcher.                                                         *)

\* What OInvariant says of one dispatcher and one event.
PairOK(d, e) ==
    /\ state[e] = "NONE" => sent[d][e] = 0 /\ e \notin batch[d]
    /\ e \in batch[d] => sent[d][e] <= faults[d] /\ marking[d] # e
    /\ state[e] = "PENDING" /\ marking[d] # e => sent[d][e] <= faults[d]
    /\ marking[d] = e => sent[d][e] > 0

\* The inductive invariant: the pairs, and the two properties.
DInv ==
    /\ OTypeOK
    /\ \A d \in Dispatchers, e \in OutboxEvents : PairOK(d, e)
    /\ DuplicatesAreFaults
    /\ NeverDropped

\* Nothing is there at the start.
LEMMA InitDInv == OInit => DInv
  <1> SUFFICES ASSUME OInit PROVE DInv
    OBVIOUS
  <1>1. OTypeOK
    BY MaxFaultsAssumption DEF OInit, OTypeOK
  <1>2. \A d \in Dispatchers, e \in OutboxEvents : PairOK(d, e)
    BY OutboxEventsAssumption DEF OInit, PairOK
  <1>3. DuplicatesAreFaults /\ NeverDropped
    BY DEF OInit, DuplicatesAreFaults, NeverDropped
  <1> QED
    BY <1>1, <1>2, <1>3 DEF DInv

\* Every step of the dispatchers and of the handlers keeps the invariant.
LEMMA NextDInv == DInv /\ [ONext]_ovars => DInv'
  <1> SUFFICES ASSUME DInv, [ONext]_ovars PROVE DInv'
    OBVIOUS
  <1> USE OutboxEventsAssumption, MaxFaultsAssumption
  <1> USE DEF DInv, OTypeOK, PairOK, DuplicatesAreFaults, NeverDropped
  <1>1. ASSUME NEW e \in OutboxEvents, InsertOutbox(e) PROVE DInv'
    BY <1>1 DEF InsertOutbox
  <1>2. ASSUME NEW d \in Dispatchers, List(d) PROVE DInv'
    BY <1>2 DEF List, Idle, Pending, PendingOutbox
  <1>3. ASSUME NEW d \in Dispatchers, NEW e \in OutboxEvents, Publish(d, e) PROVE DInv'
    BY <1>3 DEF Publish, Current
  <1>4. ASSUME NEW d \in Dispatchers, NEW e \in OutboxEvents, PublishRejected(d, e) PROVE DInv'
    BY <1>4 DEF PublishRejected, Current, Skip
  <1>5. ASSUME NEW d \in Dispatchers, NEW e \in OutboxEvents, PublishFails(d, e) PROVE DInv'
    <2>1. /\ e \in batch[d]
          /\ faults[d] < MaxFaults
          /\ faults' = [faults EXCEPT ![d] = faults[d] + 1]
          /\ batch' = [batch EXCEPT ![d] = batch[d] \ {e}]
          /\ UNCHANGED <<marking, state>>
      BY <1>5 DEF PublishFails, Current, Skip, Fault
    <2>2. CASE UNCHANGED sent
      BY <2>1, <2>2
    <2>3. CASE sent' = [sent EXCEPT ![d][e] = @ + 1]
      BY <2>1, <2>3
    <2> QED
      BY <1>5, <2>2, <2>3 DEF PublishFails
  <1>6. ASSUME NEW d \in Dispatchers, Mark(d) PROVE DInv'
    BY <1>6 DEF Mark
  <1>7. ASSUME NEW d \in Dispatchers, MarkFails(d) PROVE DInv'
    <2>1. /\ marking[d] \in OutboxEvents
          /\ faults[d] < MaxFaults
          /\ faults' = [faults EXCEPT ![d] = faults[d] + 1]
          /\ marking' = [marking EXCEPT ![d] = 0]
          /\ UNCHANGED <<batch, sent>>
      BY <1>7 DEF MarkFails, Fault
    <2>2. CASE UNCHANGED state
      BY <2>1, <2>2
    <2>3. CASE state' = [state EXCEPT ![marking[d]] = "PUBLISHED"]
      BY <2>1, <2>3
    <2> QED
      BY <1>7, <2>2, <2>3 DEF MarkFails
  <1>8. ASSUME NEW d \in Dispatchers, Crash(d) PROVE DInv'
    BY <1>8 DEF Crash, Fault
  <1>9. CASE UNCHANGED ovars
    BY <1>9 DEF ovars
  <1> QED
    BY <1>1, <1>2, <1>3, <1>4, <1>5, <1>6, <1>7, <1>8, <1>9 DEF ONext, DispatcherStep

\* The invariant holds in every reachable state, for any number of servers.
LEMMA DispatcherInvariant == OSpec => []DInv
  BY InitDInv, NextDInv, PTL DEF OSpec

\* Nothing is sent before it is committed, and what a dispatcher holds or has
\* left pending it delivered no more often than it failed.
THEOREM DispatcherCorrect == OSpec => []OInvariant
  <1>1. DInv => OInvariant
    BY DEF DInv, OInvariant, PairOK
  <1> QED
    BY <1>1, DispatcherInvariant, PTL

\* At least once: an event is marked PUBLISHED only after some sink took it,
\* whatever crashes between Publish and MarkOutboxPublished.
THEOREM NeverDroppedCorrect == OSpec => []NeverDropped
  <1>1. DInv => NeverDropped
    BY DEF DInv
  <1> QED
    BY <1>1, DispatcherInvariant, PTL

\* Without a fault of its own a server delivers an event at most once.
THEOREM DuplicatesAreFaultsCorrect == OSpec => []DuplicatesAreFaults
  <1>1. DInv => DuplicatesAreFaults
    BY DEF DInv
  <1> QED
    BY <1>1, DispatcherInvariant, PTL

-----------------------------------------------------------------------------
(* Snapshots.                                                              *)

\* The sums of a row stay between its two instants while postings go on and
\* the clock does not go back.
LEMMA RowStaysBetween ==
    ASSUME STypeOK, clock' \in Int, clock' >= clock,
           NEW a, NEW at \in Nat, NEW readAt \in Nat, NEW has,
           RowIsBetween(a, at, readAt, has),
           \A p \in Postings : posted'[p] = posted[p] \/ (posted[p] = 0 /\ posted'[p] = clock)
    PROVE  RowIsBetween(a, at, readAt, has)'
  BY DEF STypeOK, Times, RowIsBetween, OfAccount

\* Nothing is there at the start.
LEMMA InitSInvariant == SInit => SInvariant
  BY MaxTimeAssumption
     DEF SInit, SInvariant, STypeOK, TimesOK, RowsOK, CallsOK, QueryOK, Times, NotCalled,
         NoQuery, NoSnapshot, SnapshotRow, Visible, OfAccount

\* Times and postings change in one direction only.
LEMMA ClockAndPostings ==
    ASSUME STypeOK, TimesOK, [SNext]_svars
    PROVE  /\ clock' \in Times
           /\ clock' >= clock
           /\ created' \in [Postings -> 0 .. MaxTime]
           /\ posted' \in [Postings -> 0 .. MaxTime]
           /\ \A p \in Postings : posted'[p] = posted[p] \/ (posted[p] = 0 /\ posted'[p] = clock)
           /\ \A p \in Postings : created'[p] = created[p] \/ (created[p] = 0 /\ created'[p] = clock)
           /\ TimesOK'
  <1> USE MaxTimeAssumption DEF STypeOK, Times, TimesOK
  <1>1. CASE Tick
    BY <1>1 DEF Tick
  <1>2. ASSUME NEW p \in Postings, InsertEntries(p) \/ CommitPosting(p)
        PROVE  /\ clock' \in Times
               /\ clock' >= clock
               /\ created' \in [Postings -> 0 .. MaxTime]
               /\ posted' \in [Postings -> 0 .. MaxTime]
               /\ \A x \in Postings : posted'[x] = posted[x] \/ (posted[x] = 0 /\ posted'[x] = clock)
               /\ \A x \in Postings : created'[x] = created[x] \/ (created[x] = 0 /\ created'[x] = clock)
               /\ TimesOK'
    BY <1>2 DEF InsertEntries, CommitPosting
  <1>3. CASE UNCHANGED <<clock, created, posted>>
    BY <1>3
  <1>4. Tick \/ (\E p \in Postings : InsertEntries(p) \/ CommitPosting(p))
             \/ UNCHANGED <<clock, created, posted>>
    BY DEF SNext, svars, Begin, ReadBalance, ListTenantBalances, ReadRows, EndCall,
           InsertSnapshot, PruneSnapshotsOlderThan, GetSnapshotBefore, SumEntriesBetween
  <1> QED
    BY <1>1, <1>2, <1>3, <1>4

\* Rows: those there stay true, and a new one is what its call holds.
LEMMA NextRows == ASSUME SInvariant, [SNext]_svars PROVE snaps' \subseteq SnapshotRow /\ RowsOK'
  <1> USE DEF SInvariant
  <1>1. \A s \in snaps : RowIsBetween(s.account, s.at, s.readAt, s.has)'
    BY ClockAndPostings, RowStaysBetween DEF RowsOK, STypeOK, SnapshotRow, Times
  <1>2. ASSUME NEW t \in Snapshotters, NEW a \in SnapAccounts, InsertSnapshot(t, a)
        PROVE  snaps' \subseteq SnapshotRow /\ RowsOK'
    <2>0. PICK new : new = [account |-> a, at |-> call[t].at, readAt |-> call[t].readAt,
                            has |-> OfAccount(a, call[t].has)]
      OBVIOUS
    <2>1. snaps' = snaps \cup {new} /\ call[t].pc = "insert" /\ a \in call[t].todo
      BY <2>0, <1>2 DEF InsertSnapshot
    <2>2. new \in SnapshotRow
      BY <2>0, <2>1 DEF STypeOK, SnapshotRow, OfAccount
    <2>3. RowIsBetween(a, call[t].at, call[t].readAt, call[t].has)
      BY <2>1 DEF CallsOK
    <2>4. RowIsBetween(new.account, new.at, new.readAt, new.has)
      BY <2>0, <2>3 DEF RowIsBetween, OfAccount
    <2>5. RowIsBetween(new.account, new.at, new.readAt, new.has)'
      BY <2>4, <1>2 DEF RowIsBetween, OfAccount, InsertSnapshot
    <2> QED
      BY <1>1, <2>1, <2>2, <2>5 DEF RowsOK, STypeOK
  <1>3. snaps' \subseteq snaps \/ \E t \in Snapshotters, a \in SnapAccounts : InsertSnapshot(t, a)
    BY DEF SNext, svars, Tick, InsertEntries, CommitPosting, Begin, ReadBalance,
           ListTenantBalances, ReadRows, EndCall, PruneSnapshotsOlderThan,
           GetSnapshotBefore, SumEntriesBetween
  <1> QED
    BY <1>1, <1>2, <1>3 DEF RowsOK, STypeOK

\* Calls: what a call read was committed when it read it.
LEMMA NextCalls ==
    ASSUME SInvariant, [SNext]_svars
    PROVE  /\ call' \in [Snapshotters -> [pc : {"idle", "read", "insert", "ended"},
                                          at : 0 .. MaxTime, readAt : 0 .. MaxTime,
                                          todo : SUBSET SnapAccounts, has : SUBSET Postings]]
           /\ CallsOK'
  <1> DEFINE CallType == [pc : {"idle", "read", "insert", "ended"},
                          at : 0 .. MaxTime, readAt : 0 .. MaxTime,
                          todo : SUBSET SnapAccounts, has : SUBSET Postings]
             CallOK(c) == /\ c.at <= clock
                          /\ c.pc = "insert" =>
                                \A a \in c.todo : RowIsBetween(a, c.at, c.readAt, c.has)
  <1> SUFFICES call' \in [Snapshotters -> CallType] /\ \A u \in Snapshotters : CallOK(call[u])'
    BY DEF CallsOK
  <1> USE DEF SInvariant
  <1>0. call \in [Snapshotters -> CallType] /\ clock \in 1 .. MaxTime /\ MaxTime \in Nat
    BY MaxTimeAssumption DEF STypeOK, Times
  <1>1. ASSUME NEW c \in CallType, CallOK(c)
        PROVE  /\ c.at <= clock'
               /\ c.pc = "insert" => \A a \in c.todo : RowIsBetween(a, c.at, c.readAt, c.has)'
    <2>1. c.at \in Nat /\ c.readAt \in Nat
      BY <1>0
    <2>2. c.at <= clock'
      BY <1>0, <1>1, <2>1, ClockAndPostings DEF Times
    <2>3. ASSUME NEW a \in c.todo, c.pc = "insert" PROVE RowIsBetween(a, c.at, c.readAt, c.has)'
      BY <1>0, <1>1, <2>1, <2>3, ClockAndPostings, RowStaysBetween DEF Times
    <2> QED
      BY <2>2, <2>3
  <1>2. CASE UNCHANGED call
    BY <1>0, <1>1, <1>2 DEF CallsOK
  <1>3. ASSUME NEW t \in Snapshotters, NEW c \in CallType,
               call' = [call EXCEPT ![t] = c], UNCHANGED <<clock, posted>>, CallOK(c)
        PROVE  call' \in [Snapshotters -> CallType] /\ \A u \in Snapshotters : CallOK(call[u])'
    BY <1>0, <1>1, <1>3 DEF CallsOK
  <1>4. ASSUME NEW t \in Snapshotters, Begin(t)
        PROVE  call' \in [Snapshotters -> CallType] /\ \A u \in Snapshotters : CallOK(call[u])'
    <2>1. PICK c : c = [pc |-> "read", at |-> clock, readAt |-> 0, todo |-> {}, has |-> {}]
      OBVIOUS
    <2>2. c \in CallType /\ c.at = clock /\ c.pc = "read"
      BY <1>0, <2>1
    <2>3. call' = [call EXCEPT ![t] = c] /\ UNCHANGED <<clock, posted>>
      BY <1>4, <2>1 DEF Begin
    <2>4. CallOK(c)
      BY <1>0, <2>2
    <2> QED
      BY <1>3, <2>2, <2>3, <2>4
  <1>5. ASSUME NEW t \in Snapshotters, NEW todo \in SUBSET SnapAccounts, ReadRows(t, todo)
        PROVE  call' \in [Snapshotters -> CallType] /\ \A u \in Snapshotters : CallOK(call[u])'
    <2>1. PICK c : c = [pc |-> "insert", at |-> call[t].at, readAt |-> clock,
                        todo |-> todo, has |-> Visible]
      OBVIOUS
    <2>a. call[t] \in CallType /\ Visible \subseteq Postings
      BY <1>0 DEF Visible
    <2>2. /\ c \in CallType /\ c.at = call[t].at /\ c.pc = "insert" /\ c.readAt = clock
          /\ c.has = Visible
      BY <1>0, <2>1, <2>a
    <2>3. call' = [call EXCEPT ![t] = c] /\ UNCHANGED <<clock, posted>>
      BY <1>5, <2>1 DEF ReadRows
    <2>4. call[t].at \in Nat /\ call[t].at <= clock
      BY <1>0 DEF CallsOK
    <2>5. \A a \in c.todo : RowIsBetween(a, c.at, c.readAt, c.has)
      BY <1>0, <2>2, <2>4 DEF RowIsBetween, Visible, OfAccount, TimesOK, STypeOK
    <2> QED
      BY <1>3, <2>2, <2>3, <2>4, <2>5
  <1>6. ASSUME NEW t \in Snapshotters, NEW a \in SnapAccounts, InsertSnapshot(t, a)
        PROVE  call' \in [Snapshotters -> CallType] /\ \A u \in Snapshotters : CallOK(call[u])'
    <2>1. PICK c : c = IF call[t].todo = {a} THEN Ended
                       ELSE [call[t] EXCEPT !.todo = call[t].todo \ {a}]
      OBVIOUS
    <2>2. c \in CallType /\ c.at <= clock
      BY <1>0, <2>1 DEF Ended, NotCalled, CallsOK
    <2>3. CallOK(c)
      BY <1>0, <2>1, <2>2 DEF Ended, NotCalled, CallsOK
    <2>4. call' = [call EXCEPT ![t] = c] /\ UNCHANGED <<clock, posted>>
      BY <1>6, <2>1 DEF InsertSnapshot
    <2> QED
      BY <1>3, <2>2, <2>3, <2>4
  <1>7. ASSUME NEW t \in Snapshotters, EndCall(t)
        PROVE  call' \in [Snapshotters -> CallType] /\ \A u \in Snapshotters : CallOK(call[u])'
    <2>1. Ended \in CallType /\ Ended.at <= clock /\ Ended.pc = "ended"
      BY <1>0 DEF Ended, NotCalled
    <2> QED
      BY <1>3, <1>7, <2>1 DEF EndCall
  <1>8. ASSUME NEW t \in Snapshotters, ReadBalance(t) \/ ListTenantBalances(t)
        PROVE  call' \in [Snapshotters -> CallType] /\ \A u \in Snapshotters : CallOK(call[u])'
    BY <1>5, <1>8 DEF ReadBalance, ListTenantBalances
  <1>9. \/ UNCHANGED call
        \/ \E t \in Snapshotters :
              \/ Begin(t) \/ ReadBalance(t) \/ ListTenantBalances(t) \/ EndCall(t)
              \/ \E a \in SnapAccounts : InsertSnapshot(t, a)
    BY DEF SNext, svars, Tick, InsertEntries, CommitPosting, PruneSnapshotsOlderThan,
           GetSnapshotBefore, SumEntriesBetween
  <1> QED
    BY <1>2, <1>4, <1>6, <1>7, <1>8, <1>9

\* The query: its row stays what it was when it was read, and its two reads
\* agree on the postings that were committed before.
LEMMA NextQuery ==
    ASSUME SInvariant, [SNext]_svars
    PROVE  /\ query' \in [pc : {"idle", "sum", "done"}, account : SnapAccounts \cup {0},
                          at : 0 .. MaxTime, base : SnapshotRow, seen : SUBSET Postings,
                          counted : SUBSET Postings]
           /\ QueryOK'
  <1> DEFINE QueryType == [pc : {"idle", "sum", "done"}, account : SnapAccounts \cup {0},
                           at : 0 .. MaxTime, base : SnapshotRow, seen : SUBSET Postings,
                           counted : SUBSET Postings]
  <1> SUFFICES query' \in QueryType /\ QueryOK'
    OBVIOUS
  <1> USE DEF SInvariant
  <1>0. /\ query \in QueryType /\ query.base \in SnapshotRow
        /\ query.base.at \in Nat /\ query.base.readAt \in Nat /\ query.at \in Nat
        /\ clock \in 1 .. MaxTime /\ MaxTime \in Nat
    BY MaxTimeAssumption DEF STypeOK, Times, SnapshotRow
  <1>1. CASE UNCHANGED query
    <2>1. query.base # NoSnapshot =>
            RowIsBetween(query.account, query.base.at, query.base.readAt, query.base.has)'
      <3> SUFFICES ASSUME query.base # NoSnapshot
                   PROVE  RowIsBetween(query.account, query.base.at, query.base.readAt,
                                       query.base.has)'
        OBVIOUS
      <3>1. PICK a, at, readAt, has : /\ a = query.account /\ at = query.base.at
                                      /\ readAt = query.base.readAt /\ has = query.base.has
        OBVIOUS
      <3>2. RowIsBetween(a, at, readAt, has)
        BY <3>1 DEF QueryOK
      <3>3. RowIsBetween(a, at, readAt, has)'
        BY <1>0, <3>1, <3>2, ClockAndPostings, RowStaysBetween DEF Times
      <3> QED
        BY <1>1, <3>1, <3>3
    <2>2. (query.seen \subseteq Visible)'
      BY <1>0, <1>1, ClockAndPostings DEF QueryOK, Visible
    <2>3. ASSUME query.pc = "done", NEW p \in OfAccount(query.account, Postings)
          PROVE  /\ p \in query.counted =>
                       posted'[p] # 0 /\ created'[p] > query.base.at /\ created'[p] <= query.at
                 /\ p \in query.seen /\ created'[p] > query.base.at /\ created'[p] <= query.at
                       => p \in query.counted
      <3>1. p \in Postings /\ (posted[p] # 0 => posted'[p] = posted[p])
        BY ClockAndPostings DEF OfAccount
      <3>2. posted[p] # 0 => created'[p] = created[p]
        BY <3>1, ClockAndPostings DEF TimesOK
      <3>3. p \in query.seen => posted[p] # 0
        BY DEF QueryOK, Visible
      <3> QED
        BY <2>3, <3>1, <3>2, <3>3 DEF QueryOK
    <2> QED
      BY <1>0, <1>1, <2>1, <2>2, <2>3 DEF QueryOK, OfAccount
  <1>2. ASSUME NEW a \in SnapAccounts, NEW at \in AsOf, GetSnapshotBefore(a, at)
        PROVE  query' \in QueryType /\ QueryOK'
    <2>1. PICK s \in LatestSnapshotBefore(a, at) :
             query' = [pc |-> "sum", account |-> a, at |-> at, base |-> s,
                       seen |-> Visible, counted |-> {}]
      BY <1>2 DEF GetSnapshotBefore
    <2>2. s = NoSnapshot \/ (s \in snaps /\ s.account = a /\ s.at <= at)
      BY DEF LatestSnapshotBefore, Newest
    <2>3. s \in SnapshotRow /\ at \in 1 .. MaxTime
      BY <1>0, <2>2, AsOfAssumption DEF STypeOK, NoSnapshot, SnapshotRow
    <2>4. query' \in QueryType
      BY <1>0, <2>1, <2>3 DEF Visible
    <2>5. s # NoSnapshot => RowIsBetween(a, s.at, s.readAt, s.has)
      BY <2>2 DEF RowsOK
    <2>6. UNCHANGED <<clock, created, posted>>
      BY <1>2 DEF GetSnapshotBefore
    <2>7. s.at <= at
      BY <2>2, <2>3 DEF NoSnapshot
    <2> QED
      BY <2>1, <2>4, <2>5, <2>6, <2>7 DEF QueryOK, RowIsBetween, OfAccount, Visible
  <1>3. CASE SumEntriesBetween
    <2>1. query' = [query EXCEPT !.pc = "done",
                    !.counted = EntriesBetween(query.account, query.base.at, query.at)]
      BY <1>3 DEF SumEntriesBetween
    <2>2. query' \in QueryType
      BY <1>0, <2>1 DEF EntriesBetween, OfAccount, Visible
    <2>3. /\ query'.pc = "done" /\ query'.account = query.account /\ query'.at = query.at
          /\ query'.base = query.base /\ query'.seen = query.seen
          /\ query'.counted = EntriesBetween(query.account, query.base.at, query.at)
      BY <1>0, <2>1
    <2>4. UNCHANGED <<clock, created, posted>>
      BY <1>3 DEF SumEntriesBetween
    <2> QED
      BY <2>2, <2>3, <2>4 DEF QueryOK, RowIsBetween, OfAccount, Visible, EntriesBetween
  <1>4. \/ UNCHANGED query
        \/ \E a \in SnapAccounts, at \in AsOf : GetSnapshotBefore(a, at)
        \/ SumEntriesBetween
    BY DEF SNext, svars, Tick, InsertEntries, CommitPosting, Begin, ReadBalance,
           ListTenantBalances, ReadRows, EndCall, InsertSnapshot, PruneSnapshotsOlderThan
  <1> QED
    BY <1>1, <1>2, <1>3, <1>4

\* The invariant holds in every reachable state: rows keep the postings that
\* TakeBalanceSnapshot saw, between its s.Now() and its read.
THEOREM SnapshotInvariant == SSpec => []SInvariant
  <1>1. SInvariant /\ [SNext]_svars => SInvariant'
    BY ClockAndPostings, NextRows, NextCalls, NextQuery DEF SInvariant, STypeOK
  <1> QED
    BY InitSInvariant, <1>1, PTL DEF SSpec

\* GetBalance(as_of) is exact apart from postings that ran while the row it
\* starts from was being taken, whatever is pruned and whatever fails.
THEOREM ExactApartFromSnapshotCorrect == SSpec => []ExactApartFromSnapshot
  <1>1. SInvariant => ExactApartFromSnapshot
    <2> SUFFICES ASSUME SInvariant, query.pc = "done",
                        NEW p \in OfAccount(query.account, Postings), Apart(p, query.base)
                 PROVE  /\ p \in query.seen /\ created[p] <= query.at => Count(p) = 1
                        /\ created[p] > query.at => Count(p) = 0
      BY DEF ExactApartFromSnapshot
    <2> USE DEF SInvariant
    <2>1. /\ p \in Postings /\ created[p] \in Nat /\ posted[p] \in Nat
          /\ query.base.at \in Nat /\ query.base.readAt \in Nat /\ query.at \in Nat
      BY MaxTimeAssumption DEF STypeOK, SnapshotRow, OfAccount
    <2>2. /\ posted[p] # 0 => created[p] # 0 /\ created[p] <= posted[p]
          /\ p \in query.seen => posted[p] # 0
          /\ query.base.at <= query.at
          /\ p \in query.counted => created[p] > query.base.at /\ created[p] <= query.at
          /\ p \in query.seen /\ created[p] > query.base.at /\ created[p] <= query.at
                => p \in query.counted
      BY <2>1 DEF TimesOK, QueryOK, Visible
    <2>3. CASE query.base = NoSnapshot
      BY <2>1, <2>2, <2>3 DEF Count, NoSnapshot
    <2>4. CASE query.base # NoSnapshot
      <3>1. RowIsBetween(query.account, query.base.at, query.base.readAt, query.base.has)
        BY <2>4 DEF QueryOK
      <3>2. /\ query.base.at <= query.base.readAt
            /\ posted[p] # 0 /\ posted[p] < query.base.at => p \in query.base.has
            /\ p \in query.base.has => posted[p] # 0 /\ posted[p] <= query.base.readAt
        BY <3>1 DEF RowIsBetween
      <3>3. CASE posted[p] # 0 /\ posted[p] < query.base.at
        BY <2>1, <2>2, <3>2, <3>3 DEF Count
      <3>4. CASE created[p] > query.base.readAt
        BY <2>1, <2>2, <3>2, <3>4 DEF Count
      <3> QED
        BY <2>4, <3>3, <3>4 DEF Apart
    <2> QED
      BY <2>3, <2>4
  <1> QED
    BY <1>1, SnapshotInvariant, PTL

\* Among the rows of an account that are at least as new as s there is a newest.
LEMMA NewestExists ==
    ASSUME NEW rows, NEW s \in rows
    PROVE  (\A n \in rows : n.at \in 0 .. MaxTime)
           => \E m \in rows : /\ m.account = s.account /\ m.at >= s.at
                              /\ \A n \in rows : n.account = s.account => ~ (n.at > m.at)
  <1>0. SUFFICES ASSUME \A n \in rows : n.at \in 0 .. MaxTime
                 PROVE  \E m \in rows : /\ m.account = s.account /\ m.at >= s.at
                                        /\ \A n \in rows : n.account = s.account => ~ (n.at > m.at)
    OBVIOUS
  <1> DEFINE Later(n) == {x \in 0 .. MaxTime : x > n.at}
             Mine == {n \in rows : n.account = s.account /\ n.at >= s.at}
             T == {Later(n) : n \in Mine}
             I == 0 .. MaxTime
  <1>1. s \in Mine
    BY <1>0
  <1>2. T \subseteq SUBSET I /\ T # {}
    BY <1>1
  <1>3. IsFiniteSet(I)
    BY MaxTimeAssumption, FS_Interval
  <1> HIDE DEF T, I
  <1>4. PICK X \in T : \A Y \in T : Y \subseteq X => Y = X
    BY <1>2, <1>3, LeastSubset
  <1>5. PICK m \in Mine : X = Later(m)
    BY <1>4 DEF T
  <1>6. ASSUME NEW n \in rows, n.account = s.account, n.at > m.at PROVE FALSE
    <2>1. n.at \in 0 .. MaxTime /\ m.at \in 0 .. MaxTime /\ s.at \in 0 .. MaxTime /\ MaxTime \in Nat
      BY <1>0, MaxTimeAssumption
    <2>2. n \in Mine
      BY <1>6, <2>1
    <2>3. Later(n) \in T
      BY <2>2 DEF T
    <2>4. Later(n) \subseteq X /\ n.at \in X /\ n.at \notin Later(n)
      BY <1>5, <1>6, <2>1
    <2> QED
      BY <1>4, <2>3, <2>4
  <1> QED
    BY <1>5, <1>6

\* Whatever batch of old rows retentionTick deletes, the newest snapshot of an
\* account is never in it: the point a reconstruction starts from never moves
\* back.
THEOREM NewestIsKeptCorrect == SSpec => NewestIsKept
  <1> DEFINE Kept == \A s \in snaps : \E n \in snaps' : n.account = s.account /\ n.at >= s.at
  <1>1. SInvariant /\ [SNext]_svars => [Kept]_svars
    <2> SUFFICES ASSUME SInvariant, [SNext]_svars PROVE Kept
      OBVIOUS
    <2>0. \A s \in snaps : s.at \in 0 .. MaxTime /\ s.at \in Nat
      BY MaxTimeAssumption DEF SInvariant, STypeOK, SnapshotRow
    <2>1. CASE snaps \subseteq snaps'
      BY <2>0, <2>1
    <2>2. CASE PruneSnapshotsOlderThan
      <3>1. PICK D \in SUBSET {s \in snaps : Prunable(s)} : snaps' = snaps \ D
        BY <2>2 DEF PruneSnapshotsOlderThan
      <3> SUFFICES ASSUME NEW s \in snaps
                   PROVE  \E n \in snaps' : n.account = s.account /\ n.at >= s.at
        OBVIOUS
      <3>2. PICK m \in snaps : /\ m.account = s.account /\ m.at >= s.at
                               /\ \A n \in snaps : n.account = s.account => ~ (n.at > m.at)
        BY <2>0, NewestExists
      <3>3. ~ Prunable(m)
        BY <3>2 DEF Prunable
      <3> QED
        BY <3>1, <3>2, <3>3
    <2> QED
      BY <2>1, <2>2
         DEF SNext, svars, Tick, InsertEntries, CommitPosting, Begin, ReadBalance,
             ListTenantBalances, ReadRows, EndCall, InsertSnapshot, GetSnapshotBefore,
             SumEntriesBetween
  <1> QED
    BY <1>1, SnapshotInvariant, PTL DEF SSpec, NewestIsKept

-----------------------------------------------------------------------------
(* Reconciliation.                                                         *)

\* The inductive invariant: the three properties support each other's parts.
RInv == RcInvariant /\ MismatchReportedOnce /\ NothingSlips /\ AdjustedOnce

\* Nothing is there at the start.
LEMMA InitRInv == RcInit => RInv
  BY RcMaxTimeAssumption
     DEF RcInit, RInv, RcInvariant, RcTypeOK, BatchesAgree, MatchesAreTrue, MismatchReportedOnce,
         NothingSlips, AdjustedOnce, NoRecord, NoBatch, NoDisc, Reported

\* The clock and new journals and records leave every batch as it is.
LEMMA QuietSteps ==
    ASSUME RInv,
           \/ RcTick
           \/ \E r \in Refs : PostJournal(r)
           \/ \E r \in Refs : \E t \in 1 .. RcMaxTime : InsertExternalRecord(r, t)
    PROVE  RInv'
  <1> USE RcMaxTimeAssumption DEF RInv, RcInvariant
  <1>1. CASE RcTick
    BY <1>1 DEF RcTick, RcTypeOK, BatchesAgree, MatchesAreTrue, MismatchReportedOnce,
                NothingSlips, AdjustedOnce
  <1>2. ASSUME NEW r \in Refs, PostJournal(r) PROVE RInv'
    <2>1. /\ journal' \in [Refs -> 0 .. RcMaxTime]
          /\ \A q \in Refs : journal[q] # 0 => journal'[q] # 0
          /\ UNCHANGED <<now, record, batches, disc>>
      BY <1>2 DEF PostJournal, EventIsFree, RcTypeOK
    <2>2. RcTypeOK' /\ MismatchReportedOnce' /\ AdjustedOnce' /\ NothingSlips' /\ MatchesAreTrue'
      BY <2>1 DEF RcTypeOK, MismatchReportedOnce, AdjustedOnce, NothingSlips, MatchesAreTrue
    <2>3. BatchesAgree'
      BY <2>1 DEF BatchesAgree, RcTypeOK
    <2> QED
      BY <2>2, <2>3
  <1>3. ASSUME NEW r \in Refs, NEW t \in 1 .. RcMaxTime, InsertExternalRecord(r, t) PROVE RInv'
    <2>1. /\ record' \in [Refs -> [occurred : 0 .. RcMaxTime,
                            status : {"NONE", "UNMATCHED", "MATCHED", "MISMATCHED"}]]
          /\ record'[r].status = "UNMATCHED" /\ record[r].status = "NONE"
          /\ \A q \in Refs \ {r} : record'[q] = record[q]
          /\ UNCHANGED <<now, journal, batches, disc>>
      BY <1>3 DEF InsertExternalRecord, IsNew, RcTypeOK
    <2>2. RcTypeOK' /\ MismatchReportedOnce' /\ AdjustedOnce'
      BY <2>1 DEF RcTypeOK, MismatchReportedOnce, AdjustedOnce
    <2>3. BatchesAgree'
      BY <2>1 DEF BatchesAgree
    <2>4. MatchesAreTrue'
      BY <2>1 DEF MatchesAreTrue
    <2>5. NothingSlips'
      <3> SUFFICES ASSUME NEW k \in BatchKeys, NEW q \in batches[k].records \cup batches[k].journals
                   PROVE  record'[q].status = "MATCHED" \/ \E j \in BatchKeys : disc[j][q].type # "NONE"
        BY <2>1 DEF NothingSlips
      <3>1. q \in Refs
        BY DEF RcTypeOK
      <3>2. record[q].status = "MATCHED" \/ \E j \in BatchKeys : disc[j][q].type # "NONE"
        BY DEF NothingSlips
      <3> QED
        BY <2>1, <3>1, <3>2
    <2> QED
      BY <2>2, <2>3, <2>4, <2>5
  <1> QED
    BY <1>1, <1>2, <1>3

\* What the matcher's verdict on a reference means.
LEMMA VerdictMeans ==
    ASSUME NEW r, NEW ext, NEW jnl, NEW v, v = Verdict(r, ext, jnl)
    PROVE  /\ v = "MATCHED" <=> r \in ext /\ r \in jnl /\ r \notin Diverging
           /\ v = "AMOUNT_MISMATCH" <=> r \in ext /\ r \in jnl /\ r \in Diverging
           /\ v \in Reported \cup {"MATCHED", "NONE"}
           /\ v = "NONE" <=> r \notin ext /\ r \notin jnl
  BY DEF Verdict, AmountAgrees, Reported

\* The row that a verdict opens.
LEMMA OpenedRow ==
    ASSUME NEW v
    PROVE  /\ Opened(v).type = IF v \in Reported THEN v ELSE "NONE"
           /\ Opened(v).adjusted = {}
           /\ Opened(v).status = "NONE" <=> Opened(v).type = "NONE"
           /\ Opened(v) \in [type : Reported \cup {"NONE"},
                             status : {"NONE", "OPEN", "RESOLVED", "IGNORED"},
                             adjusted : SUBSET Refs]
  BY DEF Opened, NoDisc, Reported

\* What RunReconciliation does to the record and the discrepancy of a reference.
LEMMA RunEffect ==
    ASSUME RInv, NEW k \in BatchKeys, NEW w \in Windows, RunReconciliation(k, w),
           NEW r \in Refs,
           NEW v, v = Verdict(r, ListExternalRecordsForRecon(w), ListJournalsForRecon(w))
    PROVE  /\ record'[r].occurred = record[r].occurred
           /\ record'[r].status = StatusAfter(record[r].status, v)
           /\ record'[r] \in [occurred : 0 .. RcMaxTime,
                              status : {"NONE", "UNMATCHED", "MATCHED", "MISMATCHED"}]
           /\ disc'[k][r] = Opened(v)
           /\ disc[k][r] = NoDisc
           /\ \A j \in BatchKeys \ {k} : disc'[j] = disc[j] /\ batches'[j] = batches[j]
           /\ v = "MATCHED" => record[r].status = "UNMATCHED" /\ journal[r] # 0 /\ r \notin Diverging
           /\ v = "AMOUNT_MISMATCH" =>
                 record[r].status = "UNMATCHED" /\ journal[r] # 0 /\ r \in Diverging
           /\ v = "NONE" => \/ r \notin batches'[k].records \cup batches'[k].journals
                            \/ record[r].status \in {"MATCHED", "MISMATCHED"}
  <1> USE DEF RInv, RcInvariant
  <1>1. record[r] \in [occurred : 0 .. RcMaxTime,
                       status : {"NONE", "UNMATCHED", "MATCHED", "MISMATCHED"}]
    BY DEF RcTypeOK
  <1>2. record'[r] = [record[r] EXCEPT !.status = StatusAfter(record[r].status, v)]
    BY DEF RunReconciliation
  <1>3. StatusAfter(record[r].status, v) \in {"NONE", "UNMATCHED", "MATCHED", "MISMATCHED"}
    BY <1>1 DEF StatusAfter
  <1>4. disc'[k][r] = Opened(v) /\ disc[k][r] = NoDisc
    BY DEF RunReconciliation, RcTypeOK, BatchesAgree
  <1>5. \A j \in BatchKeys \ {k} : disc'[j] = disc[j] /\ batches'[j] = batches[j]
    BY DEF RunReconciliation, RcTypeOK
  <1>6. batches'[k].records = AllRecordsIn(w) /\ batches'[k].journals = ListJournalsForRecon(w)
    BY DEF RunReconciliation, RcTypeOK
  <1>7. /\ v = "MATCHED" => record[r].status = "UNMATCHED" /\ journal[r] # 0 /\ r \notin Diverging
        /\ v = "AMOUNT_MISMATCH" =>
              record[r].status = "UNMATCHED" /\ journal[r] # 0 /\ r \in Diverging
    BY VerdictMeans DEF ListExternalRecordsForRecon, ListJournalsForRecon
  <1>8. v = "NONE" => \/ r \notin batches'[k].records \cup batches'[k].journals
                      \/ record[r].status \in {"MATCHED", "MISMATCHED"}
    <2>1. v = "NONE" => /\ r \notin ListExternalRecordsForRecon(w)
                        /\ r \notin ListJournalsForRecon(w)
      BY DEF Verdict, AmountAgrees
    <2>2. r \in AllRecordsIn(w) /\ r \notin ListExternalRecordsForRecon(w)
            => record[r].status \in {"MATCHED", "MISMATCHED"}
      BY <1>1 DEF ListExternalRecordsForRecon, AllRecordsIn
    <2> QED
      BY <1>6, <2>1, <2>2
  <1> QED
    BY <1>1, <1>2, <1>3, <1>4, <1>5, <1>7, <1>8

\* A batch keeps the invariant: it moves records out of UNMATCHED together with
\* the discrepancies it opens, and reports whatever it does not match.
LEMMA RunKeepsRInv ==
    ASSUME RInv, NEW k \in BatchKeys, NEW w \in Windows, RunReconciliation(k, w)
    PROVE  RInv'
  <1> USE DEF RInv, RcInvariant
  <1> DEFINE V(r) == Verdict(r, ListExternalRecordsForRecon(w), ListJournalsForRecon(w))
  <1>0. /\ UNCHANGED <<now, journal>>
        /\ batches[k].status = "NONE"
        /\ batches' = [batches EXCEPT ![k] = [status |-> "COMPLETED", records |-> AllRecordsIn(w),
                                          journals |-> ListJournalsForRecon(w)]]
    BY DEF RunReconciliation
  <1>1. \A j \in BatchKeys \ {k} : disc'[j] = disc[j] /\ batches'[j] = batches[j]
    BY <1>0 DEF RcTypeOK, RunReconciliation
  <1>2. \A r \in Refs : disc[k][r] = NoDisc
    BY <1>0 DEF BatchesAgree
  <1>3. \A r \in Refs :
           /\ disc'[k][r] = Opened(V(r))
           /\ record'[r].status = StatusAfter(record[r].status, V(r))
           /\ record'[r] \in [occurred : 0 .. RcMaxTime,
                              status : {"NONE", "UNMATCHED", "MATCHED", "MISMATCHED"}]
           /\ V(r) = "MATCHED" =>
                 record[r].status = "UNMATCHED" /\ journal[r] # 0 /\ r \notin Diverging
           /\ V(r) = "AMOUNT_MISMATCH" =>
                 record[r].status = "UNMATCHED" /\ journal[r] # 0 /\ r \in Diverging
           /\ V(r) = "NONE" => \/ r \notin batches'[k].records \cup batches'[k].journals
                               \/ record[r].status \in {"MATCHED", "MISMATCHED"}
    BY RunEffect
  <1>4. \A r \in Refs : V(r) \in Reported \cup {"MATCHED", "NONE"}
    BY DEF Verdict, Reported
  <1>5. \A r \in Refs :
           /\ disc'[k][r].type = IF V(r) \in Reported THEN V(r) ELSE "NONE"
           /\ disc'[k][r].adjusted = {}
           /\ disc'[k][r].status = "NONE" <=> disc'[k][r].type = "NONE"
           /\ disc'[k][r] \in [type : Reported \cup {"NONE"},
                               status : {"NONE", "OPEN", "RESOLVED", "IGNORED"},
                               adjusted : SUBSET Refs]
    BY <1>3, OpenedRow
  <1>6. \A r \in Refs :
           /\ record'[r].status = "MATCHED" <=> record[r].status = "MATCHED" \/ V(r) = "MATCHED"
           /\ record'[r].status = "MISMATCHED" <=>
                 record[r].status = "MISMATCHED" \/ V(r) = "AMOUNT_MISMATCH"
    BY <1>3 DEF StatusAfter
  <1>7. RcTypeOK'
    <2>1. record' \in [Refs -> [occurred : 0 .. RcMaxTime,
                               status : {"NONE", "UNMATCHED", "MATCHED", "MISMATCHED"}]]
      BY <1>3 DEF RunReconciliation
    <2>2. disc'[k] \in [Refs -> [type : Reported \cup {"NONE"},
                                status : {"NONE", "OPEN", "RESOLVED", "IGNORED"},
                                adjusted : SUBSET Refs]]
      BY <1>5 DEF RunReconciliation, RcTypeOK
    <2>3. batches' \in [BatchKeys -> [status : {"NONE", "COMPLETED"}, records : SUBSET Refs,
                                   journals : SUBSET Refs]]
      BY <1>0 DEF RcTypeOK, AllRecordsIn, ListJournalsForRecon
    <2>4. disc' \in [BatchKeys -> [Refs -> [type : Reported \cup {"NONE"},
                                           status : {"NONE", "OPEN", "RESOLVED", "IGNORED"},
                                           adjusted : SUBSET Refs]]]
      BY <2>2, <1>1 DEF RunReconciliation, RcTypeOK
    <2> QED
      BY <1>0, <2>1, <2>3, <2>4 DEF RcTypeOK
  <1>8. BatchesAgree'
    <2>1. batches'[k].status = "COMPLETED"
      BY <1>0 DEF RcTypeOK
    <2>2. ASSUME NEW j \in BatchKeys, batches'[j].status = "NONE"
          PROVE  batches'[j] = NoBatch /\ \A r \in Refs : disc'[j][r] = NoDisc
      BY <1>1, <2>1, <2>2 DEF BatchesAgree
    <2>3. ASSUME NEW j \in BatchKeys, NEW r \in Refs
          PROVE  /\ disc'[j][r].type = "AMOUNT_MISMATCH" => record'[r].status = "MISMATCHED"
                 /\ \A e \in disc'[j][r].adjusted : journal'[e] # 0
                 /\ disc'[j][r].status = "NONE" <=> disc'[j][r].type = "NONE"
      <3>1. CASE j = k
        BY <1>5, <1>6, <3>1
      <3>2. CASE j # k
        BY <1>0, <1>1, <1>6, <3>2 DEF BatchesAgree
      <3> QED
        BY <3>1, <3>2
    <2> QED
      BY <2>2, <2>3 DEF BatchesAgree, NoBatch, NoDisc
  <1>9. MatchesAreTrue'
    <2> SUFFICES ASSUME NEW r \in Refs
                 PROVE  /\ record'[r].status = "MATCHED" => journal[r] # 0 /\ r \notin Diverging
                        /\ record'[r].status = "MISMATCHED" =>
                              /\ journal[r] # 0 /\ r \in Diverging
                              /\ \E j \in BatchKeys : disc'[j][r].type = "AMOUNT_MISMATCH"
      BY <1>0 DEF MatchesAreTrue
    <2>1. V(r) = "AMOUNT_MISMATCH" => disc'[k][r].type = "AMOUNT_MISMATCH"
      BY <1>5 DEF Reported
    <2>2. ASSUME NEW j \in BatchKeys, disc[j][r].type = "AMOUNT_MISMATCH"
          PROVE  disc'[j][r].type = "AMOUNT_MISMATCH"
      BY <1>1, <1>2, <2>2 DEF NoDisc
    <2> QED
      BY <1>3, <1>6, <2>1, <2>2 DEF MatchesAreTrue
  <1>10. MismatchReportedOnce'
    <2>1. ASSUME NEW r \in Refs, NEW j \in BatchKeys, disc'[k][r].type = "AMOUNT_MISMATCH",
                 disc'[j][r].type = "AMOUNT_MISMATCH", j # k
          PROVE  FALSE
      <3>1. record[r].status = "MISMATCHED"
        BY <1>1, <2>1 DEF BatchesAgree
      <3>2. V(r) = "AMOUNT_MISMATCH"
        BY <1>5, <2>1
      <3> QED
        BY <1>3, <3>1, <3>2
    <2> QED
      BY <1>1, <2>1 DEF MismatchReportedOnce
  <1>11. NothingSlips'
    <2> SUFFICES ASSUME NEW i \in BatchKeys, NEW r \in batches'[i].records \cup batches'[i].journals
                 PROVE  \/ record'[r].status = "MATCHED"
                        \/ \E j \in BatchKeys : disc'[j][r].type # "NONE"
      BY DEF NothingSlips
    <2>1. r \in Refs
      BY <1>7 DEF RcTypeOK
    <2>2. ASSUME NEW j \in BatchKeys, disc[j][r].type # "NONE" PROVE disc'[j][r].type # "NONE"
      BY <1>1, <1>2, <2>1, <2>2 DEF NoDisc
    <2>3. CASE i # k
      BY <1>1, <1>6, <2>1, <2>2, <2>3 DEF NothingSlips
    <2>4. CASE i = k
      <3>1. CASE V(r) = "NONE"
        <4>1. record[r].status = "MATCHED" \/ record[r].status = "MISMATCHED"
          BY <1>3, <2>1, <2>4, <3>1
        <4>2. record[r].status = "MISMATCHED" =>
                 \E j \in BatchKeys : disc[j][r].type = "AMOUNT_MISMATCH"
          BY <2>1 DEF MatchesAreTrue
        <4> QED
          BY <1>6, <2>1, <2>2, <4>1, <4>2
      <3>2. CASE V(r) = "MATCHED"
        BY <1>6, <2>1, <3>2
      <3>3. CASE V(r) \in Reported
        BY <1>5, <2>1, <3>3 DEF Reported
      <3> QED
        BY <1>4, <2>1, <3>1, <3>2, <3>3
    <2> QED
      BY <2>3, <2>4
  <1>12. AdjustedOnce'
    BY <1>1, <1>5 DEF AdjustedOnce
  <1> QED
    BY <1>7, <1>8, <1>9, <1>10, <1>11, <1>12

\* Closing one open discrepancy, with new journals E, keeps the invariant.
LEMMA ClosingKeepsRInv ==
    ASSUME RInv, NEW k \in BatchKeys, NEW r \in Refs,
           NEW status \in {"RESOLVED", "IGNORED"}, NEW E \in SUBSET Refs,
           disc[k][r].status = "OPEN",
           disc' = [disc EXCEPT ![k][r] = [type |-> disc[k][r].type, status |-> status,
                                           adjusted |-> E]],
           \A e \in E : journal[e] = 0 /\ journal'[e] # 0,
           \A e \in Refs : journal[e] # 0 => journal'[e] # 0,
           journal' \in [Refs -> 0 .. RcMaxTime],
           UNCHANGED <<now, record, batches>>
    PROVE  RInv'
  <1> USE DEF RInv, RcInvariant
  <1>1. RcTypeOK'
    BY DEF RcTypeOK
  <1>2. \A j \in BatchKeys, q \in Refs :
           /\ disc'[j][q].type = disc[j][q].type
           /\ j = k /\ q = r => disc'[j][q].adjusted = E /\ disc'[j][q].status = status
           /\ ~ (j = k /\ q = r) => disc'[j][q] = disc[j][q]
    BY DEF RcTypeOK
  <1>3. batches[k].status # "NONE"
    BY DEF BatchesAgree, NoDisc
  <1>4. disc[k][r].type # "NONE"
    BY DEF BatchesAgree
  <1>5. BatchesAgree'
    <2>1. ASSUME NEW j \in BatchKeys, batches[j].status = "NONE"
          PROVE  batches[j] = NoBatch /\ \A q \in Refs : disc'[j][q] = NoDisc
      BY <1>2, <1>3, <2>1 DEF BatchesAgree
    <2>2. ASSUME NEW j \in BatchKeys, NEW q \in Refs
          PROVE  /\ disc'[j][q].type = "AMOUNT_MISMATCH" => record[q].status = "MISMATCHED"
                 /\ \A e \in disc'[j][q].adjusted : journal'[e] # 0
                 /\ disc'[j][q].status = "NONE" <=> disc'[j][q].type = "NONE"
      <3>1. CASE j = k /\ q = r
        BY <1>2, <1>4, <3>1 DEF BatchesAgree
      <3>2. CASE ~ (j = k /\ q = r)
        <4>1. disc[j][q].adjusted \subseteq Refs
          BY DEF RcTypeOK
        <4> QED
          BY <1>2, <3>2, <4>1 DEF BatchesAgree
      <3> QED
        BY <3>1, <3>2
    <2> QED
      BY <2>1, <2>2 DEF BatchesAgree, NoBatch, NoDisc
  <1>6. MatchesAreTrue'
    BY <1>2 DEF MatchesAreTrue
  <1>7. MismatchReportedOnce'
    BY <1>2 DEF MismatchReportedOnce
  <1>8. NothingSlips'
    <2>1. \A j \in BatchKeys : batches[j].records \cup batches[j].journals \subseteq Refs
      BY DEF RcTypeOK
    <2> QED
      BY <1>2, <2>1 DEF NothingSlips
  <1>9. AdjustedOnce'
    <2> SUFFICES ASSUME NEW i \in BatchKeys, NEW j \in BatchKeys, NEW p \in Refs, NEW q \in Refs,
                        disc'[i][p].adjusted \cap disc'[j][q].adjusted # {}
                 PROVE  i = j /\ p = q
      BY DEF AdjustedOnce
    <2>1. \A h \in BatchKeys, x \in Refs : disc[h][x].adjusted \cap E = {}
      BY DEF BatchesAgree
    <2>2. CASE i = k /\ p = r
      BY <1>2, <2>1, <2>2
    <2>3. CASE j = k /\ q = r
      BY <1>2, <2>1, <2>3
    <2>4. CASE ~ (i = k /\ p = r) /\ ~ (j = k /\ q = r)
      BY <1>2, <2>4 DEF AdjustedOnce
    <2> QED
      BY <2>2, <2>3, <2>4
  <1> QED
    BY <1>1, <1>5, <1>6, <1>7, <1>8, <1>9

\* Every step of the handlers keeps the invariant.
LEMMA NextRInv == RInv /\ [RcNext]_rcvars => RInv'
  <1> SUFFICES ASSUME RInv, [RcNext]_rcvars PROVE RInv'
    OBVIOUS
  <1>1. ASSUME NEW k \in BatchKeys, NEW r \in Refs,
               NEW resolution \in {"RESOLVED", "IGNORED"}, Close(k, r, resolution)
        PROVE  RInv'
    <2>1. /\ disc[k][r].status = "OPEN"
          /\ disc' = [disc EXCEPT ![k][r] = [type |-> disc[k][r].type, status |-> resolution,
                                             adjusted |-> {}]]
          /\ journal' \in [Refs -> 0 .. RcMaxTime] /\ journal' = journal
          /\ UNCHANGED <<now, record, batches>>
      BY <1>1 DEF Close, MayResolve, RInv, RcInvariant, RcTypeOK
    <2>2. {} \in SUBSET Refs /\ \A e \in {} : journal[e] = 0 /\ journal'[e] # 0
      OBVIOUS
    <2>3. \A e \in Refs : journal[e] # 0 => journal'[e] # 0
      BY <2>1
    <2> QED
      BY <2>1, <2>2, <2>3, ClosingKeepsRInv
  <1>2. ASSUME NEW k \in BatchKeys, NEW r \in Refs, NEW e \in Refs, Adjust(k, r, e)
        PROVE  RInv'
    <2>1. /\ disc[k][r].status = "OPEN"
          /\ disc' = [disc EXCEPT ![k][r] = [type |-> disc[k][r].type, status |-> "RESOLVED",
                                             adjusted |-> {e}]]
          /\ UNCHANGED <<now, record, batches>>
      BY <1>2 DEF Adjust, MayResolve
    <2>2. /\ journal[e] = 0 /\ journal'[e] # 0
          /\ \A f \in Refs : journal[f] # 0 => journal'[f] # 0
          /\ journal' \in [Refs -> 0 .. RcMaxTime]
      BY <1>2, RcMaxTimeAssumption DEF Adjust, EventIsFree, RInv, RcInvariant, RcTypeOK
    <2>3. {e} \in SUBSET Refs /\ \A f \in {e} : journal[f] = 0 /\ journal'[f] # 0
      BY <2>2
    <2> QED
      BY <2>1, <2>2, <2>3, ClosingKeepsRInv
  <1>3. CASE UNCHANGED rcvars
    BY <1>3 DEF rcvars, RInv, RcInvariant, RcTypeOK, BatchesAgree, MatchesAreTrue,
                MismatchReportedOnce, NothingSlips, AdjustedOnce
  <1> QED
    BY <1>1, <1>2, <1>3, QuietSteps, RunKeepsRInv DEF RcNext

\* The invariant holds in every reachable state; in particular MATCHED and
\* MISMATCHED say what is true of the record's journal.
THEOREM ReconInvariant == RcSpec => []RcInvariant
  <1>1. RInv => RcInvariant
    BY DEF RInv
  <1> QED
    BY InitRInv, NextRInv, <1>1, PTL DEF RcSpec

\* A divergent amount is reported by one batch, however the windows overlap.
THEOREM MismatchReportedOnceCorrect == RcSpec => []MismatchReportedOnce
  <1>1. RInv => MismatchReportedOnce
    BY DEF RInv
  <1> QED
    BY InitRInv, NextRInv, <1>1, PTL DEF RcSpec

\* What was in the window of a completed batch is matched or reported.
THEOREM NothingSlipsCorrect == RcSpec => []NothingSlips
  <1>1. RInv => NothingSlips
    BY DEF RInv
  <1> QED
    BY InitRInv, NextRInv, <1>1, PTL DEF RcSpec

\* No journal resolves two discrepancies: the adjustment that ResolveDiscrepancy
\* posts has an unused event id.
THEOREM AdjustedOnceCorrect == RcSpec => []AdjustedOnce
  <1>1. RInv => AdjustedOnce
    BY DEF RInv
  <1> QED
    BY InitRInv, NextRInv, <1>1, PTL DEF RcSpec

\* A resolved or ignored discrepancy never changes again: ResolveDiscrepancy
\* checks its status, and RunReconciliation writes the rows of new batches only.
THEOREM ResolutionIsFinalCorrect == RcSpec => ResolutionIsFinal
  <1>1. RInv /\ [RcNext]_rcvars =>
          [\A k \in BatchKeys, r \in Refs :
             disc[k][r].status \in {"RESOLVED", "IGNORED"} => disc'[k][r] = disc[k][r]]_rcvars
    <2> SUFFICES ASSUME RInv, RcNext, NEW k \in BatchKeys, NEW r \in Refs,
                        disc[k][r].status \in {"RESOLVED", "IGNORED"}
                 PROVE  disc'[k][r] = disc[k][r]
      OBVIOUS
    <2> USE DEF RInv, RcInvariant
    <2>1. batches[k].status # "NONE"
      BY DEF BatchesAgree, NoDisc
    <2>2. ASSUME NEW j \in BatchKeys, NEW w \in Windows, RunReconciliation(j, w)
          PROVE  disc'[k][r] = disc[k][r]
      <3>1. j # k /\ \E X : disc' = [disc EXCEPT ![j] = X]
        BY <2>1, <2>2 DEF RunReconciliation
      <3> QED
        BY <3>1 DEF RcTypeOK
    <2>3. ASSUME NEW j \in BatchKeys, NEW q \in Refs,
                 \/ \E resolution \in {"RESOLVED", "IGNORED"} : Close(j, q, resolution)
                 \/ \E e \in Refs : Adjust(j, q, e)
          PROVE  disc'[k][r] = disc[k][r]
      <3>1. disc[j][q].status = "OPEN"
        BY <2>3 DEF Close, Adjust, MayResolve
      <3>2. \E X : disc' = [disc EXCEPT ![j][q] = X]
        BY <2>3, Zenon DEF Close, Adjust
      <3>3. j # k \/ q # r
        BY <3>1
      <3> QED
        BY <3>2, <3>3 DEF RcTypeOK
    <2>4. CASE UNCHANGED disc
      BY <2>4
    <2> QED
      BY <2>2, <2>3, <2>4 DEF RcNext, RcTick, PostJournal, InsertExternalRecord
  <1> QED
    BY InitRInv, NextRInv, <1>1, PTL DEF RcSpec, ResolutionIsFinal
=============================================================================
