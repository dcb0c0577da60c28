------------------------------ MODULE Snapshots ------------------------------
(***************************************************************************)
(* Balance snapshots and point-in-time balances on CockroachDB (SQLite's   *)
(* one connection allows fewer interleavings, DynamoDB has no snapshots):  *)
(* TakeBalanceSnapshot (take_snapshot.go), retentionTick (scheduler.go)    *)
(* and GetBalance with as_of (get_balance.go).                             *)
(*                                                                         *)
(* A balance is the set of postings in it, so that a reconstruction says   *)
(* how often it counts each posting.  The entries of a posting carry a     *)
(* created_at that the database assigns while the transaction runs; they   *)
(* and the balances become visible when it commits.  A snapshot carries    *)
(* the instant at which its handler started and the balances that a later  *)
(* query found.  All clocks agree.                                         *)
(***************************************************************************)
EXTENDS Integers, FiniteSets

CONSTANTS
    SnapAccounts,     \* accounts of the tenant, numbered in the order of their ids
    Postings,         \* transactions that post entries
    EntryAccounts,    \* the accounts that each posting has entries for
    Snapshotters,     \* calls of TakeBalanceSnapshot
    AsOf,             \* the times that callers ask for
    RetentionAge,     \* Config.RetentionAge
    BatchN,           \* Config.BatchN: rows deleted per retention tick
    MaxTime           \* bound on the clock

ASSUME SnapAccountsAssumption == SnapAccounts \subseteq Nat \ {0}
ASSUME EntryAccountsAssumption == EntryAccounts \in [Postings -> SUBSET SnapAccounts]
ASSUME MaxTimeAssumption == MaxTime \in Nat \ {0}
ASSUME AsOfAssumption == AsOf \subseteq 1 .. MaxTime
ASSUME RetentionAssumption == RetentionAge \in Nat /\ BatchN \in Nat \ {0}

VARIABLES
    clock,
    created,    \* created_at of each posting's entries; 0 before
    posted,     \* history: when each posting committed; 0 before
    snaps,      \* balance_snapshots
    call,       \* the state of each TakeBalanceSnapshot call
    query       \* a GetBalance call with as_of

svars == <<clock, created, posted, snaps, call, query>>

Times == 1 .. MaxTime

\* A row: sums (as a set of postings) of one account.  readAt is history: when
\* the sums were read.
SnapshotRow == [account : SnapAccounts \cup {0}, at : 0 .. MaxTime, readAt : 0 .. MaxTime,
                has : SUBSET Postings]

\* "If none, start from zero": the zero time and no sums.
NoSnapshot == [account |-> 0, at |-> 0, readAt |-> 0, has |-> {}]

NotCalled == [pc |-> "idle", at |-> 0, readAt |-> 0, todo |-> {}, has |-> {}]
Ended == [NotCalled EXCEPT !.pc = "ended"]
NoQuery == [pc |-> "idle", account |-> 0, at |-> 0, base |-> NoSnapshot, seen |-> {},
            counted |-> {}]

SInit ==
    /\ clock = 1
    /\ created = [p \in Postings |-> 0]
    /\ posted = [p \in Postings |-> 0]
    /\ snaps = {}
    /\ call = [t \in Snapshotters |-> NotCalled]
    /\ query = NoQuery

Tick ==
    /\ clock < MaxTime
    /\ clock' = clock + 1
    /\ UNCHANGED <<created, posted, snaps, call, query>>

\* A transaction starts or inserts its entries: the database takes its now().
\* One that is rolled back stays here for ever.
InsertEntries(p) ==
    /\ created[p] = 0
    /\ created' = [created EXCEPT ![p] = clock]
    /\ UNCHANGED <<clock, posted, snaps, call, query>>

\* It commits: entries and balances become visible.
CommitPosting(p) ==
    /\ created[p] # 0
    /\ posted[p] = 0
    /\ posted' = [posted EXCEPT ![p] = clock]
    /\ UNCHANGED <<clock, created, snaps, call, query>>

\* Mutant: a read of uncommitted rows.
Begun == {p \in Postings : created[p] # 0}

\* What a query of the store sees.
Visible == {p \in Postings : posted[p] # 0}

OfAccount(a, P) == {p \in P : a \in EntryAccounts[p]}

-----------------------------------------------------------------------------
(* TakeBalanceSnapshot: called by an operator or by snapshotTick.          *)

\* now := s.Now()
Begin(t) ==
    /\ call[t].pc = "idle"
    /\ call' = [call EXCEPT ![t] = [pc |-> "read", at |-> clock, readAt |-> 0,
                                        todo |-> {}, has |-> {}]]
    /\ UNCHANGED <<clock, created, posted, snaps, query>>

ReadRows(t, todo) ==
    /\ call[t].pc = "read"
    /\ call' = [call EXCEPT ![t] = [pc |-> "insert", at |-> call[t].at, readAt |-> clock,
                                        todo |-> todo, has |-> Visible]]
    /\ UNCHANGED <<clock, created, posted, snaps, query>>

\* The single-row variant: GetBalance, zero if there is no row.
ReadBalance(t) == \E a \in SnapAccounts : ReadRows(t, {a})

\* The bulk variant: ListTenantBalances, every row in one query.
ListTenantBalances(t) ==
    ReadRows(t, {a \in SnapAccounts : OfAccount(a, Visible) # {}})

\* One InsertSnapshot per row, each on its own; no row is left: the call ends.
InsertSnapshot(t, a) ==
    /\ call[t].pc = "insert"
    /\ a \in call[t].todo
    /\ \A b \in call[t].todo : a <= b
    /\ snaps' = snaps \cup {[account |-> a, at |-> call[t].at, readAt |-> call[t].readAt,
                             has |-> OfAccount(a, call[t].has)]}
    /\ call' = [call EXCEPT ![t] = IF call[t].todo = {a} THEN Ended
                                   ELSE [call[t] EXCEPT !.todo = call[t].todo \ {a}]]
    /\ UNCHANGED <<clock, created, posted, query>>

\* A call fails or the server dies (rows inserted before stay), or there are
\* no rows.
EndCall(t) ==
    /\ call[t].pc \in {"read", "insert"}
    /\ call' = [call EXCEPT ![t] = Ended]
    /\ UNCHANGED <<clock, created, posted, snaps, query>>

-----------------------------------------------------------------------------
(* retentionTick.                                                          *)

\* Mutant: the newest row is not spared.
OldRow(s) == s.at < clock - RetentionAge

\* Old rows, except the newest of an account.
Prunable(s) ==
    /\ s.at < clock - RetentionAge
    /\ \E n \in snaps : n.account = s.account /\ n.at > s.at

PruneSnapshotsOlderThan ==
    /\ \E D \in SUBSET {s \in snaps : Prunable(s)} :
          /\ D # {}
          /\ Cardinality(D) <= BatchN
          /\ snaps' = snaps \ D
    /\ UNCHANGED <<clock, created, posted, call, query>>

-----------------------------------------------------------------------------
(* GetBalance with as_of, in two queries.                                  *)

Newest(rows) == {s \in rows : \A n \in rows : n.at <= s.at}

\* The rows to start from: ties are broken by a random id.
LatestSnapshotBefore(a, at) ==
    LET rows == {s \in snaps : s.account = a /\ s.at <= at}
    IN  IF rows = {} THEN {NoSnapshot} ELSE Newest(rows)

GetSnapshotBefore(a, at) ==
    /\ query.pc = "idle"
    /\ \E s \in LatestSnapshotBefore(a, at) :
          query' = [pc |-> "sum", account |-> a, at |-> at, base |-> s,
                    seen |-> Visible, counted |-> {}]
    /\ UNCHANGED <<clock, created, posted, snaps, call>>

\* Mutant: the entries that the snapshot contains are added again.
EntriesUntil(a, after, until) ==
    {p \in OfAccount(a, Visible) : created[p] <= until}

\* Entries in (after, until].
EntriesBetween(a, after, until) ==
    {p \in OfAccount(a, Visible) : created[p] > after /\ created[p] <= until}

SumEntriesBetween ==
    /\ query.pc = "sum"
    /\ query' = [query EXCEPT !.pc = "done",
                  !.counted = EntriesBetween(query.account, query.base.at, query.at)]
    /\ UNCHANGED <<clock, created, posted, snaps, call>>

SNext ==
    \/ Tick
    \/ \E p \in Postings : InsertEntries(p) \/ CommitPosting(p)
    \/ \E t \in Snapshotters :
          \/ Begin(t) \/ ReadBalance(t) \/ ListTenantBalances(t) \/ EndCall(t)
          \/ \E a \in SnapAccounts : InsertSnapshot(t, a)
    \/ PruneSnapshotsOlderThan
    \/ \E a \in SnapAccounts, at \in AsOf : GetSnapshotBefore(a, at)
    \/ SumEntriesBetween

SSpec == SInit /\ [][SNext]_svars

-----------------------------------------------------------------------------
(* Correctness.                                                            *)

\* Every variable holds a value of its kind.
STypeOK ==
    /\ clock \in Times
    /\ created \in [Postings -> 0 .. MaxTime]
    /\ posted \in [Postings -> 0 .. MaxTime]
    /\ snaps \subseteq SnapshotRow
    /\ call \in [Snapshotters -> [pc : {"idle", "read", "insert", "ended"},
                                  at : 0 .. MaxTime, readAt : 0 .. MaxTime,
                                  todo : SUBSET SnapAccounts, has : SUBSET Postings]]
    /\ query \in [pc : {"idle", "sum", "done"}, account : SnapAccounts \cup {0},
                  at : 0 .. MaxTime, base : SnapshotRow, seen : SUBSET Postings,
                  counted : SUBSET Postings]

\* How often the answer of GetBalance contains a posting: once for the row it
\* started from, once for the entries it added.
Count(p) == (IF p \in query.base.has THEN 1 ELSE 0) + (IF p \in query.counted THEN 1 ELSE 0)

\* The transaction did not run while the handler that took row s was between
\* its s.Now() and its read.
Apart(p, s) ==
    \/ s = NoSnapshot
    \/ posted[p] # 0 /\ posted[p] < s.at
    \/ created[p] > s.readAt

\* What the sums of a row are worth (TakeBalanceSnapshot reads after it took
\* the instant): they contain every posting that committed before the instant
\* and none that committed after the read.
RowIsBetween(account, at, readAt, has) ==
    /\ at <= readAt
    /\ readAt <= clock
    /\ \A p \in OfAccount(account, Postings) :
          /\ posted[p] # 0 /\ posted[p] < at => p \in has
          /\ p \in has => posted[p] # 0 /\ posted[p] <= readAt

\* created_at precedes the commit, and neither is in the future.
TimesOK ==
    \A p \in Postings :
        /\ created[p] <= clock
        /\ posted[p] # 0 => created[p] # 0 /\ created[p] <= posted[p] /\ posted[p] <= clock

RowsOK == \A s \in snaps : RowIsBetween(s.account, s.at, s.readAt, s.has)

\* The rows that a call has still to insert.
CallsOK ==
    \A t \in Snapshotters :
        /\ call[t].at <= clock
        /\ call[t].pc = "insert" =>
              \A a \in call[t].todo : RowIsBetween(a, call[t].at, call[t].readAt, call[t].has)

\* The row that a query started from, which retentionTick may have deleted
\* meanwhile, and the entries it added.
QueryOK ==
    /\ query.base # NoSnapshot =>
          RowIsBetween(query.account, query.base.at, query.base.readAt, query.base.has)
    /\ query.base.at <= query.at
    /\ query.seen \subseteq Visible
    /\ query.pc = "done" =>
          \A p \in OfAccount(query.account, Postings) :
             /\ p \in query.counted =>
                   posted[p] # 0 /\ created[p] > query.base.at /\ created[p] <= query.at
             /\ p \in query.seen /\ created[p] > query.base.at /\ created[p] <= query.at
                   => p \in query.counted

\* What makes ExactApartFromSnapshot inductive: the worth of every row, of the
\* rows that calls of TakeBalanceSnapshot hold and of the row in use.
SInvariant == STypeOK /\ TimesOK /\ RowsOK /\ CallsOK /\ QueryOK

\* GetBalance(as_of) counts exactly the postings up to as_of: those that were
\* committed when it was called and are not later than as_of once, those that
\* are later never, whatever rows retentionTick deletes, also between its two
\* queries, and whatever part of a bulk snapshot was inserted before a
\* failure.  Excepted are postings that ran while the row it starts from was
\* being taken.
ExactApartFromSnapshot ==
    query.pc = "done" =>
        \A p \in OfAccount(query.account, Postings) :
            Apart(p, query.base) =>
                /\ p \in query.seen /\ created[p] <= query.at => Count(p) = 1
                /\ created[p] > query.at => Count(p) = 0

\* "`GetBalance(as_of=T)` reconstructs balances at any past time" (README.md):
\* a posting that committed by T is counted once, also if it ran while
\* TakeBalanceSnapshot was between s.Now() and its read.  (Entries with the
\* very timestamp of the snapshot are left out of the question.)
PointInTime ==
    query.pc = "done" =>
        \A p \in OfAccount(query.account, query.seen) :
            posted[p] <= query.at /\ created[p] # query.base.at => Count(p) = 1

\* "preserving the most-recent snapshot" (PruneSnapshotsOlderThan): the newest
\* snapshot_at of an account never goes back.
NewestIsKept ==
    [][\A s \in snaps : \E n \in snaps' : n.account = s.account /\ n.at >= s.at]_svars
=============================================================================
