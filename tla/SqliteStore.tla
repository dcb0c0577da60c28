---------------------------- MODULE SqliteStore ----------------------------
(***************************************************************************)
(* The statements of internal/repo/sqlite on a database db: the queries    *)
(* sqlc generates from sql/queries/sqlite (names in lower case) and the    *)
(* Store and Tx methods that call them.  SQLite has neither time nor       *)
(* decimal columns: instants are text of whole milliseconds, whose order   *)
(* is that of the numbers they spell, and sums go through REAL.  The rows  *)
(* belong to one tenant, except for snapshots.                             *)
(***************************************************************************)
EXTENDS SqlRows

CONSTANTS
    AccountRows,    \* rows of accounts
    Whole,          \* the amount that is 1; others need not be exact as REAL
    RealLimit       \* where REAL runs out of digits

\* The tables of gen/sqlite/models.go that the queries below read.
Tables == EmptyTables

\* Format(sqliteTimeFormat), and the strftime of the column defaults: the
\* fraction of a millisecond is cut off.  A nil time is NULL, or the '' that
\* switches a filter off.
sqliteTimeFormat(t) == IF t = NoTime THEN NoTime ELSE t \div Unit

parseTime(s) == IF s = NoTime THEN NoTime ELSE s * Unit

\* A REAL sum comes out right if it adds whole numbers, or just one number:
\* NewFromFloat takes the shortest decimal, which is the one that was stored.
RealIsExact(S, dir) ==
    LET side == {e \in S : e.direction = dir}
    IN  /\ SumOf(S, dir) < RealLimit
        /\ Cardinality(side) <= 1 \/ \A e \in side : e.amount % Whole = 0

\* What decimal.NewFromFloat may make of SUM(CAST(amount AS REAL)): as with
\* 0.1 + 0.2, every addition may be off by one in the last digit.
RealSums(S, dir) ==
    LET slip == IF RealIsExact(S, dir) THEN 0 ELSE Cardinality(S)
    IN  (SumOf(S, dir) - slip) .. (SumOf(S, dir) + slip)

-----------------------------------------------------------------------------
(* Reservations.                                                           *)

insertReservation(db, r, ts) ==
    [db EXCEPT !.reservations = @ \cup
        {[id |-> r.id, source_account_id |-> r.source_account_id, status |-> r.status,
          expires_at |-> r.expires_at, created_at |-> ts]}]

updateReservationAmounts(db, id, status) ==
    [db EXCEPT !.reservations = Update(@, id, "status", status)]

listExpiredReservations(db, ts, n) ==
    Page({r \in db.reservations :
             /\ r.status = "HELD" \/ r.status = "PARTIAL"
             /\ r.expires_at # NoTime
             /\ r.expires_at <= ts},
         LAMBDA r, s : r.expires_at < s.expires_at, n)

listReservations(db, owner, status, n) ==
    Page({r \in db.reservations :
             \E a \in AccountRows :
                /\ a.id = r.source_account_id
                /\ owner = "" \/ a.owner = owner
                /\ status = "" \/ r.status = status},
         LAMBDA r, s : \/ r.created_at > s.created_at
                       \/ r.created_at = s.created_at /\ r.id > s.id, n)

rowToReservation(r) ==
    [r EXCEPT !.expires_at = parseTime(@), !.created_at = parseTime(@)]

InsertReservation(db, r, now) ==
    insertReservation(db, [r EXCEPT !.expires_at = sqliteTimeFormat(@)],
                      sqliteTimeFormat(now))

ListExpiredReservations(db, now, limit) ==
    MapPage(listExpiredReservations(db, sqliteTimeFormat(now),
                                    IF limit <= 0 THEN 100 ELSE limit),
            LAMBDA r : r.id)

ListReservations(db, owner, status, limit) ==
    MapPage(listReservations(db, owner, status,
                             IF limit <= 0 \/ limit > 500 THEN 100 ELSE limit),
            rowToReservation)

-----------------------------------------------------------------------------
(* FX rates.                                                               *)

upsertFXRate(db, r) ==
    LET Same(x) == x.base = r.base /\ x.effective_at = r.effective_at /\ x.source = r.source
    IN  [db EXCEPT !.fx_rates =
            IF \E x \in @ : Same(x)
            THEN {IF Same(x) THEN [x EXCEPT !.rate = r.rate] ELSE x : x \in @}
            ELSE @ \cup {r}]

NewestRate(r, s) ==
    \/ r.effective_at > s.effective_at
    \/ r.effective_at = s.effective_at /\ r.id > s.id

getFXRateAt(db, base, ts) ==
    Page({r \in db.fx_rates : r.base = base /\ r.effective_at <= ts}, NewestRate, 1)

listFXRates(db, base, since, until, n) ==
    Page({r \in db.fx_rates :
             /\ r.base = base \/ base = ""
             /\ r.effective_at >= since \/ since = NoTime
             /\ r.effective_at <= until \/ until = NoTime},
         NewestRate, n)

rowToFXRate(r) == [r EXCEPT !.effective_at = parseTime(@)]

UpsertFXRate(db, r) == upsertFXRate(db, [r EXCEPT !.effective_at = sqliteTimeFormat(@)])

GetFXRateAt(db, base, at) ==
    MapPage(getFXRateAt(db, base, sqliteTimeFormat(at)), rowToFXRate)

ListFXRates(db, base, since, until, limit) ==
    MapPage(listFXRates(db, base, sqliteTimeFormat(since), sqliteTimeFormat(until),
                        IF limit <= 0 \/ limit > 500 THEN 100 ELSE limit),
            rowToFXRate)

-----------------------------------------------------------------------------
(* Snapshots.                                                              *)

insertSnapshot(db, s) == [db EXCEPT !.balance_snapshots = @ \cup {s}]

getLatestSnapshotBefore(db, account, ts) ==
    Page({s \in db.balance_snapshots : s.account_id = account /\ s.snapshot_at <= ts},
         LAMBDA s, t : \/ s.snapshot_at > t.snapshot_at
                       \/ s.snapshot_at = t.snapshot_at /\ s.id > t.id, 1)

listTenantsDueForSnapshot(db, cutoff, n) ==
    Page({a.tenant_id : a \in {b \in AccountRows :
             ~ \E s \in db.balance_snapshots :
                   s.tenant_id = b.tenant_id /\ s.snapshot_at > cutoff}},
         LAMBDA t, u : FALSE, n)

\* Mutant: a row is kept only while none is as new as it is.
pruneSnapshotsAsOld(db, cutoff, n) ==
    LET old == {s \in db.balance_snapshots :
                   /\ s.snapshot_at < cutoff
                   /\ \E t \in db.balance_snapshots \ {s} :
                         t.account_id = s.account_id /\ t.snapshot_at >= s.snapshot_at}
    IN  {ToSet(q) : q \in Page(old, LAMBDA s, t : FALSE, n)}

pruneSnapshotsOlderThan(db, cutoff, n) ==
    LET old == {s \in db.balance_snapshots :
                   /\ s.snapshot_at < cutoff
                   /\ \E t \in db.balance_snapshots :
                         t.account_id = s.account_id /\ t.snapshot_at > s.snapshot_at}
    IN  {ToSet(q) : q \in Page(old, LAMBDA s, t : FALSE, n)}

rowToSnapshot(s) == [s EXCEPT !.snapshot_at = parseTime(@)]

InsertSnapshot(db, s) == insertSnapshot(db, [s EXCEPT !.snapshot_at = sqliteTimeFormat(@)])

GetSnapshotBefore(db, account, at) ==
    MapPage(getLatestSnapshotBefore(db, account, sqliteTimeFormat(at)), rowToSnapshot)

ListTenantsDueForSnapshot(db, cutoff, limit) ==
    listTenantsDueForSnapshot(db, sqliteTimeFormat(cutoff),
                              IF limit <= 0 THEN 100 ELSE limit)

PruneSnapshotsOlderThan(db, cutoff, limit) ==
    {{s.id : s \in S} :
        S \in pruneSnapshotsOlderThan(db, sqliteTimeFormat(cutoff),
                                      IF limit <= 0 THEN 100 ELSE limit)}

-----------------------------------------------------------------------------
(* Journals and entries; created_at is the default of the columns.         *)

insertJournal(db, j, now) ==
    [db EXCEPT !.ledger_journals = @ \cup
        {[id |-> j.id, source_service |-> j.source_service,
          created_at |-> sqliteTimeFormat(now)]}]

insertEntry(db, e, now) ==
    [db EXCEPT !.ledger_entries = @ \cup
        {[id |-> e.id, journal_id |-> e.journal_id, account_id |-> e.account_id,
          direction |-> e.direction, amount |-> e.amount,
          created_at |-> sqliteTimeFormat(now)]}]

listAccountActivity(db, account, since, until, n) ==
    Page({e \in db.ledger_entries :
             /\ e.account_id = account
             /\ e.created_at >= since \/ since = NoTime
             /\ e.created_at <= until \/ until = NoTime},
         LAMBDA e, f : \/ e.created_at < f.created_at
                       \/ e.created_at = f.created_at /\ e.id < f.id, n)

sumEntriesBetween(db, account, after, until) ==
    LET S == {e \in db.ledger_entries :
                 e.account_id = account /\ e.created_at > after /\ e.created_at <= until}
    IN  RealSums(S, "DEBIT") \X RealSums(S, "CREDIT")

sumJournalEntries(db, journal, account) ==
    LET S == {e \in db.ledger_entries : e.journal_id = journal /\ e.account_id = account}
    IN  RealSums(S, "DEBIT") \X RealSums(S, "CREDIT")

listJournalsForRecon(db, source, start, end) ==
    Page({j \in db.ledger_journals :
             /\ j.source_service = source
             /\ j.created_at >= start
             /\ j.created_at <= end},
         LAMBDA j, k : j.created_at < k.created_at, Cardinality(db.ledger_journals))

rowToJournal(j) == [j EXCEPT !.created_at = parseTime(@)]

activityRow(e) == [e EXCEPT !.created_at = parseTime(@)]

ListAccountActivity(db, account, since, until, limit) ==
    MapPage(listAccountActivity(db, account, sqliteTimeFormat(since), sqliteTimeFormat(until),
                                IF limit <= 0 THEN 100 ELSE limit),
            activityRow)

SumEntriesBetween(db, account, after, until) ==
    sumEntriesBetween(db, account, sqliteTimeFormat(after), sqliteTimeFormat(until))

SumJournalEntries(db, journal, account) == sumJournalEntries(db, journal, account)

ListJournalsForRecon(db, source, start, end) ==
    MapPage(listJournalsForRecon(db, source, sqliteTimeFormat(start), sqliteTimeFormat(end)),
            rowToJournal)

-----------------------------------------------------------------------------
(* Outbox.                                                                 *)

insertOutbox(db, id, now) ==
    [db EXCEPT !.outbox_events = @ \cup
        {[id |-> id, publish_state |-> "PENDING", attempts |-> 0,
          created_at |-> sqliteTimeFormat(now)]}]

listPendingOutbox(db, n) ==
    Page({e \in db.outbox_events : e.publish_state = "PENDING"},
         LAMBDA e, f : e.created_at < f.created_at, n)

markOutboxPublished(db, id) ==
    [db EXCEPT !.outbox_events = Update(@, id, "publish_state", "PUBLISHED")]

incrementOutboxAttempts(db, id) ==
    [db EXCEPT !.outbox_events =
        {IF e.id = id THEN [e EXCEPT !.attempts = e.attempts + 1] ELSE e : e \in @}]

PendingOutbox(db, limit) ==
    MapPage(listPendingOutbox(db, IF limit <= 0 THEN 100 ELSE limit), LAMBDA e : e.id)

-----------------------------------------------------------------------------
(* Reconciliation.                                                         *)

insertExternalRecord(db, r) ==
    [db EXCEPT !.external_records =
        IF r.external_ref \in {x.external_ref : x \in @} THEN @
        ELSE @ \cup {[id |-> r.id, external_ref |-> r.external_ref,
                      occurred_at |-> r.occurred_at, match_status |-> "UNMATCHED"]}]

listExternalRecordsForRecon(db, start, end) ==
    Page({r \in db.external_records :
             /\ r.occurred_at >= start
             /\ r.occurred_at <= end
             /\ r.match_status = "UNMATCHED"},
         LAMBDA r, s : r.occurred_at < s.occurred_at, Cardinality(db.external_records))

updateExternalRecordMatch(db, id, status) ==
    [db EXCEPT !.external_records = Update(@, id, "match_status", status)]

insertDiscrepancy(db, d, now) ==
    [db EXCEPT !.discrepancies = @ \cup
        {[id |-> d.id, batch_id |-> d.batch_id, status |-> "OPEN",
          created_at |-> sqliteTimeFormat(now)]}]

resolveDiscrepancyRow(db, id, status) ==
    [db EXCEPT !.discrepancies = Update(@, id, "status", status)]

listDiscrepancies(db, batch, status, n) ==
    Page({d \in db.discrepancies :
             /\ d.batch_id = batch \/ batch = ""
             /\ d.status = status \/ status = ""},
         LAMBDA d, e : d.created_at > e.created_at, n)

rowToExternalRecord(r) == [r EXCEPT !.occurred_at = parseTime(@)]

rowToDiscrepancy(d) == [d EXCEPT !.created_at = parseTime(@)]

InsertExternalRecord(db, r) ==
    insertExternalRecord(db, [r EXCEPT !.occurred_at = sqliteTimeFormat(@)])

ListExternalRecordsForRecon(db, start, end) ==
    MapPage(listExternalRecordsForRecon(db, sqliteTimeFormat(start), sqliteTimeFormat(end)),
            rowToExternalRecord)

ListDiscrepancies(db, batch, status, limit) ==
    MapPage(listDiscrepancies(db, batch, status,
                              IF limit <= 0 \/ limit > 500 THEN 100 ELSE limit),
            rowToDiscrepancy)
=============================================================================
