----------------------------- MODULE CrdbStore -----------------------------
(***************************************************************************)
(* The statements of internal/repo/crdb on a database db: the queries sqlc *)
(* generates from sql/queries/crdb (names in lower case, as the Go         *)
(* constants) and the Store and Tx methods that call them.  TIMESTAMPTZ    *)
(* columns keep the instants they are given, to the microsecond.  The rows *)
(* belong to one tenant, except for snapshots; only columns that a query   *)
(* filters or sorts by, or a sum adds up, are kept.                        *)
(***************************************************************************)
EXTENDS SqlRows

CONSTANT AccountRows    \* rows of accounts

\* The tables of gen/crdb/models.go that the queries below read.
Tables == EmptyTables

\* timestamptzToTime, timestamptzToTimePtr: a NULL time is the zero time.
timestamptzToTime(ts) == ts

-----------------------------------------------------------------------------
(* Reservations.                                                           *)

insertReservation(db, r, now) ==
    [db EXCEPT !.reservations = @ \cup
        {[id |-> r.id, source_account_id |-> r.source_account_id, status |-> r.status,
          expires_at |-> r.expires_at, created_at |-> now]}]

updateReservationAmounts(db, id, status) ==
    [db EXCEPT !.reservations = Update(@, id, "status", status)]

\* FOR UPDATE SKIP LOCKED outside a transaction locks nothing for longer than
\* the query.
listExpiredReservations(db, at, n) ==
    Page({r \in db.reservations :
             /\ r.status \in {"HELD", "PARTIAL"}
             /\ r.expires_at # NoTime
             /\ r.expires_at <= at},
         LAMBDA r, s : r.expires_at < s.expires_at, n)

listReservations(db, owner, status, n) ==
    Page({r \in db.reservations :
             \E a \in AccountRows :
                /\ a.id = r.source_account_id
                /\ a.owner = owner \/ owner = ""
                /\ r.status = status \/ status = ""},
         LAMBDA r, s : \/ r.created_at > s.created_at
                       \/ r.created_at = s.created_at /\ r.id > s.id, n)

rowToReservation(r) ==
    [r EXCEPT !.expires_at = timestamptzToTime(@), !.created_at = timestamptzToTime(@)]

ListExpiredReservations(db, now, limit) ==
    MapPage(listExpiredReservations(db, now, IF limit <= 0 THEN 100 ELSE limit),
            LAMBDA r : r.id)

ListReservations(db, owner, status, limit) ==
    MapPage(listReservations(db, owner, status,
                             IF limit <= 0 \/ limit > 500 THEN 100 ELSE limit),
            rowToReservation)

-----------------------------------------------------------------------------
(* FX rates.                                                               *)

\* ON CONFLICT (..., effective_at, source) DO UPDATE SET rate: the row keeps
\* its id.
upsertFXRate(db, r) ==
    LET same == {x \in db.fx_rates : /\ x.base = r.base
                                     /\ x.effective_at = r.effective_at
                                     /\ x.source = r.source}
    IN  [db EXCEPT !.fx_rates =
            IF same = {} THEN @ \cup {r}
            ELSE (@ \ same) \cup {[x EXCEPT !.rate = r.rate] : x \in same}]

NewestRate(r, s) ==
    \/ r.effective_at > s.effective_at
    \/ r.effective_at = s.effective_at /\ r.id > s.id

getFXRateAt(db, base, at) ==
    Page({r \in db.fx_rates : r.base = base /\ r.effective_at <= at}, NewestRate, 1)

listFXRates(db, base, since, until, n) ==
    Page({r \in db.fx_rates :
             /\ base = "" \/ r.base = base
             /\ since = NoTime \/ r.effective_at >= since
             /\ until = NoTime \/ r.effective_at <= until},
         NewestRate, n)

rowToFXRate(r) == [r EXCEPT !.effective_at = timestamptzToTime(@)]

UpsertFXRate(db, r) == upsertFXRate(db, r)

GetFXRateAt(db, base, at) == MapPage(getFXRateAt(db, base, at), rowToFXRate)

ListFXRates(db, base, since, until, limit) ==
    MapPage(listFXRates(db, base, since, until,
                        IF limit <= 0 \/ limit > 500 THEN 100 ELSE limit),
            rowToFXRate)

-----------------------------------------------------------------------------
(* Snapshots.                                                              *)

insertSnapshot(db, s) == [db EXCEPT !.balance_snapshots = @ \cup {s}]

getLatestSnapshotBefore(db, account, at) ==
    Page({s \in db.balance_snapshots : s.account_id = account /\ s.snapshot_at <= at},
         LAMBDA s, t : \/ s.snapshot_at > t.snapshot_at
                       \/ s.snapshot_at = t.snapshot_at /\ s.id > t.id, 1)

\* SELECT DISTINCT without an order: any tenants, up to the limit.
listTenantsDueForSnapshot(db, cutoff, n) ==
    Page({a.tenant_id : a \in {b \in AccountRows :
             ~ \E s \in db.balance_snapshots :
                   s.tenant_id = b.tenant_id /\ s.snapshot_at > cutoff}},
         LAMBDA t, u : FALSE, n)

\* DELETE ... WHERE id IN (SELECT ... LIMIT n): the sets of rows it may delete.
pruneSnapshotsOlderThan(db, cutoff, n) ==
    LET old == {s \in db.balance_snapshots :
                   /\ s.snapshot_at < cutoff
                   /\ \E t \in db.balance_snapshots :
                         t.account_id = s.account_id /\ t.snapshot_at > s.snapshot_at}
    IN  {ToSet(q) : q \in Page(old, LAMBDA s, t : FALSE, n)}

rowToSnapshot(s) == [s EXCEPT !.snapshot_at = timestamptzToTime(@)]

GetSnapshotBefore(db, account, at) ==
    MapPage(getLatestSnapshotBefore(db, account, at), rowToSnapshot)

ListTenantsDueForSnapshot(db, cutoff, limit) ==
    listTenantsDueForSnapshot(db, cutoff, IF limit <= 0 THEN 100 ELSE limit)

PruneSnapshotsOlderThan(db, cutoff, limit) ==
    {{s.id : s \in S} :
        S \in pruneSnapshotsOlderThan(db, cutoff, IF limit <= 0 THEN 100 ELSE limit)}

-----------------------------------------------------------------------------
(* Journals and entries.                                                   *)

insertJournal(db, j, now) ==
    [db EXCEPT !.ledger_journals = @ \cup
        {[id |-> j.id, source_service |-> j.source_service, created_at |-> now]}]

insertEntry(db, e, now) ==
    [db EXCEPT !.ledger_entries = @ \cup
        {[id |-> e.id, journal_id |-> e.journal_id, account_id |-> e.account_id,
          direction |-> e.direction, amount |-> e.amount, created_at |-> now]}]

listAccountActivity(db, account, since, until, n) ==
    Page({e \in db.ledger_entries :
             /\ e.account_id = account
             /\ since = NoTime \/ e.created_at >= since
             /\ until = NoTime \/ e.created_at <= until},
         LAMBDA e, f : \/ e.created_at < f.created_at
                       \/ e.created_at = f.created_at /\ e.id < f.id, n)

sumEntriesBetween(db, account, after, until) ==
    LET S == {e \in db.ledger_entries :
                 e.account_id = account /\ e.created_at > after /\ e.created_at <= until}
    IN  <<SumOf(S, "DEBIT"), SumOf(S, "CREDIT")>>

sumJournalEntries(db, journal, account) ==
    LET S == {e \in db.ledger_entries : e.journal_id = journal /\ e.account_id = account}
    IN  <<SumOf(S, "DEBIT"), SumOf(S, "CREDIT")>>

listJournalsForRecon(db, source, start, end) ==
    Page({j \in db.ledger_journals :
             /\ j.source_service = source
             /\ j.created_at >= start
             /\ j.created_at <= end},
         LAMBDA j, k : j.created_at < k.created_at, Cardinality(db.ledger_journals))

rowToJournal(j) == [j EXCEPT !.created_at = timestamptzToTime(@)]

activityRow(e) == [e EXCEPT !.created_at = timestamptzToTime(@)]

ListAccountActivity(db, account, since, until, limit) ==
    MapPage(listAccountActivity(db, account, since, until,
                                IF limit <= 0 THEN 100 ELSE limit),
            activityRow)

SumEntriesBetween(db, account, after, until) == sumEntriesBetween(db, account, after, until)

SumJournalEntries(db, journal, account) == sumJournalEntries(db, journal, account)

ListJournalsForRecon(db, source, start, end) ==
    MapPage(listJournalsForRecon(db, source, start, end), rowToJournal)

-----------------------------------------------------------------------------
(* Outbox.                                                                 *)

insertOutbox(db, id, now) ==
    [db EXCEPT !.outbox_events = @ \cup
        {[id |-> id, publish_state |-> "PENDING", attempts |-> 0, created_at |-> now]}]

listPendingOutbox(db, n) ==
    Page({e \in db.outbox_events : e.publish_state = "PENDING"},
         LAMBDA e, f : e.created_at < f.created_at, n)

markOutboxPublished(db, id) ==
    [db EXCEPT !.outbox_events = Update(@, id, "publish_state", "PUBLISHED")]

incrementOutboxAttempts(db, id) ==
    [db EXCEPT !.outbox_events =
        {IF e.id = id THEN [e EXCEPT !.attempts = e.attempts + 1] ELSE e : e \in @}]

PendingOutbox(db, limit) ==
    MapPage(listPendingOutbox(db, IF limit <= 0 THEN 100 ELSE limit), LAMBDA e : e.id)

-----------------------------------------------------------------------------
(* Reconciliation.                                                         *)

\* ON CONFLICT (tenant_id, source, external_ref) DO NOTHING.
insertExternalRecord(db, r) ==
    [db EXCEPT !.external_records =
        IF \E x \in @ : x.external_ref = r.external_ref THEN @
        ELSE @ \cup {[id |-> r.id, external_ref |-> r.external_ref,
                      occurred_at |-> r.occurred_at, match_status |-> "UNMATCHED"]}]

listExternalRecordsForRecon(db, start, end) ==
    Page({r \in db.external_records :
             /\ r.occurred_at >= start
             /\ r.occurred_at <= end
             /\ r.match_status = "UNMATCHED"},
         LAMBDA r, s : r.occurred_at < s.occurred_at, Cardinality(db.external_records))

updateExternalRecordMatch(db, id, status) ==
    [db EXCEPT !.external_records = Update(@, id, "match_status", status)]

insertDiscrepancy(db, d, now) ==
    [db EXCEPT !.discrepancies = @ \cup
        {[id |-> d.id, batch_id |-> d.batch_id, status |-> "OPEN", created_at |-> now]}]

resolveDiscrepancyRow(db, id, status) ==
    [db EXCEPT !.discrepancies = Update(@, id, "status", status)]

listDiscrepancies(db, batch, status, n) ==
    Page({d \in db.discrepancies :
             /\ batch = "" \/ d.batch_id = batch
             /\ status = "" \/ d.status = status},
         LAMBDA d, e : d.created_at > e.created_at, n)

rowToExternalRecord(r) == [r EXCEPT !.occurred_at = timestamptzToTime(@)]

rowToDiscrepancy(d) == [d EXCEPT !.created_at = timestamptzToTime(@)]

ListExternalRecordsForRecon(db, start, end) ==
    MapPage(listExternalRecordsForRecon(db, start, end), rowToExternalRecord)

ListDiscrepancies(db, batch, status, limit) ==
    MapPage(listDiscrepancies(db, batch, status,
                              IF limit <= 0 \/ limit > 500 THEN 100 ELSE limit),
            rowToDiscrepancy)
=============================================================================
