------------------------------- MODULE Stores -------------------------------
(***************************************************************************)
(* The three Stores behind one server, fed with the same writes.  The code *)
(* is written three times (internal/repo/crdb, sqlite, dynamo), each with  *)
(* its own queries and its own idea of an instant: CockroachDB keeps it,   *)
(* SQLite cuts it to the millisecond, DynamoDB sorts it as text.  The      *)
(* module asks what a caller can tell apart.                               *)
(***************************************************************************)
EXTENDS SqlRows

CONSTANTS
    AccountRows,    \* the accounts, with owner and tenant
    Whole,          \* the amount that is 1, in the units of amounts
    RealLimit,      \* SQLite's REAL has digits enough below it
    DigitValues,    \* what one counts in each digit of a fraction of Unit
    MaxTime,        \* bound on the clock and on the times clients give
    Ids,            \* ids of rows, given out in any order (NewID is random)
    Limits          \* page sizes clients ask for

\* CreateAccount makes an account's id of its owner.
ASSUME AccountRowsAssumption ==
    \A a, b \in AccountRows : a.id = b.id => a.owner = b.owner
ASSUME BoundsAssumption ==
    /\ MaxTime \in Nat /\ Ids \subseteq Nat /\ Limits \subseteq Int
    /\ Whole \in Nat \ {0} /\ RealLimit \in Int
    /\ {1, Unit} \subseteq DigitValues /\ DigitValues \subseteq Nat \ {0}

Crdb == INSTANCE CrdbStore
Sqlite == INSTANCE SqliteStore
Dynamo == INSTANCE DynamoStore

VARIABLES
    crdb, sqlite, dynamo,   \* the databases
    rounded,    \* a CockroachDB that is given whole milliseconds only
    puts,       \* every PutFXRate so far
    now,        \* the clock
    subject     \* the part of the schema this history is about

vars == <<crdb, sqlite, dynamo, rounded, puts, now, subject>>

Instants == 0 .. MaxTime
Filters == Instants \cup {NoTime}
Accounts == {a.id : a \in AccountRows}
Owners == {a.owner : a \in AccountRows}
Statuses == {"HELD", "PARTIAL", "COMMITTED"}

\* Not an instant of the server: the millisecond an instant lies in.
Round(t) == IF t = NoTime THEN NoTime ELSE Unit * (t \div Unit)

Init ==
    /\ crdb = Crdb!Tables
    /\ rounded = Crdb!Tables
    /\ sqlite = Sqlite!Tables
    /\ dynamo = Dynamo!Items
    /\ puts = <<>>
    /\ now = 0
    /\ subject \in {"reservations", "rates", "snapshots", "entries", "outbox", "recon"}

IdsOf(rows) == {r.id : r \in rows}

Tick ==
    /\ now < MaxTime
    /\ now' = now + 1
    /\ UNCHANGED <<crdb, sqlite, dynamo, rounded, puts, subject>>

\* Tx.InsertReservation, as CreateReservation calls it.
CreateReservation(id, a, expires) ==
    LET r == [id |-> id, source_account_id |-> a, status |-> "HELD",
              expires_at |-> expires, created_at |-> now]
    IN  /\ subject = "reservations"
        /\ id \notin IdsOf(crdb.reservations)
        /\ crdb' = Crdb!insertReservation(crdb, r, now)
        /\ rounded' = Crdb!insertReservation(
                          rounded, [r EXCEPT !.expires_at = Round(expires)], Round(now))
        /\ sqlite' = Sqlite!InsertReservation(sqlite, r, now)
        /\ dynamo' = Dynamo!PutReservation(dynamo, r)
        /\ UNCHANGED <<puts, now, subject>>

\* Tx.UpdateReservationAmounts, as the transitions call it.
UpdateReservation(r, status) ==
    /\ subject = "reservations"
    /\ r.status \in {"HELD", "PARTIAL"} /\ status # "HELD"
    /\ crdb' = Crdb!updateReservationAmounts(crdb, r.id, status)
    /\ rounded' = Crdb!updateReservationAmounts(rounded, r.id, status)
    /\ sqlite' = Sqlite!updateReservationAmounts(sqlite, r.id, status)
    /\ dynamo' = Dynamo!PutReservation(dynamo, [r EXCEPT !.status = status])
    /\ UNCHANGED <<puts, now, subject>>

\* Store.UpsertFXRate, as PutFXRate calls it.
PutFXRate(id, source, rate, effective) ==
    LET r == [id |-> id, base |-> "EUR", source |-> source, rate |-> rate,
              effective_at |-> effective]
    IN  /\ subject = "rates"
        /\ id \notin {puts[i].id : i \in DOMAIN puts}
        /\ crdb' = Crdb!UpsertFXRate(crdb, r)
        /\ rounded' = Crdb!UpsertFXRate(rounded, [r EXCEPT !.effective_at = Round(@)])
        /\ sqlite' = Sqlite!UpsertFXRate(sqlite, r)
        /\ puts' = Append(puts, r)
        /\ UNCHANGED <<dynamo, now, subject>>

\* Store.InsertSnapshot, as TakeBalanceSnapshot calls it.
InsertSnapshot(id, a) ==
    LET s == [id |-> id, tenant_id |-> a.tenant_id, account_id |-> a.id, snapshot_at |-> now]
    IN  /\ subject = "snapshots"
        /\ id \notin IdsOf(crdb.balance_snapshots)
        /\ crdb' = Crdb!insertSnapshot(crdb, s)
        /\ rounded' = Crdb!insertSnapshot(rounded, [s EXCEPT !.snapshot_at = Round(@)])
        /\ sqlite' = Sqlite!InsertSnapshot(sqlite, s)
        /\ UNCHANGED <<dynamo, puts, now, subject>>

\* Tx.InsertJournal and InsertEntry of its two entries, in one transaction.
PostJournal(id, a, b, x) ==
    LET j == [id |-> id, source_service |-> "bank"]
        E(k, account, dir) ==
            [id |-> 10 * id + k, journal_id |-> id, account_id |-> account,
             direction |-> dir, amount |-> x]
        d == E(1, a, "DEBIT")
        c == E(2, b, "CREDIT")
    IN  /\ subject = "entries"
        /\ id \notin IdsOf(crdb.ledger_journals)
        /\ crdb' = Crdb!insertEntry(Crdb!insertEntry(
                      Crdb!insertJournal(crdb, j, now), d, now), c, now)
        /\ rounded' = Crdb!insertEntry(Crdb!insertEntry(
                         Crdb!insertJournal(rounded, j, Round(now)), d, Round(now)), c, Round(now))
        /\ sqlite' = Sqlite!insertEntry(Sqlite!insertEntry(
                        Sqlite!insertJournal(sqlite, j, now), d, now), c, now)
        /\ UNCHANGED <<dynamo, puts, now, subject>>

InsertOutbox(id) ==
    /\ subject = "outbox"
    /\ id \notin IdsOf(crdb.outbox_events)
    /\ crdb' = Crdb!insertOutbox(crdb, id, now)
    /\ rounded' = Crdb!insertOutbox(rounded, id, Round(now))
    /\ sqlite' = Sqlite!insertOutbox(sqlite, id, now)
    /\ dynamo' = Dynamo!InsertOutbox(dynamo, id, now)
    /\ UNCHANGED <<puts, now, subject>>

\* The dispatcher marks what it published, and counts what it could not.
MarkOutboxPublished(e) ==
    /\ subject = "outbox"
    /\ e.publish_state = "PENDING"
    /\ crdb' = Crdb!markOutboxPublished(crdb, e.id)
    /\ rounded' = Crdb!markOutboxPublished(rounded, e.id)
    /\ sqlite' = Sqlite!markOutboxPublished(sqlite, e.id)
    /\ dynamo' = Dynamo!MarkOutboxPublished(dynamo, e.id)
    /\ UNCHANGED <<puts, now, subject>>

IncrementOutboxAttempts(e) ==
    /\ subject = "outbox"
    /\ e.publish_state = "PENDING" /\ e.attempts = 0
    /\ crdb' = Crdb!incrementOutboxAttempts(crdb, e.id)
    /\ rounded' = Crdb!incrementOutboxAttempts(rounded, e.id)
    /\ sqlite' = Sqlite!incrementOutboxAttempts(sqlite, e.id)
    /\ dynamo' = Dynamo!IncrementOutboxAttempts(dynamo, e.id)
    /\ UNCHANGED <<puts, now, subject>>

\* Store.InsertExternalRecord; the same reference may come twice.
IngestRecord(id, ref, occurred) ==
    LET r == [id |-> id, external_ref |-> ref, occurred_at |-> occurred]
    IN  /\ subject = "recon"
        /\ id \notin IdsOf(crdb.external_records) \cup IdsOf(crdb.discrepancies)
        /\ crdb' = Crdb!insertExternalRecord(crdb, r)
        /\ rounded' = Crdb!insertExternalRecord(rounded, [r EXCEPT !.occurred_at = Round(@)])
        /\ sqlite' = Sqlite!InsertExternalRecord(sqlite, r)
        /\ UNCHANGED <<dynamo, puts, now, subject>>

\* A batch matches a record, or opens a discrepancy for it.
MatchRecord(r) ==
    /\ subject = "recon"
    /\ r.match_status = "UNMATCHED"
    /\ crdb' = Crdb!updateExternalRecordMatch(crdb, r.id, "MATCHED")
    /\ rounded' = Crdb!updateExternalRecordMatch(rounded, r.id, "MATCHED")
    /\ sqlite' = Sqlite!updateExternalRecordMatch(sqlite, r.id, "MATCHED")
    /\ UNCHANGED <<dynamo, puts, now, subject>>

OpenDiscrepancy(id, batch) ==
    LET d == [id |-> id, batch_id |-> batch]
    IN  /\ subject = "recon"
        /\ id \notin IdsOf(crdb.external_records) \cup IdsOf(crdb.discrepancies)
        /\ crdb' = Crdb!insertDiscrepancy(crdb, d, now)
        /\ rounded' = Crdb!insertDiscrepancy(rounded, d, Round(now))
        /\ sqlite' = Sqlite!insertDiscrepancy(sqlite, d, now)
        /\ UNCHANGED <<dynamo, puts, now, subject>>

ResolveDiscrepancy(d) ==
    /\ subject = "recon"
    /\ d.status = "OPEN"
    /\ crdb' = Crdb!resolveDiscrepancyRow(crdb, d.id, "RESOLVED")
    /\ rounded' = Crdb!resolveDiscrepancyRow(rounded, d.id, "RESOLVED")
    /\ sqlite' = Sqlite!resolveDiscrepancyRow(sqlite, d.id, "RESOLVED")
    /\ UNCHANGED <<dynamo, puts, now, subject>>

Next ==
    \/ Tick
    \/ \E r \in crdb.reservations, s \in Statuses : UpdateReservation(r, s)
    \/ \E e \in crdb.outbox_events : MarkOutboxPublished(e) \/ IncrementOutboxAttempts(e)
    \/ \E r \in crdb.external_records : MatchRecord(r)
    \/ \E d \in crdb.discrepancies : ResolveDiscrepancy(d)
    \/ \E id \in Ids :
          \/ \E a \in Accounts, t \in Filters : CreateReservation(id, a, t)
          \/ \E s \in {"ecb", "desk"}, v \in 1 .. 2, t \in Instants : PutFXRate(id, s, v, t)
          \/ \E a \in AccountRows : InsertSnapshot(id, a)
          \/ \E a, b \in Accounts, x \in 1 .. 2 : PostJournal(id, a, b, x)
          \/ InsertOutbox(id)
          \/ \E ref \in {"r1", "r2"}, t \in Instants : IngestRecord(id, ref, t)
          \/ \E b \in {"b1", "b2"} : OpenDiscrepancy(id, b)

Spec == Init /\ [][Next]_vars

-----------------------------------------------------------------------------
(* Correctness.                                                            *)

\* The open reservations of an owner.
ActiveOf(owner) ==
    {r \in crdb.reservations :
        /\ r.status \in {"HELD", "PARTIAL"}
        /\ \E a \in AccountRows : a.id = r.source_account_id /\ a.owner = owner}

\* The default of ListReservations.
WalletPage(n) == IF n <= 0 \/ n > 500 THEN 100 ELSE n

\* Every list method of the Store.  DynamoDB's ListReservations filters by
\* status what it has read: it gives the same reservations as long as they fit
\* in a page and the owner's open ones in the three pages that it reads.
ReservationsAgree ==
    /\ \A t \in Instants, n \in Limits :
          Sqlite!ListExpiredReservations(sqlite, t, n)
            = Crdb!ListExpiredReservations(rounded, Round(t), n)
    /\ \A o \in Owners \cup {""}, s \in Statuses \cup {""}, n \in Limits :
          Sqlite!ListReservations(sqlite, o, s, n) = Crdb!ListReservations(rounded, o, s, n)
    /\ \A o \in Owners \ {""}, s \in {"HELD", "PARTIAL"}, n \in Limits :
          (/\ Cardinality(ActiveOf(o)) <= 3 * WalletPage(n)
           /\ Cardinality({r \in ActiveOf(o) : r.status = s}) <= WalletPage(n)) =>
              \A p \in Crdb!ListReservations(crdb, o, s, n),
                 q \in Dynamo!ListReservations(dynamo, o, s, n) :
                    {p[i].id : i \in DOMAIN p} = ToSet(q)

RatesAgree ==
    /\ \A t \in Instants :
          Sqlite!GetFXRateAt(sqlite, "EUR", t) = Crdb!GetFXRateAt(rounded, "EUR", Round(t))
    /\ \A b \in {"EUR", "USD", ""}, t, u \in Filters, n \in Limits :
          Sqlite!ListFXRates(sqlite, b, t, u, n)
            = Crdb!ListFXRates(rounded, b, Round(t), Round(u), n)

SnapshotsAgree ==
    \A t \in Instants :
        /\ \A a \in Accounts :
              Sqlite!GetSnapshotBefore(sqlite, a, t) = Crdb!GetSnapshotBefore(rounded, a, Round(t))
        /\ \A n \in Limits :
              /\ Sqlite!ListTenantsDueForSnapshot(sqlite, t, n)
                   = Crdb!ListTenantsDueForSnapshot(rounded, Round(t), n)
              /\ Sqlite!PruneSnapshotsOlderThan(sqlite, t, n)
                   = Crdb!PruneSnapshotsOlderThan(rounded, Round(t), n)

\* A pair of sums that SQLite may answer with, where the exact one is c: right
\* to a digit per entry, and exact if all the amounts are whole.
SumsAreClose(s, c) ==
    \A i \in 1 .. 2 :
        LET n == Cardinality(sqlite.ledger_entries)
        IN  /\ c[i] - n <= s[i] /\ s[i] <= c[i] + n
            /\ (/\ c[i] < RealLimit
                /\ \A e \in sqlite.ledger_entries : e.amount % Whole = 0)
                  => s[i] = c[i]

EntriesAgree ==
    /\ \A a \in Accounts, t, u \in Filters, n \in Limits :
          Sqlite!ListAccountActivity(sqlite, a, t, u, n)
            = Crdb!ListAccountActivity(rounded, a, Round(t), Round(u), n)
    /\ \A a \in Accounts, t, u \in Instants :
          \A s \in Sqlite!SumEntriesBetween(sqlite, a, t, u) :
             SumsAreClose(s, Crdb!SumEntriesBetween(rounded, a, Round(t), Round(u)))
    /\ \A a \in Accounts, j \in IdsOf(crdb.ledger_journals) :
          \A s \in Sqlite!SumJournalEntries(sqlite, j, a) :
             SumsAreClose(s, Crdb!SumJournalEntries(rounded, j, a))
    /\ \A s \in {"bank", "card"}, t, u \in Instants :
          Sqlite!ListJournalsForRecon(sqlite, s, t, u)
            = Crdb!ListJournalsForRecon(rounded, s, Round(t), Round(u))

ReconAgrees ==
    /\ \A t, u \in Instants :
          Sqlite!ListExternalRecordsForRecon(sqlite, t, u)
            = Crdb!ListExternalRecordsForRecon(rounded, Round(t), Round(u))
    /\ \A b \in {"b1", "b2", ""}, s \in {"OPEN", "RESOLVED", ""}, n \in Limits :
          Sqlite!ListDiscrepancies(sqlite, b, s, n) = Crdb!ListDiscrepancies(rounded, b, s, n)

\* The code is written once per database and must mean the same: SQLite gives
\* the answers that CockroachDB would give if clocks and clients only knew
\* whole milliseconds, to every query of the Store (but for the last digits of
\* REAL sums, which add the same entries), and the open reservations of an
\* owner are the same on DynamoDB.
StoresAgree ==
    /\ subject = "reservations" => ReservationsAgree
    /\ subject = "rates" => RatesAgree
    /\ subject = "snapshots" => SnapshotsAgree
    /\ subject = "entries" => EntriesAgree
    /\ subject = "recon" => ReconAgrees
    /\ subject = "outbox" =>
          \A n \in Limits : Sqlite!PendingOutbox(sqlite, n) = Crdb!PendingOutbox(rounded, n)

\* The limit that the listings below go by.
PageSize(n) == IF n <= 0 THEN 100 ELSE n

Due(r, t) ==
    r.status \in {"HELD", "PARTIAL"} /\ r.expires_at # NoTime /\ r.expires_at <= t

\* An answer of ListExpiredReservations at time t, where instants closer than
\* u cannot be told apart: nothing is listed u too early, and what is left out
\* is not overdue by u, or the page is full of what expired earlier.
ExpiryIsTimely(list, t, n, u) ==
    LET row(id) == CHOOSE r \in crdb.reservations : r.id = id
        listed == {row(id) : id \in ToSet(list)}
    IN  /\ \A r \in listed : Due(r, t + u - 1)
        /\ \A r \in crdb.reservations \ listed :
              Due(r, t - u) => /\ Len(list) = PageSize(n)
                               /\ \A s \in listed : s.expires_at < r.expires_at + u

\* An answer of GetFXRateAt at time t is a rate as it was last put, not yet
\* superseded at t by one put for u later; no answer means there is none.
RateIsInForce(page, t, u) ==
    LET LastPut(i) == \A k \in DOMAIN puts :
                         (k > i /\ puts[k].source = puts[i].source)
                          => puts[k].effective_at # puts[i].effective_at
    IN  IF page = <<>> THEN \A i \in DOMAIN puts : puts[i].effective_at > t
        ELSE \E i \in DOMAIN puts :
                /\ puts[i].rate = page[1].rate /\ puts[i].source = page[1].source
                /\ LastPut(i)
                /\ puts[i].effective_at < t + u
                /\ \A k \in DOMAIN puts :
                      puts[k].effective_at <= t => puts[k].effective_at < puts[i].effective_at + u

\* An answer of PendingOutbox is the oldest unpublished events in order.
OldestFirst(list, n, u) ==
    LET at(id) == (CHOOSE e \in crdb.outbox_events : e.id = id).created_at
        pending == {e.id : e \in {f \in crdb.outbox_events : f.publish_state = "PENDING"}}
    IN  /\ ToSet(list) \subseteq pending
        /\ \A i, j \in DOMAIN list : i < j => at(list[i]) < at(list[j]) + u
        /\ \A id \in pending \ ToSet(list) :
              /\ Len(list) = PageSize(n)
              /\ \A i \in DOMAIN list : at(list[i]) < at(id) + u

\* What a backend does to instants shifts an answer by less than one of its
\* own units, on every backend: expiry is neither early nor late by more, an
\* exchange gets a rate in force, and events leave in the order they came.
\* (expiryTick passes every id it lists to ExpireReservation, which does not
\* look at the time again.)
RightUpToResolution ==
    /\ \A t \in Instants, n \in Limits :
          /\ \A l \in Crdb!ListExpiredReservations(crdb, t, n) : ExpiryIsTimely(l, t, n, 1)
          /\ \A l \in Sqlite!ListExpiredReservations(sqlite, t, n) : ExpiryIsTimely(l, t, n, Unit)
          /\ \A l \in Dynamo!ListExpiredReservations(dynamo, t, n) : ExpiryIsTimely(l, t, n, Unit)
    /\ \A t \in Instants :
          /\ \A p \in Crdb!GetFXRateAt(crdb, "EUR", t) : RateIsInForce(p, t, 1)
          /\ \A p \in Sqlite!GetFXRateAt(sqlite, "EUR", t) : RateIsInForce(p, t, Unit)
    /\ \A n \in Limits :
          /\ \A l \in Crdb!PendingOutbox(crdb, n) : OldestFirst(l, n, 1)
          /\ \A l \in Sqlite!PendingOutbox(sqlite, n) : OldestFirst(l, n, Unit)
          /\ \A l \in Dynamo!PendingOutbox(dynamo, n) : OldestFirst(l, n, Unit)
=============================================================================
