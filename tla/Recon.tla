------------------------------- MODULE Recon -------------------------------
(***************************************************************************)
(* Reconciliation (run_reconciliation.go, recon/matcher.go,                *)
(* resolve_discrepancy.go, ingest_external_records.go) of one tenant and   *)
(* source on the SQL backends, whose transactions are serializable.        *)
(*                                                                         *)
(* External records and journals meet by reference: external_ref and       *)
(* event_id, each unique.  Amounts are reduced to whether they agree on    *)
(* the record's anchor account.  A batch has at most one discrepancy for a *)
(* reference; the counts of its summary are the sizes of the matcher's     *)
(* sets and are left out, and so are the outbox events, whose keys come    *)
(* from fresh ids.                                                         *)
(***************************************************************************)
EXTENDS Integers

CONSTANTS
    Refs,         \* external references and event ids
    Diverging,    \* references whose record and journal differ in amount
    BatchKeys,    \* idempotency keys of RunReconciliation
    Windows,      \* pairs <<window_start, window_end>> that callers ask for
    RcMaxTime     \* bound on the clock

ASSUME DivergingAssumption == Diverging \subseteq Refs
ASSUME WindowsAssumption == Windows \subseteq Nat \X Nat
ASSUME RcMaxTimeAssumption == RcMaxTime \in Nat \ {0}

VARIABLES
    now,
    journal,    \* created_at of the journal with this event id; 0 if there is none
    record,     \* the external record with this reference
    batches,    \* reconciliation_batches, by idempotency key
    disc        \* discrepancies, by batch and reference

rcvars == <<now, journal, record, batches, disc>>

NoRecord == [occurred |-> 0, status |-> "NONE"]
\* records and journals are history: what the window held when the batch ran.
NoBatch == [status |-> "NONE", records |-> {}, journals |-> {}]
NoDisc == [type |-> "NONE", status |-> "NONE", adjusted |-> {}]

RcInit ==
    /\ now = 1
    /\ journal = [r \in Refs |-> 0]
    /\ record = [r \in Refs |-> NoRecord]
    /\ batches = [k \in BatchKeys |-> NoBatch]
    /\ disc = [k \in BatchKeys |-> [r \in Refs |-> NoDisc]]

RcTick ==
    /\ now < RcMaxTime
    /\ now' = now + 1
    /\ UNCHANGED <<journal, record, batches, disc>>

\* Mutant: event_id is not unique.
EventUnchecked(e) == TRUE

EventIsFree(e) == journal[e] = 0

\* A flow of this source posts a journal.
PostJournal(r) ==
    /\ EventIsFree(r)
    /\ journal' = [journal EXCEPT ![r] = now]
    /\ UNCHANGED <<now, record, batches, disc>>

\* ON CONFLICT (tenant_id, source, external_ref) DO NOTHING
IsNew(r) == record[r].status = "NONE"

\* One record of IngestExternalRecords; each is inserted on its own, so that a
\* failure leaves the earlier ones.
InsertExternalRecord(r, occurred) ==
    /\ IsNew(r)
    /\ record' = [record EXCEPT ![r] = [occurred |-> occurred, status |-> "UNMATCHED"]]
    /\ UNCHANGED <<now, journal, batches, disc>>

-----------------------------------------------------------------------------
(* The matcher.                                                            *)

InWindow(t, w) == w[1] <= t /\ t <= w[2]

\* The records of the window, whatever their status.  (Mutant, as what the
\* matcher loads.)
AllRecordsIn(w) ==
    {r \in Refs : record[r].status # "NONE" /\ InWindow(record[r].occurred, w)}

ListExternalRecordsForRecon(w) ==
    {r \in Refs : record[r].status = "UNMATCHED" /\ InWindow(record[r].occurred, w)}

ListJournalsForRecon(w) ==
    {r \in Refs : journal[r] # 0 /\ InWindow(journal[r], w)}

\* Mutant: the amount is not compared.
Ignored(r) == TRUE

AmountAgrees(r) == r \notin Diverging

\* What recon.Run finds for a reference, given the references of the unmatched
\* records and of the journals it loaded.
Verdict(r, ext, jnl) ==
    CASE r \in ext /\ r \notin jnl -> "MISSING_IN_LEDGER"
      [] r \in ext /\ r \in jnl /\ ~ AmountAgrees(r) -> "AMOUNT_MISMATCH"
      [] r \in ext /\ r \in jnl /\ AmountAgrees(r) -> "MATCHED"
      [] r \notin ext /\ r \in jnl -> "MISSING_IN_EXTERNAL"
      [] OTHER -> "NONE"

\* UpdateExternalRecordMatch
StatusAfter(status, verdict) ==
    CASE verdict = "MATCHED" -> "MATCHED"
      [] verdict = "AMOUNT_MISMATCH" -> "MISMATCHED"
      [] OTHER -> status

\* Mutant: a record without a journal is left for the next run.
OnlyConflicts == {"AMOUNT_MISMATCH", "MISSING_IN_EXTERNAL"}

Reported == {"MISSING_IN_LEDGER", "AMOUNT_MISMATCH", "MISSING_IN_EXTERNAL"}

\* InsertDiscrepancy
Opened(verdict) ==
    IF verdict \in Reported THEN [type |-> verdict, status |-> "OPEN", adjusted |-> {}]
    ELSE NoDisc

\* RunReconciliation with a new key; with a used one it replays.
RunReconciliation(k, w) ==
    LET ext == ListExternalRecordsForRecon(w)
        jnl == ListJournalsForRecon(w)
    IN  /\ batches[k].status = "NONE"
        /\ record' = [r \in Refs |->
                        [record[r] EXCEPT !.status =
                            StatusAfter(record[r].status, Verdict(r, ext, jnl))]]
        /\ disc' = [disc EXCEPT ![k] = [r \in Refs |-> Opened(Verdict(r, ext, jnl))]]
        /\ batches' = [batches EXCEPT ![k] = [status |-> "COMPLETED", records |-> AllRecordsIn(w),
                                              journals |-> ListJournalsForRecon(w)]]
        /\ UNCHANGED <<now, journal>>

-----------------------------------------------------------------------------
(* ResolveDiscrepancy.                                                     *)

\* Mutant: only a discrepancy that does not exist is refused.
MayResolveAny(d) == d.status # "NONE"

\* LockDiscrepancy and the check of its status.
MayResolve(d) == d.status = "OPEN"

\* IGNORED, or RESOLVED without an adjustment.
Close(k, r, resolution) ==
    /\ MayResolve(disc[k][r])
    /\ disc' = [disc EXCEPT ![k][r] = [type |-> disc[k][r].type, status |-> resolution,
                                       adjusted |-> {}]]
    /\ UNCHANGED <<now, journal, record, batches>>

\* RESOLVED with an adjustment: a flow in the same transaction, whose journal
\* has an event id that the caller chose.  A used one fails the whole call.
Adjust(k, r, e) ==
    /\ MayResolve(disc[k][r])
    /\ EventIsFree(e)
    /\ journal' = [journal EXCEPT ![e] = now]
    /\ disc' = [disc EXCEPT ![k][r] = [type |-> disc[k][r].type, status |-> "RESOLVED",
                                       adjusted |-> {e}]]
    /\ UNCHANGED <<now, record, batches>>

RcNext ==
    \/ RcTick
    \/ \E r \in Refs : PostJournal(r)
    \/ \E r \in Refs : \E t \in 1 .. RcMaxTime : InsertExternalRecord(r, t)
    \/ \E k \in BatchKeys, w \in Windows : RunReconciliation(k, w)
    \/ \E k \in BatchKeys, r \in Refs :
          \/ \E resolution \in {"RESOLVED", "IGNORED"} : Close(k, r, resolution)
          \/ \E e \in Refs : Adjust(k, r, e)

RcSpec == RcInit /\ [][RcNext]_rcvars

-----------------------------------------------------------------------------
(* Correctness.                                                            *)

\* Every variable holds a value of its kind.
RcTypeOK ==
    /\ now \in 1 .. RcMaxTime
    /\ journal \in [Refs -> 0 .. RcMaxTime]
    /\ record \in [Refs -> [occurred : 0 .. RcMaxTime,
                            status : {"NONE", "UNMATCHED", "MATCHED", "MISMATCHED"}]]
    /\ batches \in [BatchKeys -> [status : {"NONE", "COMPLETED"}, records : SUBSET Refs,
                                  journals : SUBSET Refs]]
    /\ disc \in [BatchKeys -> [Refs -> [type : Reported \cup {"NONE"},
                                        status : {"NONE", "OPEN", "RESOLVED", "IGNORED"},
                                        adjusted : SUBSET Refs]]]

\* A record is MATCHED only with a journal of the same amount, MISMATCHED only
\* with one of another amount that some batch reported (Run's three branches
\* over all overlapping windows, late records and adjustments).
MatchesAreTrue ==
    \A r \in Refs :
        /\ record[r].status = "MATCHED" => journal[r] # 0 /\ r \notin Diverging
        /\ record[r].status = "MISMATCHED" =>
              /\ journal[r] # 0 /\ r \in Diverging
              /\ \E k \in BatchKeys : disc[k][r].type = "AMOUNT_MISMATCH"

\* A divergent amount is reported once, however many windows overlap and
\* however often the record is delivered again (match_status = 'UNMATCHED' in
\* ListExternalRecordsForRecon, DO NOTHING in InsertExternalRecord).
MismatchReportedOnce ==
    \A r \in Refs : \A j, k \in BatchKeys :
        disc[j][r].type = "AMOUNT_MISMATCH" /\ disc[k][r].type = "AMOUNT_MISMATCH" => j = k

\* Nothing that was in the window of a completed batch slips through: its
\* record is MATCHED or some batch reported it, and so is its journal.
NothingSlips ==
    \A k \in BatchKeys : \A r \in batches[k].records \cup batches[k].journals :
        record[r].status = "MATCHED" \/ \E j \in BatchKeys : disc[j][r].type # "NONE"

\* Two discrepancies are never resolved by the same journal (ResolveDiscrepancy
\* checks the status under the lock, event ids are unique).
AdjustedOnce ==
    \A j, k \in BatchKeys : \A q, r \in Refs :
        disc[j][q].adjusted \cap disc[k][r].adjusted # {} => j = k /\ q = r

\* What makes the four inductive: an unused batch has no discrepancies, a
\* mismatch is reported only for a MISMATCHED record (Run updates the record
\* with the discrepancy), and adjustments are journals.
BatchesAgree ==
    /\ \A k \in BatchKeys : batches[k].status = "NONE" =>
          batches[k] = NoBatch /\ \A r \in Refs : disc[k][r] = NoDisc
    /\ \A k \in BatchKeys, r \in Refs :
          /\ disc[k][r].type = "AMOUNT_MISMATCH" => record[r].status = "MISMATCHED"
          /\ \A e \in disc[k][r].adjusted : journal[e] # 0
          /\ disc[k][r].status = "NONE" <=> disc[k][r].type = "NONE"

RcInvariant == RcTypeOK /\ BatchesAgree /\ MatchesAreTrue

\* ResolveDiscrepancy takes a discrepancy from OPEN to RESOLVED or IGNORED
\* once; batches, also replayed ones, never reopen or drop one.
ResolutionIsFinal ==
    [][\A k \in BatchKeys, r \in Refs :
          disc[k][r].status \in {"RESOLVED", "IGNORED"} => disc'[k][r] = disc[k][r]]_rcvars
=============================================================================
