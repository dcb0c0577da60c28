------------------------------ MODULE SqlRows ------------------------------
(***************************************************************************)
(* What the queries of both SQL dialects share: pages, sums and time.      *)
(*                                                                         *)
(* An instant is a number of ticks, Unit of them to the smallest step that *)
(* a backend's time text tells apart (a millisecond in SQLite's columns, a *)
(* second in DynamoDB's sort keys).                                        *)
(***************************************************************************)
EXTENDS Integers, FiniteSets, SequencesExt

CONSTANT Unit    \* ticks per step of a time text

ASSUME UnitAssumption == Unit \in Nat \ {0}

\* A NULL time, and an absent filter.
NoTime == -1

\* LIMIT n.
Limit(q, n) == SubSeq(q, 1, IF n < Len(q) THEN n ELSE Len(q))

\* SELECT ... ORDER BY ... LIMIT n: the answers SQL allows, for the pairs of
\* rows that the order tells apart.  Other rows may come in any order, and the
\* limit may cut between them.
PageBy(S, before, n) ==
    LET Sorted(q) == \A i, j \in DOMAIN q : i < j => <<q[j], q[i]>> \notin before
    IN  {Limit(q, n) : q \in {p \in SetToSeqs(S) : Sorted(p)}}

Page(S, Before(_, _), n) == PageBy(S, {p \in S \X S : Before(p[1], p[2])}, n)

\* The same page of the rows as the Store returns them.
MapPage(pages, Convert(_)) == {[i \in DOMAIN q |-> Convert(q[i])] : q \in pages}

SumOf(S, dir) ==
    SumFunctionOnSet([e \in S |-> IF e.direction = dir THEN e.amount ELSE 0], S)

\* UPDATE ... SET field = v WHERE id = k.
Update(S, k, field, v) ==
    {IF r.id = k THEN [r EXCEPT ![field] = v] ELSE r : r \in S}

EmptyTables ==
    [reservations |-> {}, fx_rates |-> {}, balance_snapshots |-> {},
     ledger_entries |-> {}, ledger_journals |-> {}, outbox_events |-> {},
     external_records |-> {}, discrepancies |-> {}]
=============================================================================
