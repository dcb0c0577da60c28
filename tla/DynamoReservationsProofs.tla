---------------------- MODULE DynamoReservationsProofs ----------------------
(***************************************************************************)
(* The optimistic reservation handlers implement the atomic ones, for any  *)
(* number of handlers, reservations, keys and amounts.  VersionsTell is    *)
(* the inductive invariant.  What ReservationsProofs has of the atomic     *)
(* specification then holds here too.                                      *)
(***************************************************************************)
EXTENDS DynamoReservations, FiniteSetTheorems, TLAPS

\* The proved lifecycle, with no scheduler and no wallet beside it: the handlers
\* here make the scheduler's calls too.
RP == INSTANCE ReservationsProofs
          WITH UniqueOutbox <- FALSE, Schedulers <- {}, BatchN <- 1, MaxErrors <- 0,
               PageSize <- Cardinality(Res), batch <- <<>>, errors <- 0,
               wpc <- "idle", open <- {}, through <- {}

-----------------------------------------------------------------------------
(* Calls and rows.                                                         *)

\* What a call is made of, and the key of its flow.
LEMMA CallShape ==
    ASSUME NEW o \in Ops
    PROVE  /\ o.kind \in {"create", "commit", "release", "expire"}
           /\ o.res \in Res
           /\ o.amount \in Nat
           /\ o.kind = "create" => o.key = "" /\ o.amount = Original[o.res]
           /\ o.kind = "expire" => o.key = ""
           /\ o.kind \in {"commit", "release"} => o.key \in Keys /\ o.amount \in Amounts
           /\ FlowKey(o) \in R!FlowKeys
<1>1. CASE \E r \in Res : o = [kind |-> "create", res |-> r, key |-> "", amount |-> Original[r]]
  <2>1. PICK r \in Res : o = [kind |-> "create", res |-> r, key |-> "", amount |-> Original[r]]
    BY <1>1
  <2>2. o.kind = "create" /\ o.res = r /\ o.key = "" /\ o.amount = Original[r] /\ Original[r] \in Nat
    BY <2>1, OriginalAssumption
  <2>3. FlowKey(o) \in {<<"create", x, "">> : x \in Res}
    BY <2>2 DEF FlowKey
  <2> QED BY <2>2, <2>3 DEF R!FlowKeys
<1>2. CASE \E r \in Res : o = [kind |-> "expire", res |-> r, key |-> "", amount |-> 0]
  <2>1. PICK r \in Res : o = [kind |-> "expire", res |-> r, key |-> "", amount |-> 0]
    BY <1>2
  <2>2. o.kind = "expire" /\ o.res = r /\ o.key = "" /\ o.amount = 0 /\ 0 \in Nat
    BY <2>1
  <2>3. FlowKey(o) \in {<<"expire", x, "">> : x \in Res}
    BY <2>2 DEF FlowKey
  <2> QED BY <2>2, <2>3 DEF R!FlowKeys
<1>3. CASE o \in [kind : {"commit", "release"}, res : Res, key : Keys, amount : Amounts]
  BY <1>3, AmountsAssumption DEF FlowKey, R!FlowKeys
<1> QED BY <1>1, <1>2, <1>3 DEF Ops

\* The two ends of a transfer are different accounts.
LEMMA EndsDiffer ==
    ASSUME NEW o \in Ops
    PROVE  From(o) \in R!AccountNames /\ To(o) \in R!AccountNames /\ From(o) # To(o)
BY CallShape DEF From, To, R!AccountNames

\* The row a handler will write is a row.
LEMMA NewRowType ==
    ASSUME DTypeOK, NEW h \in Handlers, pc[h] = "commit", CallOK(h), RowReadOK(h)
    PROVE  NewRow(h) \in R!ReservationRow /\ NewRow(h).status # "NONE" /\ AmountOf(h) \in Nat
<1>1. op[h] \in Ops
  BY DEF CallOK
<1>2. /\ op[h].kind \in {"create", "commit", "release", "expire"} /\ op[h].amount \in Nat
  BY <1>1, CallShape
<1>3. /\ row[h].data.outstanding \in Nat /\ row[h].data.committed \in Nat
      /\ row[h].data.released \in Nat
  BY DEF DTypeOK, R!ReservationRow
<1>4. AmountOf(h) \in Nat
  BY <1>2, <1>3 DEF AmountOf
<1>5. CASE op[h].kind = "create"
  BY <1>2, <1>4, <1>5 DEF NewRow, R!ReservationRow, R!Statuses
<1>6. CASE op[h].kind # "create"
  <2>1. AmountOf(h) <= row[h].data.outstanding
    BY <1>6 DEF RowReadOK
  <2>2. row[h].data.outstanding - AmountOf(h) \in Nat
    BY <1>3, <1>4, <2>1
  <2>3. CASE op[h].kind = "commit"
    BY <1>3, <1>4, <2>2, <2>3
       DEF NewRow, R!AfterCommit, R!NextStatus, R!ReservationRow, R!Statuses
  <2>4. CASE op[h].kind = "release"
    BY <1>3, <1>4, <2>2, <2>4
       DEF NewRow, R!AfterRelease, R!NextStatus, R!ReservationRow, R!Statuses
  <2>5. CASE op[h].kind = "expire"
    BY <1>3, <1>4, <2>2, <2>5
       DEF NewRow, R!AfterRelease, R!NextStatus, R!ReservationRow, R!Statuses
  <2> QED BY <1>2, <1>6, <2>3, <2>4, <2>5
<1> QED BY <1>4, <1>5, <1>6
-----------------------------------------------------------------------------
(* The invariant.                                                          *)

\* What handler x holds for itself stays as it is.
Keeps(x) ==
    /\ pc'[x] = pc[x] /\ op'[x] = op[x] /\ row'[x] = row[x]
    /\ read'[x] = read[x] /\ replay'[x] = replay[x]

\* No item changes under its version, no journal is lost, time passes.
TablesAdvance ==
    /\ \A r \in Res : \/ resVersion[r] < resVersion'[r]
                      \/ resVersion'[r] = resVersion[r] /\ res'[r] = res[r]
    /\ \A a \in R!AccountNames : \/ balVersion[a] < balVersion'[a]
                                 \/ balVersion'[a] = balVersion[a] /\ balance'[a] = balance[a]
    /\ R!JournalKeys \subseteq R!JournalKeys'
    /\ now <= now'

HandlerOK(x) == CallOK(x) /\ RowReadOK(x) /\ FlowReadOK(x)

\* A handler's facts survive what the others do to the tables.
LEMMA OthersKeep ==
    ASSUME DTypeOK, DTypeOK', TablesAdvance, NEW x \in Handlers, Keeps(x), HandlerOK(x)
    PROVE  HandlerOK(x)'
<1>t. /\ now \in Nat /\ now' \in Nat
      /\ \A r \in Res : resVersion[r] \in Nat /\ resVersion'[r] \in Nat
      /\ \A a \in R!AccountNames : balVersion[a] \in Nat /\ balVersion'[a] \in Nat
      /\ row[x].version \in Nat
      /\ \A a \in R!AccountNames : read[x].version[a] \in Nat
  BY DEF DTypeOK, R!RTypeOK
<1>a. AmountOf(x)' = AmountOf(x)
  BY DEF AmountOf, Keeps
<1>1. CallOK(x)'
  <2> SUFFICES ASSUME pc'[x] # "idle"
               PROVE  op'[x] \in Ops /\ (op'[x].kind = "expire" => op'[x].res <= now')
    BY DEF CallOK
  <2>1. op[x] \in Ops /\ (op[x].kind = "expire" => op[x].res <= now)
    BY DEF HandlerOK, CallOK, Keeps
  <2>2. op[x].res \in Nat
    BY <2>1, CallShape, ResAssumption
  <2> QED BY <1>t, <2>1, <2>2 DEF Keeps, TablesAdvance
<1>2. RowReadOK(x)'
  <2> SUFFICES ASSUME pc'[x] \in {"flow", "commit"}
               PROVE  /\ row'[x].version <= resVersion'[op'[x].res]
                      /\ row'[x].version = resVersion'[op'[x].res] => row'[x].data = res'[op'[x].res]
                      /\ IF op'[x].kind = "create"
                         THEN row'[x].version = 0
                         ELSE /\ row'[x].data.status \in {"HELD", "PARTIAL"}
                              /\ AmountOf(x)' <= row'[x].data.outstanding
                              /\ AmountOf(x)' # 0
    BY DEF RowReadOK
  <2>1. op[x] \in Ops /\ op[x].res \in Res
    BY CallShape DEF HandlerOK, CallOK, Keeps
  <2>2. /\ row[x].version <= resVersion[op[x].res]
        /\ row[x].version = resVersion[op[x].res] => row[x].data = res[op[x].res]
        /\ IF op[x].kind = "create"
           THEN row[x].version = 0
           ELSE /\ row[x].data.status \in {"HELD", "PARTIAL"}
                /\ AmountOf(x) <= row[x].data.outstanding
                /\ AmountOf(x) # 0
    BY DEF HandlerOK, RowReadOK, Keeps
  <2>3. \/ resVersion[op[x].res] < resVersion'[op[x].res]
        \/ /\ resVersion'[op[x].res] = resVersion[op[x].res]
           /\ res'[op[x].res] = res[op[x].res]
    BY <2>1 DEF TablesAdvance
  <2>4. /\ row[x].version <= resVersion'[op[x].res]
        /\ row[x].version = resVersion'[op[x].res] => row[x].data = res'[op[x].res]
    BY <1>t, <2>1, <2>2, <2>3
  <2> QED BY <1>a, <2>2, <2>4 DEF Keeps
<1>3. FlowReadOK(x)'
  <2>1. CASE pc[x] = "commit" /\ ~ replay[x]
    <3>1. /\ \A a \in R!AccountNames :
                /\ read[x].version[a] <= balVersion[a]
                /\ read[x].version[a] = balVersion[a] => read[x].amount[a] = balance[a]
          /\ AmountOf(x) <= read[x].amount[From(op[x])]
      BY <2>1 DEF HandlerOK, FlowReadOK
    <3>2. \A a \in R!AccountNames :
                /\ read[x].version[a] <= balVersion'[a]
                /\ read[x].version[a] = balVersion'[a] => read[x].amount[a] = balance'[a]
      <4> TAKE a \in R!AccountNames
      <4>1. \/ balVersion[a] < balVersion'[a]
            \/ balVersion'[a] = balVersion[a] /\ balance'[a] = balance[a]
        BY DEF TablesAdvance
      <4> QED BY <1>t, <3>1, <4>1
    <3>3. pc'[x] = "commit" /\ ~ replay'[x] /\ read'[x] = read[x] /\ op'[x] = op[x]
      BY <2>1 DEF Keeps
    <3> QED BY <1>a, <3>1, <3>2, <3>3 DEF FlowReadOK
  <2>2. CASE ~ (pc[x] = "commit" /\ ~ replay[x])
    BY <2>2 DEF HandlerOK, FlowReadOK, Keeps, TablesAdvance
  <2> QED BY <2>1, <2>2
<1> QED BY <1>1, <1>2, <1>3 DEF HandlerOK

\* A handler that has finished holds nothing that could be wrong.
LEMMA IdleIsOK ==
    ASSUME DTypeOK, NEW h \in Handlers, Finish(h)
    PROVE  /\ HandlerOK(h)'
           /\ pc' \in [Handlers -> {"idle", "lock", "flow", "commit"}]
           /\ op' \in [Handlers -> Ops \cup {AnyOp}]
           /\ row' \in [Handlers -> [data : R!ReservationRow, version : Nat]]
           /\ read' \in [Handlers -> [amount : [R!AccountNames -> Nat],
                                     version : [R!AccountNames -> Nat]]]
           /\ replay' \in [Handlers -> BOOLEAN]
           /\ \A x \in Handlers \ {h} : Keeps(x)
<1>1. NoRead \in [data : R!ReservationRow, version : Nat]
  BY DEF NoRead, R!NoRow, R!ReservationRow, R!Statuses
<1>2. NoBalances \in [amount : [R!AccountNames -> Nat], version : [R!AccountNames -> Nat]]
  BY DEF NoBalances, NoVersions
<1>3. pc'[h] = "idle" /\ replay'[h] = FALSE
  BY DEF Finish, DTypeOK
<1>4. HandlerOK(h)'
  BY <1>3 DEF HandlerOK, CallOK, RowReadOK, FlowReadOK
<1> QED BY <1>1, <1>2, <1>4 DEF Finish, DTypeOK, Keeps

\* A step of h that leaves the tables alone.
LEMMA LocalStep ==
    ASSUME VersionsTell, NEW h \in Handlers, UNCHANGED dtable, DTypeOK',
           HandlerOK(h)', \A x \in Handlers \ {h} : Keeps(x)
    PROVE  VersionsTell'
<1>1. TablesAdvance
  BY DEF dtable, TablesAdvance, R!JournalKeys, VersionsTell, DTypeOK, R!RTypeOK
<1>2. \A x \in Handlers : HandlerOK(x)
  BY DEF VersionsTell, HandlerOK
<1>3. \A x \in Handlers \ {h} : HandlerOK(x)'
  BY <1>1, <1>2, OthersKeep DEF VersionsTell
<1>4. \A x \in Handlers : HandlerOK(x)'
  BY <1>3
<1>5. \A r \in Res : res'[r].status = "NONE" => resVersion'[r] = 0
  BY DEF VersionsTell, dtable
<1> QED BY <1>4, <1>5 DEF VersionsTell, HandlerOK

\* The tables keep their types when nothing is written.
LEMMA TableTypes ==
    ASSUME DTypeOK, UNCHANGED dtable
    PROVE  /\ R!RTypeOK' /\ resVersion' \in [Res -> Nat] /\ balVersion' \in [R!AccountNames -> Nat]
BY DEF DTypeOK, dtable, R!RTypeOK

\* A refusal, a cancelled transaction, a crash: the handler forgets everything.
LEMMA FinishStep ==
    ASSUME VersionsTell, NEW h \in Handlers, Finish(h), UNCHANGED dtable
    PROVE  VersionsTell'
<1>1. DTypeOK
  BY DEF VersionsTell
<1>2. DTypeOK'
  BY <1>1, IdleIsOK, TableTypes DEF DTypeOK
<1> QED BY <1>1, <1>2, IdleIsOK, LocalStep

\* A call arrives.
LEMMA SubmitStep ==
    ASSUME VersionsTell, NEW h \in Handlers, NEW o \in Ops, Submit(h, o)
    PROVE  VersionsTell'
<1>1. DTypeOK /\ UNCHANGED dtable
  BY DEF VersionsTell, Submit, dtable
<1>2. /\ pc' = [pc EXCEPT ![h] = "lock"] /\ op' = [op EXCEPT ![h] = o]
      /\ row' = row /\ read' = read /\ replay' = replay /\ now' = now
      /\ pc[h] = "idle" /\ (o.kind = "expire" => o.res <= now)
  BY DEF Submit
<1>3. DTypeOK'
  BY <1>1, <1>2, TableTypes DEF DTypeOK
<1>4. \A x \in Handlers \ {h} : Keeps(x)
  BY <1>1, <1>2 DEF DTypeOK, Keeps
<1>5. pc'[h] = "lock" /\ op'[h] = o /\ replay'[h] = replay[h]
  BY <1>1, <1>2 DEF DTypeOK
<1>6. ~ replay[h]
  BY <1>2 DEF VersionsTell, FlowReadOK
<1>7. HandlerOK(h)'
  BY <1>2, <1>5, <1>6 DEF HandlerOK, CallOK, RowReadOK, FlowReadOK
<1> QED BY <1>1, <1>3, <1>4, <1>7, LocalStep

\* The row is read and passes the checks.
LEMMA LockStep ==
    ASSUME VersionsTell, NEW h \in Handlers, Lock(h)
    PROVE  VersionsTell'
<1> DEFINE o == op[h]
           new == [data |-> res[o.res], version |-> resVersion[o.res]]
<1>1. DTypeOK /\ UNCHANGED dtable /\ pc[h] = "lock"
  BY DEF VersionsTell, Lock
<1>2. CASE Refused(o)
  BY <1>1, <1>2, FinishStep DEF Lock
<1>3. CASE ~ Refused(o)
  <2>1. /\ row' = [row EXCEPT ![h] = new] /\ pc' = [pc EXCEPT ![h] = "flow"]
        /\ op' = op /\ read' = read /\ replay' = replay
    BY <1>3 DEF Lock
  <2>2. o \in Ops /\ o.res \in Res /\ (o.kind = "expire" => o.res <= now)
    BY <1>1, CallShape DEF VersionsTell, CallOK
  <2>3. /\ new \in [data : R!ReservationRow, version : Nat]
        /\ new.data = res[o.res] /\ new.version = resVersion[o.res]
    BY <1>1, <2>2 DEF DTypeOK, R!RTypeOK
  <2> HIDE DEF new
  <2>4. DTypeOK'
    BY <1>1, <2>1, <2>3, TableTypes DEF DTypeOK
  <2>5. \A x \in Handlers \ {h} : Keeps(x)
    BY <1>1, <2>1 DEF DTypeOK, Keeps
  <2>6. /\ pc'[h] = "flow" /\ op'[h] = o /\ row'[h] = new /\ replay'[h] = replay[h]
        /\ res' = res /\ resVersion' = resVersion /\ now' = now
    BY <1>1, <2>1 DEF DTypeOK, dtable
  <2>7. ~ replay[h]
    BY <1>1 DEF VersionsTell, FlowReadOK
  <2>8. resVersion[o.res] \in Nat
    BY <1>1, <2>2 DEF DTypeOK
  <2>9. CASE o.kind = "create"
    <3>1. res[o.res].status = "NONE"
      BY <1>3, <2>9 DEF Refused
    <3>2. new.version = 0
      BY <2>2, <2>3, <3>1 DEF VersionsTell
    <3>3. RowReadOK(h)'
      BY <2>3, <2>6, <2>8, <2>9, <3>2 DEF RowReadOK
    <3>4. CallOK(h)' /\ FlowReadOK(h)'
      BY <2>2, <2>6, <2>7 DEF CallOK, FlowReadOK
    <3> QED BY <1>1, <2>4, <2>5, <3>3, <3>4, LocalStep DEF HandlerOK
  <2>10. CASE o.kind # "create"
    <3>1. /\ res[o.res].status \in {"HELD", "PARTIAL"}
          /\ ~ (o.amount > res[o.res].outstanding)
          /\ o.kind = "expire" => res[o.res].outstanding # 0
      BY <1>3, <2>10 DEF Refused
    <3>2. res[o.res].outstanding \in Nat /\ o.amount \in Nat
      BY <1>1, <2>2, CallShape DEF DTypeOK, R!RTypeOK, R!ReservationRow
    <3>3. o.kind # "expire" => o.amount # 0
      BY <2>2, <2>10, CallShape, AmountsAssumption
    <3>4. AmountOf(h)' = IF o.kind = "expire" THEN res[o.res].outstanding ELSE o.amount
      BY <2>3, <2>6 DEF AmountOf
    <3>5. AmountOf(h)' <= res[o.res].outstanding /\ AmountOf(h)' # 0
      BY <3>1, <3>2, <3>3, <3>4
    <3>6. RowReadOK(h)'
      BY <2>3, <2>6, <2>8, <2>10, <3>1, <3>5 DEF RowReadOK
    <3>7. CallOK(h)' /\ FlowReadOK(h)'
      BY <2>2, <2>6, <2>7 DEF CallOK, FlowReadOK
    <3> QED BY <1>1, <2>4, <2>5, <3>6, <3>7, LocalStep DEF HandlerOK
  <2> QED BY <2>9, <2>10
<1> QED BY <1>2, <1>3

\* The inner flow is found posted, or its balances are read.
LEMMA FlowReadStep ==
    ASSUME VersionsTell, NEW h \in Handlers, Flow(h)
    PROVE  VersionsTell'
<1> DEFINE o == op[h]
           new == [amount |-> balance, version |-> balVersion]
<1>1. DTypeOK /\ UNCHANGED dtable /\ pc[h] = "flow"
  BY DEF VersionsTell, Flow
<1>2. /\ o \in Ops /\ ~ replay[h] /\ (o.kind = "expire" => o.res <= now) /\ RowReadOK(h)
  BY <1>1 DEF VersionsTell, CallOK, FlowReadOK
<1>u. /\ res' = res /\ resVersion' = resVersion /\ now' = now /\ journals' = journals
      /\ balance' = balance /\ balVersion' = balVersion
  BY <1>1 DEF dtable
<1>3. ASSUME FlowKey(o) \in R!JournalKeys, replay' = [replay EXCEPT ![h] = TRUE],
             pc' = [pc EXCEPT ![h] = "commit"], UNCHANGED <<op, row, read>>
      PROVE  VersionsTell'
  <2>1. DTypeOK'
    BY <1>1, <1>3, TableTypes DEF DTypeOK
  <2>2. \A x \in Handlers \ {h} : Keeps(x)
    BY <1>1, <1>3 DEF DTypeOK, Keeps
  <2>3. pc'[h] = "commit" /\ replay'[h] = TRUE /\ op' = op /\ row' = row
    BY <1>1, <1>3 DEF DTypeOK
  <2>4. CallOK(h)' /\ FlowReadOK(h)'
    BY <1>2, <1>3, <1>u, <2>3 DEF CallOK, FlowReadOK, R!JournalKeys
  <2>5. RowReadOK(h)'
    BY <1>1, <1>2, <1>u, <2>3 DEF RowReadOK, AmountOf
  <2> QED BY <1>1, <2>1, <2>2, <2>4, <2>5, LocalStep DEF HandlerOK
<1>4. CASE Finish(h)
  BY <1>1, <1>4, FinishStep
<1>5. ASSUME balance[From(o)] >= AmountOf(h), read' = [read EXCEPT ![h] = new],
             pc' = [pc EXCEPT ![h] = "commit"], UNCHANGED <<op, row, replay>>
      PROVE  VersionsTell'
  <2>0. /\ new \in [amount : [R!AccountNames -> Nat], version : [R!AccountNames -> Nat]]
        /\ new.amount = balance /\ new.version = balVersion
    BY <1>1 DEF DTypeOK, R!RTypeOK
  <2> HIDE DEF new
  <2>1. DTypeOK'
    BY <1>1, <1>5, <2>0, TableTypes DEF DTypeOK
  <2>2. \A x \in Handlers \ {h} : Keeps(x)
    BY <1>1, <1>5 DEF DTypeOK, Keeps
  <2>3. pc'[h] = "commit" /\ replay'[h] = replay[h] /\ op' = op /\ row' = row /\ read'[h] = new
    BY <1>1, <1>5 DEF DTypeOK
  <2>4. AmountOf(h)' = AmountOf(h)
    BY <2>3 DEF AmountOf
  <2>5. \A a \in R!AccountNames : balVersion[a] \in Nat
    BY <1>1 DEF DTypeOK
  <2>a. AmountOf(h) \in Nat /\ balance[From(o)] \in Nat
    BY <1>1, <1>2, CallShape, EndsDiffer DEF AmountOf, DTypeOK, R!RTypeOK, R!ReservationRow
  <2>b. AmountOf(h) <= balance[From(o)]
    BY <1>5, <2>a
  <2>6. FlowReadOK(h)'
    BY <1>2, <1>u, <2>0, <2>3, <2>4, <2>5, <2>b DEF FlowReadOK
  <2>7. CallOK(h)'
    BY <1>2, <1>u, <2>3 DEF CallOK
  <2>8. RowReadOK(h)'
    BY <1>1, <1>2, <1>u, <2>3 DEF RowReadOK, AmountOf
  <2> QED BY <1>1, <2>1, <2>2, <2>6, <2>7, <2>8, LocalStep DEF HandlerOK
<1> QED BY <1>3, <1>4, <1>5 DEF Flow

\* When the conditions hold, the row read is the row in the table: for a new
\* reservation too, whose item has version 0 as long as it does not exist.
LEMMA RowIsCurrent ==
    ASSUME VersionsTell, NEW h \in Handlers, Commit(h)
    PROVE  /\ op[h] \in Ops /\ op[h].res \in Res
           /\ row[h].version = resVersion[op[h].res]
           /\ row[h].data = res[op[h].res]
<1>1. pc[h] = "commit" /\ RowCondition(h)
  BY DEF Commit
<1>2. op[h] \in Ops /\ op[h].res \in Res /\ RowReadOK(h)
  BY <1>1, CallShape DEF VersionsTell, CallOK
<1>3. row[h].version = resVersion[op[h].res]
  <2>1. CASE op[h].kind = "create"
    BY <1>1, <1>2, <2>1 DEF RowCondition, RowReadOK, VersionsTell
  <2>2. CASE op[h].kind # "create"
    BY <1>1, <2>2 DEF RowCondition
  <2> QED BY <2>1, <2>2
<1> QED BY <1>1, <1>2, <1>3 DEF RowReadOK

\* ... and the balances written are those of the atomic transfer.
LEMMA FlowIsAtomic ==
    ASSUME VersionsTell, NEW h \in Handlers, Commit(h)
    PROVE  R!InnerFlow(FlowKey(op[h]), From(op[h]), To(op[h]), AmountOf(h))
<1> DEFINE o == op[h]  f == From(o)  t == To(o)  n == AmountOf(h)
<1>1. /\ pc[h] = "commit" /\ FlowCondition(h) /\ FlowReadOK(h)
  BY DEF Commit, VersionsTell
<1>2. o \in Ops /\ f \in R!AccountNames /\ t \in R!AccountNames /\ f # t
  BY RowIsCurrent, EndsDiffer
<1>3. CASE replay[h]
  <2>1. FlowKey(o) \in R!JournalKeys
    BY <1>1, <1>3 DEF FlowReadOK
  <2>2. UNCHANGED <<balance, journals>>
    BY <1>3 DEF Commit
  <2> QED BY <2>1, <2>2 DEF R!InnerFlow
<1>4. CASE ~ replay[h]
  <2>1. /\ FlowKey(o) \notin R!JournalKeys
        /\ balVersion[f] = read[h].version[f] /\ balVersion[t] = read[h].version[t]
    BY <1>1, <1>4 DEF FlowCondition
  <2>2. read[h].amount[f] = balance[f] /\ read[h].amount[t] = balance[t]
    BY <1>1, <1>2, <1>4, <2>1 DEF FlowReadOK
  <2>3. n <= balance[f]
    BY <1>1, <1>4, <2>2 DEF FlowReadOK
  <2>4. n \in Nat /\ balance[f] \in Nat /\ balance \in [R!AccountNames -> Nat]
    BY <1>1, <1>2, NewRowType DEF VersionsTell, DTypeOK, R!RTypeOK
  <2>5. /\ balance' = [balance EXCEPT ![f] = read[h].amount[f] - n,
                                      ![t] = read[h].amount[t] + n]
        /\ journals' = journals \cup {[key |-> FlowKey(o), amount |-> n]}
    BY <1>4 DEF Commit
  <2> HIDE DEF o, f, t, n
  <2>6. balance' = [balance EXCEPT ![f] = @ - n, ![t] = @ + n]
    BY <1>2, <2>2, <2>4, <2>5
  <2>7. balance[f] >= n
    BY <2>3, <2>4
  <2>8. R!InnerFlow(FlowKey(o), f, t, n)
    BY <2>1, <2>5, <2>6, <2>7 DEF R!InnerFlow
  <2> QED BY <2>8 DEF o, f, t, n
<1> QED BY <1>3, <1>4

\* The transaction's writes: types, and every item that changes gets a version
\* the table has not had.
LEMMA CommitTables ==
    ASSUME VersionsTell, NEW h \in Handlers, Commit(h)
    PROVE  /\ TablesAdvance /\ DTypeOK'
           /\ \A r \in Res : res'[r].status = "NONE" => resVersion'[r] = 0
<1> DEFINE o == op[h]  f == From(o)  t == To(o)  n == AmountOf(h)
<1>t. DTypeOK /\ pc[h] = "commit" /\ CallOK(h) /\ RowReadOK(h) /\ Finish(h) /\ now' = now
  BY DEF VersionsTell, Commit
<1>1. /\ o \in Ops /\ o.res \in Res /\ row[h].version = resVersion[o.res]
      /\ f \in R!AccountNames /\ t \in R!AccountNames /\ f # t /\ FlowKey(o) \in R!FlowKeys
  BY RowIsCurrent, EndsDiffer, CallShape
<1>2. /\ NewRow(h) \in R!ReservationRow /\ NewRow(h).status # "NONE" /\ n \in Nat
  BY <1>t, NewRowType
<1>3. /\ res' = [res EXCEPT ![o.res] = NewRow(h)]
      /\ resVersion' = [resVersion EXCEPT ![o.res] = row[h].version + 1]
      /\ outbox' = [outbox EXCEPT ![FlowKey(o)] = @ + 1]
  BY DEF Commit
<1>4. /\ res' \in [Res -> R!ReservationRow] /\ resVersion' \in [Res -> Nat]
      /\ outbox' \in [R!FlowKeys -> Nat] /\ now' \in Nat
  BY <1>t, <1>1, <1>2, <1>3 DEF DTypeOK, R!RTypeOK
<1>5. \A r \in Res : \/ resVersion[r] < resVersion'[r]
                     \/ resVersion'[r] = resVersion[r] /\ res'[r] = res[r]
  BY <1>t, <1>1, <1>3 DEF DTypeOK, R!RTypeOK
<1>6. \A r \in Res : res'[r].status = "NONE" => resVersion'[r] = 0
  BY <1>t, <1>1, <1>2, <1>3 DEF VersionsTell, DTypeOK, R!RTypeOK
<1>7. /\ balance' \in [R!AccountNames -> Nat] /\ balVersion' \in [R!AccountNames -> Nat]
      /\ journals' \subseteq [key : R!FlowKeys, amount : Nat]
      /\ R!JournalKeys \subseteq R!JournalKeys'
      /\ \A a \in R!AccountNames : \/ balVersion[a] < balVersion'[a]
                                   \/ balVersion'[a] = balVersion[a] /\ balance'[a] = balance[a]
  <2>1. CASE replay[h]
    <3>1. balance' = balance /\ balVersion' = balVersion /\ journals' = journals
      BY <2>1 DEF Commit
    <3> QED BY <1>t, <3>1 DEF DTypeOK, R!RTypeOK, R!JournalKeys
  <2>2. CASE ~ replay[h]
    <3>1. /\ FlowKey(o) \notin R!JournalKeys
          /\ balVersion[f] = read[h].version[f] /\ balVersion[t] = read[h].version[t]
      BY <2>2 DEF Commit, FlowCondition
    <3>2. /\ balVersion' = [balVersion EXCEPT ![f] = read[h].version[f] + 1,
                                              ![t] = read[h].version[t] + 1]
          /\ journals' = journals \cup {[key |-> FlowKey(o), amount |-> n]}
      BY <2>2 DEF Commit
    <3>3. /\ balance[f] >= n
          /\ balance' = [balance EXCEPT ![f] = @ - n, ![t] = @ + n]
      BY <3>1, FlowIsAtomic DEF R!InnerFlow
    <3>4. R!JournalKeys \subseteq R!JournalKeys'
      BY <3>2 DEF R!JournalKeys
    <3>5. journals' \subseteq [key : R!FlowKeys, amount : Nat]
      BY <1>t, <1>1, <1>2, <3>2 DEF DTypeOK, R!RTypeOK
    <3> HIDE DEF o, f, t, n
    <3>6. /\ balance \in [R!AccountNames -> Nat] /\ balVersion \in [R!AccountNames -> Nat]
      BY <1>t DEF DTypeOK, R!RTypeOK
    <3>7. /\ balVersion' = [balVersion EXCEPT ![f] = balVersion[f] + 1, ![t] = balVersion[t] + 1]
      BY <3>1, <3>2
    <3>8. balance' \in [R!AccountNames -> Nat]
      <4>1. balance[f] - n \in Nat /\ balance[t] + n \in Nat
        BY <1>1, <1>2, <3>3, <3>6
      <4> QED BY <1>1, <3>3, <3>6, <4>1
    <3>9. balVersion' \in [R!AccountNames -> Nat]
      BY <1>1, <3>6, <3>7
    <3>10. \A a \in R!AccountNames : \/ balVersion[a] < balVersion'[a]
                                     \/ balVersion'[a] = balVersion[a] /\ balance'[a] = balance[a]
      BY <1>1, <3>3, <3>6, <3>7
    <3> QED BY <3>4, <3>5, <3>8, <3>9, <3>10
  <2> QED BY <2>1, <2>2
<1>8. now <= now'
  BY <1>t DEF DTypeOK, R!RTypeOK
<1>9. DTypeOK'
  BY <1>t, <1>4, <1>7, IdleIsOK DEF DTypeOK, R!RTypeOK
<1> QED BY <1>5, <1>6, <1>7, <1>8, <1>9 DEF TablesAdvance

\* Every step keeps the invariant.
LEMMA VersionsStep == VersionsTell /\ [DNext]_dvars => VersionsTell'
<1> SUFFICES ASSUME VersionsTell, [DNext]_dvars PROVE VersionsTell'
  OBVIOUS
<1>t. DTypeOK /\ \A x \in Handlers : HandlerOK(x)
  BY DEF VersionsTell, HandlerOK
<1>1. CASE UNCHANGED dvars
  BY <1>1 DEF dvars, VersionsTell, DTypeOK, R!RTypeOK, CallOK, RowReadOK, FlowReadOK, AmountOf,
              R!JournalKeys
<1>2. CASE Tick
  <2>1. /\ now' = now + 1 /\ UNCHANGED <<res, balance, journals, outbox>>
        /\ UNCHANGED <<resVersion, balVersion, pc, op, row, read, replay>>
    BY <1>2 DEF Tick, R!Tick
  <2>2. DTypeOK'
    BY <1>t, <2>1 DEF DTypeOK, R!RTypeOK
  <2>3. TablesAdvance
    BY <1>t, <2>1 DEF TablesAdvance, DTypeOK, R!RTypeOK, R!JournalKeys
  <2>4. \A x \in Handlers : Keeps(x)
    BY <2>1 DEF Keeps
  <2>5. \A x \in Handlers : HandlerOK(x)'
    BY <1>t, <2>2, <2>3, <2>4, OthersKeep
  <2> QED BY <2>1, <2>2, <2>5 DEF VersionsTell, HandlerOK
<1>3. ASSUME NEW h \in Handlers, Commit(h) PROVE VersionsTell'
  <2>1. /\ TablesAdvance /\ DTypeOK'
        /\ \A r \in Res : res'[r].status = "NONE" => resVersion'[r] = 0
    BY <1>3, CommitTables
  <2>2. HandlerOK(h)' /\ \A x \in Handlers \ {h} : Keeps(x)
    BY <1>3, <1>t, IdleIsOK DEF Commit
  <2>3. \A x \in Handlers : HandlerOK(x)'
    BY <1>t, <2>1, <2>2, OthersKeep
  <2> QED BY <2>1, <2>3 DEF VersionsTell, HandlerOK
<1>4. ASSUME NEW h \in Handlers, CommitCancelled(h) \/ Abandon(h) PROVE VersionsTell'
  BY <1>4, FinishStep DEF CommitCancelled, Abandon
<1> QED
  BY <1>1, <1>2, <1>3, <1>4, SubmitStep, LockStep, FlowReadStep DEF DNext

\* Nobody has read anything at the start.
LEMMA InitVersions == DInit => VersionsTell
<1> SUFFICES ASSUME DInit PROVE VersionsTell
  OBVIOUS
<1>1. NoRead \in [data : R!ReservationRow, version : Nat] /\ R!NoRow \in R!ReservationRow
  BY DEF NoRead, R!NoRow, R!ReservationRow, R!Statuses
<1>2. NoBalances \in [amount : [R!AccountNames -> Nat], version : [R!AccountNames -> Nat]]
  BY DEF NoBalances, NoVersions
<1>3. R!RTypeOK
  BY <1>1, FundsAssumption DEF DInit, R!RInit, R!RTypeOK, R!AccountNames
<1>4. DTypeOK
  BY <1>1, <1>2, <1>3 DEF DInit, DTypeOK, NoVersions
<1> QED BY <1>4 DEF DInit, VersionsTell, CallOK, RowReadOK, FlowReadOK

\* Whatever a handler read is current or has a version that will never be
\* current again, for any number of handlers and reservations.
THEOREM VersionsTellCorrect == DSpec => []VersionsTell
<1> QED
  BY InitVersions, VersionsStep, PTL DEF DSpec

-----------------------------------------------------------------------------
(* The refinement.                                                         *)

\* A transaction that commits is the handler of its call, run at once.
LEMMA CommitIsHandler ==
    ASSUME VersionsTell, NEW h \in Handlers, Commit(h)
    PROVE  R!RNext
<1> DEFINE o == op[h]  r == o.res  n == AmountOf(h)
<1>1. /\ o \in Ops /\ r \in Res /\ row[h].data = res[r]
      /\ R!InnerFlow(FlowKey(o), From(o), To(o), n)
  BY RowIsCurrent, FlowIsAtomic
<1>2. /\ pc[h] = "commit" /\ RowCondition(h) /\ RowReadOK(h) /\ CallOK(h) /\ now' = now
      /\ res' = [res EXCEPT ![r] = NewRow(h)]
      /\ outbox' = [outbox EXCEPT ![FlowKey(o)] = @ + 1]
  BY DEF Commit, VersionsTell
<1>3. R!InsertOutbox(FlowKey(o))
  BY <1>2 DEF R!InsertOutbox
<1>4. /\ o.kind \in {"create", "commit", "release", "expire"}
      /\ o.kind = "create" => o.key = "" /\ o.amount = Original[r]
      /\ o.kind = "expire" => o.key = ""
      /\ o.kind \in {"commit", "release"} => o.key \in Keys /\ o.amount \in Amounts
  BY <1>1, CallShape
<1>5. FlowKey(o) = <<o.kind, r, o.key>>
  BY DEF FlowKey
<1>6. o.kind # "create" => /\ R!Active(r) /\ n <= res[r].outstanding /\ n # 0
  BY <1>1, <1>2 DEF RowReadOK, R!Active
<1>7. CASE o.kind = "create"
  <2>1. ~ R!Exists(r)
    BY <1>2, <1>7 DEF RowCondition, R!Exists
  <2>2. n = Original[r] /\ From(o) = "source" /\ To(o) = "reserved"
    BY <1>4, <1>7 DEF AmountOf, From, To
  <2>3. NewRow(h) = [status |-> "HELD", outstanding |-> Original[r],
                     committed |-> 0, released |-> 0]
    BY <1>4, <1>7 DEF NewRow
  <2>4. R!CreateReservation(r)
    BY <1>1, <1>2, <1>3, <1>4, <1>5, <1>7, <2>1, <2>2, <2>3 DEF R!CreateReservation
  <2> QED BY <1>1, <2>4 DEF R!RNext, R!Caller
<1>8. CASE o.kind = "commit"
  <2>1. n = o.amount /\ From(o) = "reserved" /\ To(o) = "destination"
    BY <1>8 DEF AmountOf, From, To
  <2>2. NewRow(h) = R!AfterCommit(res[r], o.amount, "COMMITTED")
    BY <1>1, <1>8, <2>1 DEF NewRow
  <2>3. R!CommitReservation(r, o.key, o.amount)
    BY <1>1, <1>2, <1>3, <1>5, <1>6, <1>8, <2>1, <2>2 DEF R!CommitReservation, R!MayTake
  <2> QED BY <1>1, <1>4, <1>8, <2>3 DEF R!RNext, R!Caller
<1>9. CASE o.kind = "release"
  <2>1. n = o.amount /\ From(o) = "reserved" /\ To(o) = "source"
    BY <1>9 DEF AmountOf, From, To
  <2>2. NewRow(h) = R!AfterRelease(res[r], o.amount, "RELEASED")
    BY <1>1, <1>9, <2>1 DEF NewRow
  <2>3. R!ReleaseReservation(r, o.key, o.amount)
    BY <1>1, <1>2, <1>3, <1>5, <1>6, <1>9, <2>1, <2>2 DEF R!ReleaseReservation, R!MayTake
  <2> QED BY <1>1, <1>4, <1>9, <2>3 DEF R!RNext, R!Caller
<1>10. CASE o.kind = "expire"
  <2>1. n = res[r].outstanding /\ From(o) = "reserved" /\ To(o) = "source"
    BY <1>1, <1>10 DEF AmountOf, From, To
  <2>2. NewRow(h) = R!AfterRelease(res[r], res[r].outstanding, "EXPIRED")
    BY <1>1, <1>10, <2>1 DEF NewRow
  <2>3. R!MayExpire(r)
    BY <1>6, <1>10, <2>1 DEF R!MayExpire
  <2>4. R!ExpireReservation(r)
    BY <1>1, <1>2, <1>3, <1>4, <1>5, <1>10, <2>1, <2>2, <2>3 DEF R!ExpireReservation
  <2>5. R!Due(r)
    BY <1>2, <1>10 DEF CallOK, R!Due
  <2> QED BY <1>1, <2>4, <2>5 DEF R!RNext
<1> QED BY <1>4, <1>7, <1>8, <1>9, <1>10

\* Every other step shows nothing.
LEMMA StepRefines == VersionsTell /\ [DNext]_dvars => [R!RNext]_(R!rvars)
<1> SUFFICES ASSUME VersionsTell, [DNext]_dvars PROVE [R!RNext]_(R!rvars)
  OBVIOUS
<1>1. CASE UNCHANGED dvars
  BY <1>1 DEF dvars, R!rvars
<1>2. CASE Tick
  BY <1>2 DEF Tick, R!RNext
<1>3. ASSUME NEW h \in Handlers, Commit(h) PROVE [R!RNext]_(R!rvars)
  BY <1>3, CommitIsHandler
<1>4. CASE UNCHANGED dtable
  BY <1>4 DEF dtable, R!rvars
<1> QED
  BY <1>1, <1>2, <1>3, <1>4
     DEF DNext, Submit, Lock, Flow, CommitCancelled, Abandon, dtable

\* The optimistic handlers of the DynamoDB backend implement the atomic
\* lifecycle: no interleaving of reads and conditional writes, retry or crash
\* shows anything that one handler at a time could not.
THEOREM ReservationsRefinement == DSpec => ImplementsReservations
<1>1. DInit => R!RInit
  BY DEF DInit
<1> QED
  BY <1>1, StepRefines, VersionsTellCorrect, PTL DEF DSpec, ImplementsReservations, R!RSpec

-----------------------------------------------------------------------------
(* What the refinement brings.                                             *)

\* The instance whose theorems are used is the one that is implemented.
LEMMA SameSpecification ==
    /\ R!RSpec <=> RP!RSpec
    /\ R!ReservationsCovered <=> RP!ReservationsCovered
    /\ R!ReservedMatchesJournals <=> RP!ReservedMatchesJournals
<1>1. R!RSpec <=> RP!RSpec
  BY DEF R!RSpec, RP!RSpec, R!RInit, RP!RInit, R!RNext, RP!RNext, R!rvars, RP!rvars,
         R!Caller, RP!Caller, R!Tick, RP!Tick, R!Due, RP!Due,
         R!CreateReservation, RP!CreateReservation, R!CommitReservation, RP!CommitReservation,
         R!ReleaseReservation, RP!ReleaseReservation, R!ExpireReservation, RP!ExpireReservation,
         R!MayTake, RP!MayTake, R!MayExpire, RP!MayExpire, R!Active, RP!Active, R!Exists, RP!Exists,
         R!InnerFlow, RP!InnerFlow, R!InsertOutbox, RP!InsertOutbox,
         R!JournalKeys, RP!JournalKeys, R!FlowKeys, RP!FlowKeys, R!NoRow, RP!NoRow,
         R!AccountNames, RP!AccountNames, R!AfterCommit, RP!AfterCommit,
         R!AfterRelease, RP!AfterRelease, R!NextStatus, RP!NextStatus
<1>0. \A f, S : R!SumFunctionOnSet(f, S) = RP!SumFunctionOnSet(f, S)
  BY DEF R!SumFunctionOnSet, RP!SumFunctionOnSet, R!FoldFunctionOnSet, RP!FoldFunctionOnSet,
         R!MapThenFoldSet, RP!MapThenFoldSet
<1>2. R!ReservationsCovered <=> RP!ReservationsCovered
  BY <1>0 DEF R!ReservationsCovered, RP!ReservationsCovered, R!Outstanding, RP!Outstanding
<1>3. R!ReservedMatchesJournals <=> RP!ReservedMatchesJournals
  BY <1>0 DEF R!ReservedMatchesJournals, RP!ReservedMatchesJournals, R!IntoReserved, RP!IntoReserved
<1> QED BY <1>1, <1>2, <1>3

\* The assumptions of the proved modules hold of the instance.
LEMMA ProvedInstance ==
    /\ FALSE \in BOOLEAN /\ 1 \in Nat \ {0} /\ 0 \in Nat
    /\ Res \subseteq Nat \ {0} /\ RP!IsFiniteSet(Res)
    /\ Cardinality(Res) \in Nat /\ RP!Cardinality(Res) <= Cardinality(Res)
<1>1. RP!IsFiniteSet(Res)
  BY ResAssumption DEF IsFiniteSet, RP!IsFiniteSet
<1>2. RP!Cardinality(Res) = Cardinality(Res)
  BY DEF Cardinality, RP!Cardinality
<1>3. Cardinality(Res) \in Nat
  BY ResAssumption, FS_CardinalityType
<1> QED BY <1>1, <1>2, <1>3, ResAssumption

\* With DynamoDB's optimistic transactions the reserved account still covers
\* the open reservations and holds what the posted flows add up to: no race,
\* lost answer or resent call moves money twice.
THEOREM DBooksCorrect == DSpec => []DBooksAreRight
<1>1. RP!RSpec => [](RP!ReservationsCovered /\ RP!ReservedMatchesJournals)
  BY ProvedInstance, RP!ReservationsCoveredCorrect, OriginalAssumption, AmountsAssumption,
     FundsAssumption
<1>2. RP!ReservationsCovered /\ RP!ReservedMatchesJournals
      => DBooksAreRight
  BY SameSpecification DEF DBooksAreRight, DReservationsCovered, MoneyMovedOnce
<1> QED
  BY <1>1, <1>2, SameSpecification, ReservationsRefinement, PTL DEF ImplementsReservations

\* The lifecycle itself carries over: amounts that add up, a status that says
\* what they are, and closed reservations that stay as they are, although the
\* backend takes no lock and lets a transition be resent.
THEOREM DynamoLifecycleCorrect == DSpec => []R!LifecycleInvariant /\ R!ClosedIsFinal
<1>1. RP!RSpec => []RP!LifecycleInvariant
  BY ProvedInstance, RP!LifecycleCorrect, OriginalAssumption, AmountsAssumption, FundsAssumption
<1>2. RP!RSpec => RP!ClosedIsFinal
  BY ProvedInstance, RP!ClosedIsFinalCorrect, OriginalAssumption, AmountsAssumption, FundsAssumption
<1>3. RP!LifecycleInvariant <=> R!LifecycleInvariant
  BY DEF R!LifecycleInvariant, RP!LifecycleInvariant, R!RTypeOK, RP!RTypeOK,
         R!Conservation, RP!Conservation, R!StatusMatchesAmounts, RP!StatusMatchesAmounts,
         R!ReservationRow, RP!ReservationRow, R!Statuses, RP!Statuses, R!Exists, RP!Exists,
         R!Closed, RP!Closed, R!FlowKeys, RP!FlowKeys, R!AccountNames, RP!AccountNames
<1>4. RP!ClosedIsFinal <=> R!ClosedIsFinal
  BY DEF R!ClosedIsFinal, RP!ClosedIsFinal, R!Exists, RP!Exists, R!Closed, RP!Closed,
         R!rvars, RP!rvars
<1> QED
  BY <1>1, <1>2, <1>3, <1>4, SameSpecification, ReservationsRefinement, PTL
     DEF ImplementsReservations
=============================================================================
