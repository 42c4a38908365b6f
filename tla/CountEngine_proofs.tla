-------------------------- MODULE CountEngine_proofs --------------------------
(***************************************************************************)
(* Theorems about CountEngine, for every catalogue, every set of payloads  *)
(* and every bound.                                                        *)
(***************************************************************************)
EXTENDS CountEngineRefinement, Ranks_proofs

-----------------------------------------------------------------------------
(* Type correctness.                                                       *)

\* The clients' payloads are well formed.
LEMMA InputIsPayload == ASSUME NEW s \in Inputs PROVE s \in Input
BY InputAssumption

\* A payload's target and domain exist.
LEMMA TargetType ==
    ASSUME NEW s \in Input
    PROVE  Target(s) \in Cells /\ Domain(s) \in Domains
BY DEF Target, Domain, Input, Cells, Domains

\* An admitted payload makes a well-formed event.
LEMMA EventOfType ==
    ASSUME TypeOK, NEW u \in Uuids, NEW s \in Inputs, Admissible(s)
    PROVE  EventOf(u, s) \in Event
<1>1. s \in Input BY InputIsPayload
<1>2. Target(s) \in Cells /\ Domain(s) \in Domains BY <1>1, TargetType
<1>3. qty[Domain(s)][Target(s)] \in Nat BY <1>2 DEF TypeOK, Quantities
<1>4. s.qty \in Nat /\ s.type \in EventTypes BY <1>1 DEF Input
<1>5. NewQuantity(s) \in Int BY <1>3, <1>4 DEF NewQuantity, EventTypes
<1>6. NewQuantity(s) \in Nat BY <1>5 DEF Admissible
<1> QED BY <1>2, <1>3, <1>6 DEF EventOf, Event

\* Writing an event keeps the counts well typed.
LEMMA WriteType ==
    ASSUME TypeOK, NEW e \in Event, Write(e)
    PROVE  /\ log' \in Seq(Event) /\ qty' \in Quantities
           /\ rows' \subseteq Cells /\ extra' \in Extras
<1>1. e.domain \in Domains /\ e.cell \in Cells /\ e.after \in Nat BY DEF Event
<1>2. log' \in Seq(Event) BY AppendProperties DEF Write, TypeOK
<1>3. qty' \in Quantities BY <1>1 DEF Write, TypeOK, Quantities
<1>4. rows' \subseteq Cells BY <1>1 DEF Write, TypeOK
<1>5. e.cell[2] \in Refs BY <1>1 DEF Cells
<1>6. extra' \in Extras BY <1>1, <1>5 DEF Write, TypeOK, Synced, Extras
<1> QED BY <1>2, <1>3, <1>4, <1>6

\* The event an undo writes.
UndoOf(i, u) ==
    [uuid |-> u, input |-> NoInput, cell |-> log[i].cell, domain |-> log[i].domain,
     before |-> qty[log[i].domain][log[i].cell], after |-> log[i].before, undoes |-> i]

\* An undo writes a well-formed event.
LEMMA UndoWrites ==
    ASSUME TypeOK, NEW i \in DOMAIN log, NEW u \in Uuids \cup {NoUuid}, UndoEvent(i, u)
    PROVE  UndoOf(i, u) \in Event /\ Write(UndoOf(i, u))
<1>1. log[i] \in Event BY ElementOfSeq DEF TypeOK
<1>2. i \in Nat BY DEF TypeOK
<1>3. qty[log[i].domain][log[i].cell] \in Nat BY <1>1 DEF TypeOK, Quantities, Event
<1> QED BY <1>1, <1>2, <1>3 DEF UndoEvent, UndoOf, Event

\* The empty transaction is well typed, ...
LEMMA NoBatchType ==
    NoBatch \in [open: BOOLEAN, left: Nat, log: Seq(Event), qty: Quantities,
                 rows: SUBSET Cells, extra: Extras]
<1>1. <<>> \in Seq(Event) OBVIOUS
<1>2. [d \in Domains |-> [c \in Cells |-> 0]] \in Quantities BY DEF Quantities
<1>3. [r \in Refs |-> NoRow] \in Extras BY DEF Extras
<1> QED BY <1>1, <1>2, <1>3 DEF NoBatch

\* ... and so are the initial states.
LEMMA InitType == Init => TypeOK
<1>1. <<>> \in Seq(Event) OBVIOUS
<1>2. [d \in Domains |-> [c \in Cells |-> 0]] \in Quantities BY DEF Quantities
<1>3. [r \in Refs |-> NoRow] \in Extras BY DEF Extras
<1> QED BY <1>1, <1>2, <1>3, NoBatchType DEF Init, TypeOK

\* The rows a transaction would roll back to are well typed.
LEMMA RollBackType ==
    ASSUME TypeOK, RollBack
    PROVE  /\ log' \in Seq(Event) /\ qty' \in Quantities
           /\ rows' \subseteq Cells /\ extra' \in Extras
BY DEF TypeOK, RollBack

\* Every step keeps the types.
LEMMA StepType ==
    ASSUME TypeOK, [Next]_vars
    PROVE  TypeOK'
<1>1. ASSUME NEW u \in Uuids, NEW s \in Inputs, PostEvent(u, s) PROVE TypeOK'
  <2>1. EventOf(u, s) \in Event /\ Write(EventOf(u, s))
    BY <1>1, EventOfType DEF PostEvent, Record
  <2> QED BY <1>1, <2>1, WriteType DEF PostEvent, TypeOK, life
<1>2. ASSUME NEW u \in Uuids, NEW s \in Inputs, BatchEvent(u, s) PROVE TypeOK'
  <2>1. EventOf(u, s) \in Event /\ Write(EventOf(u, s))
    BY <1>2, EventOfType DEF BatchEvent, Record
  <2> QED BY <1>2, <2>1, WriteType DEF BatchEvent, TypeOK, life
<1>3. ASSUME NEW u \in Uuids, NEW s \in Inputs, BatchReplay(u, s) PROVE TypeOK'
  BY <1>3 DEF BatchReplay, TypeOK, counts, life
<1>4. ASSUME NEW u \in Uuids, NEW s \in Inputs, BatchReject(u, s) PROVE TypeOK'
  BY <1>4, RollBackType, NoBatchType DEF BatchReject, TypeOK, life
<1>5. ASSUME NEW n \in 2..MaxBatch, OpenBatch(n) PROVE TypeOK'
  BY <1>5, BoundAssumption DEF OpenBatch, TypeOK, counts, life
<1>6. CASE BatchCommit BY <1>6, NoBatchType DEF BatchCommit, TypeOK, counts, life
<1>7. CASE BatchCrash BY <1>7, RollBackType, NoBatchType DEF BatchCrash, TypeOK, life
<1>8. ASSUME NEW i \in DOMAIN log, NEW u \in Uuids \cup {NoUuid}, UndoEvent(i, u)
      PROVE  TypeOK'
  <2>1. UndoOf(i, u) \in Event /\ Write(UndoOf(i, u)) BY <1>8, UndoWrites
  <2>2. UNCHANGED <<catalog, life, batch>> BY <1>8 DEF UndoEvent
  <2> QED BY <2>1, <2>2, WriteType DEF TypeOK, life
<1>9. CASE ExpireOnRequest BY <1>9, NoBatchType DEF ExpireOnRequest, TypeOK, counts
<1>10. CASE Submit \/ CancelCampaign \/ DeadlinePasses
  BY <1>10 DEF Submit, CancelCampaign, DeadlinePasses, TypeOK, counts
<1>11. ASSUME NEW b \in BOOLEAN, Reassign(b) \/ RequestRecount(b) \/ Reopen(b)
       PROVE  TypeOK'
  BY <1>11 DEF Reassign, RequestRecount, Reopen, TypeOK, counts
<1>12. ASSUME NEW r \in Refs, ImportProduct(r) PROVE TypeOK'
  BY <1>12 DEF ImportProduct, TypeOK, counts, life
<1>13. CASE UNCHANGED vars BY <1>13 DEF vars, TypeOK
<1> QED
  BY <1>1, <1>2, <1>3, <1>4, <1>5, <1>6, <1>7, <1>8, <1>9, <1>10, <1>11, <1>12, <1>13
  DEF Next

\* Every variable of a session keeps its type, whatever is posted, undone,
\* rolled back or reopened; in particular no quantity is ever negative.
THEOREM TypeCorrect == Spec => []TypeOK
<1>1. Init => TypeOK BY InitType
<1>2. TypeOK /\ [Next]_vars => TypeOK' BY StepType
<1> QED BY <1>1, <1>2, PTL DEF Spec

-----------------------------------------------------------------------------
(* What a step can do to the counts: write one event, take the writes of a *)
(* batch back, or leave them alone.  SavedKept says that what a batch would *)
(* go back to stays the same.                                              *)

SavedKept ==
    /\ batch'.open = batch.open /\ batch'.log = batch.log /\ batch'.qty = batch.qty
    /\ batch'.rows = batch.rows /\ batch'.extra = batch.extra

SavedNow ==
    /\ batch'.log = log /\ batch'.qty = qty /\ batch'.rows = rows /\ batch'.extra = extra

Recorded(u, s) == Countable /\ Record(u, s) /\ SavedKept

\* Every step is of one of these kinds.
LEMMA StepKinds ==
    ASSUME TypeOK, [Next]_vars
    PROVE  \/ \E u \in Uuids, s \in Inputs : Recorded(u, s)
           \/ \E i \in DOMAIN log, u \in Uuids \cup {NoUuid} : UndoEvent(i, u)
           \/ UNCHANGED counts /\ (SavedKept \/ SavedNow \/ ~batch'.open)
           \/ batch.open /\ RollBack /\ ~batch'.open
<1>1. ASSUME NEW u \in Uuids, NEW s \in Inputs, PostEvent(u, s) PROVE Recorded(u, s)
  BY <1>1 DEF PostEvent, Recorded, SavedKept
<1>2. ASSUME NEW u \in Uuids, NEW s \in Inputs, BatchEvent(u, s) PROVE Recorded(u, s)
  <2>1. Countable /\ Record(u, s) BY <1>2 DEF BatchEvent
  <2>2. SavedKept BY <1>2 DEF BatchEvent, SavedKept, TypeOK
  <2> QED BY <2>1, <2>2 DEF Recorded
<1>3. ASSUME NEW u \in Uuids, NEW s \in Inputs, BatchReplay(u, s)
      PROVE  UNCHANGED counts /\ SavedKept
  BY <1>3 DEF BatchReplay, SavedKept, TypeOK
<1>4. ASSUME NEW u \in Uuids, NEW s \in Inputs, BatchReject(u, s)
      PROVE  batch.open /\ RollBack /\ ~batch'.open
  BY <1>4 DEF BatchReject, NoBatch
<1>5. ASSUME NEW n \in 2..MaxBatch, OpenBatch(n) PROVE UNCHANGED counts /\ SavedNow
  BY <1>5 DEF OpenBatch, SavedNow
<1>6. CASE BatchCommit BY <1>6 DEF BatchCommit, NoBatch
<1>7. CASE BatchCrash BY <1>7 DEF BatchCrash, NoBatch
<1>8. CASE ExpireOnRequest BY <1>8 DEF ExpireOnRequest, NoBatch
<1>9. CASE Submit \/ CancelCampaign \/ DeadlinePasses
  BY <1>9 DEF Submit, CancelCampaign, DeadlinePasses, SavedKept
<1>10. ASSUME NEW b \in BOOLEAN, Reassign(b) \/ RequestRecount(b) \/ Reopen(b)
       PROVE  UNCHANGED counts /\ SavedKept
  BY <1>10 DEF Reassign, RequestRecount, Reopen, SavedKept
<1>11. ASSUME NEW r \in Refs, ImportProduct(r) PROVE UNCHANGED counts /\ SavedKept
  BY <1>11 DEF ImportProduct, SavedKept
<1>12. CASE UNCHANGED vars BY <1>12 DEF vars, counts, SavedKept
<1> QED
  BY <1>1, <1>2, <1>3, <1>4, <1>5, <1>6, <1>7, <1>8, <1>9, <1>10, <1>11, <1>12 DEF Next

-----------------------------------------------------------------------------
(* A closed session stands still.                                          *)

\* A batch is open only on an open session: whatever closes it takes the
\* campaign's lock, which the batch holds.
BatchOnOpenSession == batch.open => session = "IN_PROGRESS"

\* No step closes the session under an open batch.
LEMMA BatchOnOpenSessionStep ==
    ASSUME TypeOK, BatchOnOpenSession, [Next]_vars
    PROVE  BatchOnOpenSession'
<1>1. ASSUME NEW u \in Uuids, NEW s \in Inputs,
             PostEvent(u, s) \/ BatchEvent(u, s) \/ BatchReplay(u, s) \/ BatchReject(u, s)
      PROVE  BatchOnOpenSession'
  BY <1>1 DEF PostEvent, BatchEvent, BatchReplay, BatchReject, NoBatch, life,
              BatchOnOpenSession, TypeOK
<1>2. ASSUME NEW n \in 2..MaxBatch, OpenBatch(n) PROVE BatchOnOpenSession'
  BY <1>2 DEF OpenBatch, Countable, life, BatchOnOpenSession
<1>3. CASE BatchCommit \/ BatchCrash \/ ExpireOnRequest
  BY <1>3 DEF BatchCommit, BatchCrash, ExpireOnRequest, NoBatch, BatchOnOpenSession
<1>4. ASSUME NEW i \in DOMAIN log, NEW u \in Uuids \cup {NoUuid}, UndoEvent(i, u)
      PROVE  BatchOnOpenSession'
  BY <1>4 DEF UndoEvent, life, BatchOnOpenSession
<1>5. CASE Submit \/ CancelCampaign \/ DeadlinePasses
  BY <1>5 DEF Submit, CancelCampaign, DeadlinePasses, BatchOnOpenSession
<1>6. ASSUME NEW b \in BOOLEAN, Reassign(b) \/ RequestRecount(b) \/ Reopen(b)
      PROVE  BatchOnOpenSession'
  BY <1>6 DEF Reassign, RequestRecount, Reopen, BatchOnOpenSession
<1>7. ASSUME NEW r \in Refs, ImportProduct(r) PROVE BatchOnOpenSession'
  BY <1>7 DEF ImportProduct, life, BatchOnOpenSession
<1>8. CASE UNCHANGED vars BY <1>8 DEF vars, BatchOnOpenSession
<1> QED BY <1>1, <1>2, <1>3, <1>4, <1>5, <1>6, <1>7, <1>8 DEF Next

\* Once a session is submitted or cancelled nothing moves its counts.
THEOREM ClosedSessionIsFrozen == Spec => ClosedSessionFrozen
<1>1. Init => BatchOnOpenSession BY DEF Init, NoBatch, BatchOnOpenSession
<1>2. ASSUME TypeOK, BatchOnOpenSession, [Next]_vars
      PROVE  session # "IN_PROGRESS" => UNCHANGED counts
  <2> SUFFICES ASSUME session # "IN_PROGRESS" PROVE UNCHANGED counts OBVIOUS
  <2>1. ~batch.open BY <1>2 DEF BatchOnOpenSession
  <2>2. ~Countable BY DEF Countable
  <2> QED BY <1>2, <2>1, <2>2, StepKinds DEF Recorded, UndoEvent
<1>3. TypeOK /\ BatchOnOpenSession /\ [Next]_vars => BatchOnOpenSession'
  BY BatchOnOpenSessionStep
<1>4. TypeOK /\ BatchOnOpenSession /\ [Next]_vars
        => [session # "IN_PROGRESS" => UNCHANGED counts]_vars
  BY <1>2
<1> QED BY <1>1, <1>3, <1>4, TypeCorrect, PTL DEF Spec, ClosedSessionFrozen

-----------------------------------------------------------------------------
(* Never more damaged than counted.  Two things make it inductive: the     *)
(* quantities a batch would go back to are sound as well, and a payload is *)
(* compared with the other quantity of its cell when either moves.         *)

SoundQty(q) == \A c \in Cells : q["damage"][c] <= q["physical"][c]

SoundNowAndSaved == SoundQty(qty) /\ (batch.open => SoundQty(batch.qty))

\* A recorded event leaves every cell sound: each domain is checked against the other.
LEMMA RecordSound ==
    ASSUME TypeOK, SoundQty(qty), NEW u \in Uuids, NEW s \in Inputs, Record(u, s)
    PROVE  SoundQty(qty')
<1> DEFINE d == Domain(s)
           t == Target(s)
           n == NewQuantity(s)
<1>1. s \in Input BY InputIsPayload
<1>2. t \in Cells /\ d \in Domains BY <1>1, TargetType
<1>3. qty' = [qty EXCEPT ![d][t] = n] BY DEF Record, Write, EventOf
<1>4. qty \in Quantities BY DEF TypeOK
<1>5. s.qty \in Nat /\ s.type \in EventTypes BY <1>1 DEF Input
<1>6. CASE d = "physical"
  <2>1. n >= qty["damage"][t] BY <1>6 DEF Record, Admissible
  <2> QED BY <1>2, <1>3, <1>4, <1>6, <2>1 DEF Quantities, Domains, SoundQty
<1>7. CASE d = "damage"
  <2>1. s.type \in {"DAMAGE_ADD", "DAMAGE_SUBTRACT"} BY <1>7 DEF Domain
  <2>2. qty["damage"][t] \in Nat /\ qty["physical"][t] \in Nat
    BY <1>2, <1>4 DEF Quantities, Domains
  <2>3. n <= qty["physical"][t]
    <3>1. CASE s.type = "DAMAGE_ADD" BY <3>1 DEF Record, Admissible
    <3>2. CASE s.type = "DAMAGE_SUBTRACT"
      <4>1. n = qty["damage"][t] - s.qty BY <3>2, <1>7 DEF NewQuantity
      <4>2. qty["damage"][t] <= qty["physical"][t] BY <1>2 DEF SoundQty
      <4> QED BY <4>1, <4>2, <2>2, <1>5
    <3> QED BY <2>1, <3>1, <3>2
  <2> QED BY <1>2, <1>3, <1>4, <1>7, <2>3 DEF Quantities, Domains, SoundQty
<1> QED BY <1>2, <1>6, <1>7 DEF Domains

\* So does an undo.
LEMMA UndoSound ==
    ASSUME TypeOK, SoundQty(qty),
           NEW i \in DOMAIN log, NEW u \in Uuids \cup {NoUuid}, UndoEvent(i, u)
    PROVE  SoundQty(qty')
<1> DEFINE d == log[i].domain
           t == log[i].cell
           n == log[i].before
<1>1. log[i] \in Event BY ElementOfSeq DEF TypeOK
<1>2. t \in Cells /\ d \in Domains /\ n \in Nat BY <1>1 DEF Event
<1>3. qty' = [qty EXCEPT ![d][t] = n] BY DEF UndoEvent, Write
<1>4. qty \in Quantities BY DEF TypeOK
<1>5. IF d = "physical" THEN n >= qty["damage"][t] ELSE n <= qty["physical"][t]
  BY DEF UndoEvent
<1>6. CASE d = "physical"
  BY <1>2, <1>3, <1>4, <1>5, <1>6 DEF Quantities, Domains, SoundQty
<1>7. CASE d = "damage"
  BY <1>2, <1>3, <1>4, <1>5, <1>7 DEF Quantities, Domains, SoundQty
<1> QED BY <1>2, <1>6, <1>7 DEF Domains

\* Every step keeps both sound.
LEMMA SoundStep ==
    ASSUME TypeOK, SoundNowAndSaved, [Next]_vars
    PROVE  SoundNowAndSaved'
<1>1. ASSUME NEW u \in Uuids, NEW s \in Inputs, Recorded(u, s) PROVE SoundNowAndSaved'
  BY <1>1, RecordSound DEF Recorded, SavedKept, SoundNowAndSaved, SoundQty
<1>2. ASSUME NEW i \in DOMAIN log, NEW u \in Uuids \cup {NoUuid}, UndoEvent(i, u)
      PROVE  SoundNowAndSaved'
  <2>1. UNCHANGED batch BY <1>2 DEF UndoEvent
  <2> QED BY <1>2, <2>1, UndoSound DEF SoundNowAndSaved, SoundQty
<1>3. ASSUME UNCHANGED counts, SavedKept \/ SavedNow \/ ~batch'.open
      PROVE  SoundNowAndSaved'
  BY <1>3 DEF counts, SavedKept, SavedNow, SoundNowAndSaved, SoundQty
<1>4. ASSUME batch.open, RollBack, ~batch'.open PROVE SoundNowAndSaved'
  BY <1>4 DEF RollBack, SoundNowAndSaved, SoundQty
<1> QED BY <1>1, <1>2, <1>3, <1>4, StepKinds

\* Before the first event.
LEMMA SoundInit == Init => SoundNowAndSaved
BY DEF Init, NoBatch, SoundNowAndSaved, SoundQty, Domains

\* No sequence of counts, damage marks, undos, failed batches and retries
\* leaves a cell with more damaged than counted units.
THEOREM DamageStaysWithinPhysical == Spec => []DamageWithinPhysical
<1>1. TypeOK /\ SoundNowAndSaved /\ [Next]_vars => SoundNowAndSaved' BY SoundStep
<1>2. SoundNowAndSaved => DamageWithinPhysical
  BY DEF SoundNowAndSaved, SoundQty, DamageWithinPhysical
<1> QED BY <1>1, <1>2, SoundInit, TypeCorrect, PTL DEF Spec

-----------------------------------------------------------------------------
(* The history: each part is a condition on a log and the quantities, rows *)
(* and extras derived from it, so that it can be stated both of the state  *)
(* and of what an open batch would go back to.                             *)

Once(lg) ==
    /\ \A i, j \in DOMAIN lg : lg[i].uuid = lg[j].uuid /\ lg[i].uuid # NoUuid => i = j
    /\ \A i, j \in DOMAIN lg : lg[i].undoes = lg[j].undoes /\ lg[i].undoes # 0 => i = j
    /\ \A i \in DOMAIN lg : lg[i].undoes # 0 =>
          lg[i].undoes < i /\ lg[lg[i].undoes].undoes = 0

\* The events of a cell and domain, undos included.
Events(lg, d, c) == {i \in DOMAIN lg : lg[i].domain = d /\ lg[i].cell = c}

\* In the set S of positions of lg, each event starts where the one before it
\* ended, the first at 0, and the last one left the quantity q.
Linked(lg, S, q) ==
    /\ S = {} => q = 0
    /\ \A i \in S :
          /\ (\A j \in S : i <= j) => lg[i].before = 0
          /\ (\A j \in S : j <= i) => lg[i].after = q
          /\ \A j \in S : (i < j /\ ~\E k \in S : i < k /\ k < j)
                            => lg[j].before = lg[i].after

AllLinked(lg, q) == \A d \in Domains, c \in Cells : Linked(lg, Events(lg, d, c), q[d][c])

EffectiveLinked(lg, q) ==
    \A d \in Domains, c \in Cells : Linked(lg, Effective(lg, d, c), q[d][c])

\* The rows are those of the logged cells.
RowsLogged(lg, r) == r = {lg[i].cell : i \in DOMAIN lg}

\* The first event of an unknown code's cell is a scan.
UnknownScanned(lg) ==
    \A i \in DOMAIN lg :
        lg[i].cell[1] = "unknown" /\ (\A j \in DOMAIN lg : lg[j].cell = lg[i].cell => i <= j)
            => lg[i].undoes = 0 /\ lg[i].input.type = "QR_SCAN"

Mirrored(q, r, x) ==
    \A p \in Refs : x[p] = IF p \notin Snapshot /\ <<"product", p>> \in r
                           THEN q["physical"][<<"product", p>>] ELSE NoRow

\* What an appended event does to the log.
LEMMA WriteLog ==
    ASSUME TypeOK, NEW e \in Event, Write(e)
    PROVE  /\ Len(log) \in Nat /\ DOMAIN log = 1..Len(log)
           /\ DOMAIN log' = 1..(Len(log) + 1)
           /\ \A i \in DOMAIN log : log'[i] = log[i]
           /\ log'[Len(log) + 1] = e
BY AppendProperties, LenProperties DEF TypeOK, Write

\* A fresh event, undoing nothing or something not undone yet, is applied once.
LEMMA WriteOnce ==
    ASSUME TypeOK, Once(log), NEW e \in Event, Write(e),
           e.uuid # NoUuid => \A i \in DOMAIN log : log[i].uuid # e.uuid,
           e.undoes # 0 => /\ e.undoes \in DOMAIN log /\ log[e.undoes].undoes = 0
                           /\ \A j \in DOMAIN log : log[j].undoes # e.undoes
    PROVE  Once(log')
<1> DEFINE m == Len(log) + 1
<1>1. /\ Len(log) \in Nat /\ DOMAIN log = 1..Len(log) /\ DOMAIN log' = 1..m
      /\ \A i \in DOMAIN log : log'[i] = log[i]
      /\ log'[m] = e
  BY WriteLog
<1>2. \A i \in DOMAIN log' : i \in DOMAIN log \/ i = m BY <1>1
<1>3. ASSUME NEW i \in DOMAIN log', NEW j \in DOMAIN log',
             log'[i].uuid = log'[j].uuid, log'[i].uuid # NoUuid
      PROVE  i = j
  BY <1>1, <1>2, <1>3 DEF Once
<1>4. ASSUME NEW i \in DOMAIN log', NEW j \in DOMAIN log',
             log'[i].undoes = log'[j].undoes, log'[i].undoes # 0
      PROVE  i = j
  BY <1>1, <1>2, <1>4 DEF Once
<1>5. ASSUME NEW i \in DOMAIN log', log'[i].undoes # 0
      PROVE  log'[i].undoes < i /\ log'[log'[i].undoes].undoes = 0
  <2>1. CASE i = m BY <1>1, <1>5, <2>1
  <2>2. CASE i \in DOMAIN log
    <3>1. log[i].undoes < i /\ log[log[i].undoes].undoes = 0
      BY <1>1, <1>5, <2>2 DEF Once
    <3>2. log[i] \in Event BY <2>2, ElementOfSeq, <1>1 DEF TypeOK
    <3>3. log[i].undoes \in DOMAIN log BY <1>1, <1>5, <2>2, <3>1, <3>2 DEF Event
    <3> QED BY <1>1, <2>2, <3>1, <3>3
  <2> QED BY <1>2, <2>1, <2>2
<1> QED BY <1>3, <1>4, <1>5 DEF Once

\* The cell of an event has a row from then on.
LEMMA WriteRows ==
    ASSUME TypeOK, RowsLogged(log, rows), NEW e \in Event, Write(e)
    PROVE  RowsLogged(log', rows')
<1>1. rows' = rows \cup {e.cell} BY DEF Write
<1> QED BY <1>1, WriteLog DEF RowsLogged

\* An event that opens the cell of an unknown code has to be a scan.
LEMMA WriteScanned ==
    ASSUME TypeOK, UnknownScanned(log), RowsLogged(log, rows), NEW e \in Event, Write(e),
           e.cell[1] = "unknown" /\ e.cell \notin rows
               => e.undoes = 0 /\ e.input.type = "QR_SCAN"
    PROVE  UnknownScanned(log')
<1> DEFINE m == Len(log) + 1
<1>1. /\ Len(log) \in Nat /\ DOMAIN log = 1..Len(log) /\ DOMAIN log' = 1..m
      /\ \A i \in DOMAIN log : log'[i] = log[i]
      /\ log'[m] = e
  BY WriteLog
<1>2. SUFFICES ASSUME NEW i \in DOMAIN log', log'[i].cell[1] = "unknown",
                      \A j \in DOMAIN log' : log'[j].cell = log'[i].cell => i <= j
               PROVE  log'[i].undoes = 0 /\ log'[i].input.type = "QR_SCAN"
  BY DEF UnknownScanned
<1>3. CASE i = m
  <2>1. \A j \in DOMAIN log : log[j].cell # e.cell BY <1>1, <1>2, <1>3
  <2>2. e.cell \notin rows BY <2>1 DEF RowsLogged
  <2> QED BY <1>1, <1>2, <1>3, <2>2
<1>4. CASE i \in DOMAIN log
  <2>1. \A j \in DOMAIN log : log[j].cell = log[i].cell => i <= j BY <1>1, <1>2, <1>4
  <2> QED BY <1>1, <1>2, <1>4, <2>1 DEF UnknownScanned
<1> QED BY <1>1, <1>3, <1>4

\* A chain is extended by an event that starts where it ended, ...
LEMMA LinkedPush ==
    ASSUME NEW lg, NEW lg2, NEW n \in Nat, NEW S \in SUBSET (1..n), NEW q,
           Linked(lg, S, q), \A i \in S : lg2[i] = lg[i], lg2[n + 1].before = q
    PROVE  Linked(lg2, S \cup {n + 1}, lg2[n + 1].after)
<1> DEFINE T == S \cup {n + 1}
<1>1. ASSUME NEW i \in T, \A j \in T : i <= j PROVE lg2[i].before = 0
  <2>1. CASE i \in S BY <1>1, <2>1 DEF Linked
  <2>2. CASE i = n + 1
    <3>1. S = {} BY <1>1, <2>2
    <3> QED BY <2>2, <3>1 DEF Linked
  <2> QED BY <2>1, <2>2
<1>2. ASSUME NEW i \in T, \A j \in T : j <= i PROVE lg2[i].after = lg2[n + 1].after
  <2>1. i = n + 1 BY <1>2
  <2> QED BY <2>1
<1>3. ASSUME NEW i \in T, NEW j \in T, i < j, ~\E k \in T : i < k /\ k < j
      PROVE  lg2[j].before = lg2[i].after
  <2>1. i \in S BY <1>3
  <2>2. CASE j \in S
    <3>1. ~\E k \in S : i < k /\ k < j BY <1>3
    <3> QED BY <1>3, <2>1, <2>2, <3>1 DEF Linked
  <2>3. CASE j = n + 1
    <3>1. \A k \in S : k <= i BY <1>3, <2>1, <2>3
    <3> QED BY <2>1, <2>3, <3>1 DEF Linked
  <2> QED BY <2>2, <2>3
<1> QED BY <1>1, <1>2, <1>3 DEF Linked

\* ... and taking its last event away leaves the quantity that event started from.
LEMMA LinkedPop ==
    ASSUME NEW lg, NEW lg2, NEW n \in Nat, NEW S \in SUBSET (1..n), NEW q, NEW m \in S,
           Linked(lg, S, q), \A i \in S : lg2[i] = lg[i], \A i \in S : i <= m
    PROVE  Linked(lg2, S \ {m}, lg[m].before)
<1> DEFINE T == S \ {m}
<1>1. ASSUME T = {} PROVE lg[m].before = 0
  <2>1. \A j \in S : m <= j BY <1>1
  <2> QED BY <2>1 DEF Linked
<1>2. ASSUME NEW i \in T, \A j \in T : i <= j PROVE lg2[i].before = 0
  <2>1. \A j \in S : i <= j BY <1>2
  <2> QED BY <2>1 DEF Linked
<1>3. ASSUME NEW i \in T, \A j \in T : j <= i PROVE lg2[i].after = lg[m].before
  <2>1. i \in 1..n /\ m \in 1..n /\ i <= m /\ i # m BY <1>3
  <2>2. ASSUME NEW k \in S, i < k, k < m PROVE FALSE
    <3>1. k \in T /\ k \in 1..n BY <2>2, <2>1
    <3>2. k <= i BY <3>1, <1>3
    <3> QED BY <2>1, <2>2, <3>1, <3>2
  <2>3. i < m BY <2>1
  <2> QED BY <1>3, <2>2, <2>3 DEF Linked
<1>4. ASSUME NEW i \in T, NEW j \in T, i < j, ~\E k \in T : i < k /\ k < j
      PROVE  lg2[j].before = lg2[i].after
  <2>1. ~\E k \in S : i < k /\ k < j BY <1>4
  <2> QED BY <1>4, <2>1 DEF Linked
<1> QED BY <1>1, <1>2, <1>3, <1>4 DEF Linked

\* What is not in the chain does not matter.
LEMMA LinkedKeep ==
    ASSUME NEW lg, NEW lg2, NEW S, NEW q, Linked(lg, S, q), \A i \in S : lg2[i] = lg[i]
    PROVE  Linked(lg2, S, q)
BY DEF Linked

\* An event that starts from its cell's quantity extends the chain of its cell.
LEMMA WriteLinked ==
    ASSUME TypeOK, AllLinked(log, qty), NEW e \in Event, Write(e),
           e.before = qty[e.domain][e.cell]
    PROVE  AllLinked(log', qty')
<1> DEFINE m == Len(log) + 1
<1>1. /\ Len(log) \in Nat /\ DOMAIN log = 1..Len(log) /\ DOMAIN log' = 1..m
      /\ \A i \in DOMAIN log : log'[i] = log[i]
      /\ log'[m] = e
  BY WriteLog
<1>2. e.domain \in Domains /\ e.cell \in Cells BY DEF Event
<1>3. qty' = [qty EXCEPT ![e.domain][e.cell] = e.after] BY DEF Write
<1> SUFFICES ASSUME NEW d \in Domains, NEW c \in Cells
             PROVE  Linked(log', Events(log', d, c), qty'[d][c])
  BY DEF AllLinked
<1> DEFINE S == Events(log, d, c)
<1>4. Linked(log, S, qty[d][c]) BY DEF AllLinked
<1>5. S \subseteq 1..Len(log) BY <1>1 DEF Events
<1>6. CASE e.domain = d /\ e.cell = c
  <2>1. Events(log', d, c) = S \cup {m} BY <1>1, <1>6 DEF Events
  <2>2. qty'[d][c] = e.after BY <1>3, <1>6, <1>2 DEF TypeOK, Quantities
  <2>3. e.before = qty[d][c] BY <1>6
  <2>4. \A i \in S : log'[i] = log[i] BY <1>1, <1>5
  <2>5. log'[m].before = qty[d][c] /\ log'[m].after = qty'[d][c] BY <1>1, <2>2, <2>3
  <2> HIDE DEF S
  <2>6. Linked(log', S \cup {m}, log'[m].after) BY <1>1, <1>4, <1>5, <2>4, <2>5, LinkedPush
  <2> QED BY <2>1, <2>5, <2>6
<1>7. CASE ~(e.domain = d /\ e.cell = c)
  <2>1. Events(log', d, c) = S BY <1>1, <1>7 DEF Events
  <2>2. qty'[d][c] = qty[d][c] BY <1>3, <1>7, <1>2 DEF TypeOK, Quantities
  <2>3. \A i \in S : log'[i] = log[i] BY <1>1, <1>5
  <2> HIDE DEF S
  <2> QED BY <1>4, <2>1, <2>2, <2>3, LinkedKeep
<1> QED BY <1>6, <1>7

\* The extra of a product follows its total: damage moves neither, and needs a row.
LEMMA WriteMirrored ==
    ASSUME TypeOK, Mirrored(qty, rows, extra), NEW e \in Event, Write(e),
           e.domain = "damage" => e.cell \in rows
    PROVE  Mirrored(qty', rows', extra')
<1>1. e.domain \in Domains /\ e.cell \in Cells /\ e.after \in Nat BY DEF Event
<1>2. qty' = [qty EXCEPT ![e.domain][e.cell] = e.after] /\ rows' = rows \cup {e.cell}
  BY DEF Write
<1> SUFFICES ASSUME NEW p \in Refs
             PROVE  extra'[p] = IF p \notin Snapshot /\ <<"product", p>> \in rows'
                                THEN qty'["physical"][<<"product", p>>] ELSE NoRow
  BY DEF Mirrored
<1>3. extra[p] = IF p \notin Snapshot /\ <<"product", p>> \in rows
                 THEN qty["physical"][<<"product", p>>] ELSE NoRow
  BY DEF Mirrored
<1>4. <<"product", p>> \in Cells BY DEF Cells
<1>5. CASE e.domain = "damage"
  <2>1. extra' = extra /\ rows' = rows BY <1>2, <1>5 DEF Write
  <2>2. qty'["physical"] = qty["physical"]
    BY <1>1, <1>2, <1>5 DEF TypeOK, Quantities, Domains
  <2> QED BY <1>3, <2>1, <2>2
<1>6. CASE e.domain = "physical" /\ e.cell = <<"product", p>>
  <2>1. extra' = Synced(e.cell, e.after) BY <1>6 DEF Write
  <2>2. e.cell[1] = "product" /\ e.cell[2] = p BY <1>6
  <2>3. qty'["physical"][<<"product", p>>] = e.after
    BY <1>1, <1>2, <1>6 DEF TypeOK, Quantities, Domains
  <2> QED BY <1>2, <1>3, <1>6, <2>1, <2>2, <2>3 DEF Synced, TypeOK, Extras
<1>7. CASE e.domain = "physical" /\ e.cell # <<"product", p>>
  <2>1. extra' = Synced(e.cell, e.after) BY <1>7 DEF Write
  <2>2. ~(e.cell[1] = "product" /\ e.cell[2] = p) BY <1>1, <1>7 DEF Cells
  <2>3. extra'[p] = extra[p] BY <2>1, <2>2 DEF Synced, TypeOK, Extras
  <2>4. qty'["physical"][<<"product", p>>] = qty["physical"][<<"product", p>>]
    BY <1>1, <1>2, <1>4, <1>7 DEF TypeOK, Quantities, Domains
  <2>5. (<<"product", p>> \in rows') = (<<"product", p>> \in rows) BY <1>2, <1>7
  <2> QED BY <1>3, <2>3, <2>4, <2>5
<1> QED BY <1>1, <1>5, <1>6, <1>7 DEF Domains

\* A recorded event joins the effective events of its cell, ...
LEMMA EffectiveAfterRecord ==
    ASSUME TypeOK, Once(log), NEW e \in Event, Write(e), e.undoes = 0,
           NEW d \in Domains, NEW c \in Cells
    PROVE  Effective(log', d, c) =
             IF e.domain = d /\ e.cell = c
             THEN Effective(log, d, c) \cup {Len(log) + 1} ELSE Effective(log, d, c)
<1> DEFINE m == Len(log) + 1
<1>1. /\ Len(log) \in Nat /\ DOMAIN log = 1..Len(log) /\ DOMAIN log' = 1..m
      /\ \A i \in DOMAIN log : log'[i] = log[i]
      /\ log'[m] = e
  BY WriteLog
<1>2. ASSUME NEW j \in DOMAIN log PROVE log[j].undoes # m
  <2>1. log[j].undoes < j \/ log[j].undoes = 0 BY DEF Once
  <2>2. log[j] \in Event BY ElementOfSeq, <1>1 DEF TypeOK
  <2> QED BY <1>1, <2>1, <2>2 DEF Event
<1>3. \A i \in DOMAIN log' : i \in DOMAIN log \/ i = m BY <1>1
<1>4. DOMAIN log \subseteq DOMAIN log' /\ m \in DOMAIN log' /\ m \notin DOMAIN log /\ 0 \notin DOMAIN log'
  BY <1>1
<1>5. ASSUME NEW i \in DOMAIN log
      PROVE  (\A j \in DOMAIN log' : log'[j].undoes # i)
               <=> (\A j \in DOMAIN log : log[j].undoes # i)
  BY <1>1, <1>3, <1>4
<1>6. \A j \in DOMAIN log' : log'[j].undoes # m BY <1>1, <1>2, <1>3, <1>4
<1> HIDE DEF m
<1>7. \A i : i \in Effective(log', d, c) <=>
              i \in Effective(log, d, c) \/ (i = m /\ e.domain = d /\ e.cell = c)
  BY <1>1, <1>3, <1>4, <1>5, <1>6 DEF Effective
<1> QED BY <1>7 DEF m

\* ... and an undo takes the undone one away, whatever its cell.
LEMMA EffectiveAfterUndo ==
    ASSUME TypeOK, Once(log), NEW e \in Event, Write(e), e.undoes \in DOMAIN log,
           NEW d \in Domains, NEW c \in Cells
    PROVE  Effective(log', d, c) = Effective(log, d, c) \ {e.undoes}
<1> DEFINE m == Len(log) + 1
<1>1. /\ Len(log) \in Nat /\ DOMAIN log = 1..Len(log) /\ DOMAIN log' = 1..m
      /\ \A i \in DOMAIN log : log'[i] = log[i]
      /\ log'[m] = e
  BY WriteLog
<1>2. \A i \in DOMAIN log' : i \in DOMAIN log \/ i = m BY <1>1
<1>3. DOMAIN log \subseteq DOMAIN log' /\ m \in DOMAIN log' /\ m \notin DOMAIN log
  BY <1>1
<1>4. e.undoes # 0 BY <1>1
<1>5. ASSUME NEW i \in DOMAIN log
      PROVE  (\A j \in DOMAIN log' : log'[j].undoes # i)
               <=> i # e.undoes /\ (\A j \in DOMAIN log : log[j].undoes # i)
  BY <1>1, <1>2, <1>3
<1> HIDE DEF m
<1>6. \A i : i \in Effective(log', d, c) <=> i \in Effective(log, d, c) /\ i # e.undoes
  BY <1>1, <1>2, <1>3, <1>4, <1>5 DEF Effective
<1> QED BY <1>6

\* A recorded event extends the chain of effective events of its cell.
LEMMA RecordEffective ==
    ASSUME TypeOK, Once(log), EffectiveLinked(log, qty), NEW e \in Event, Write(e),
           e.undoes = 0, e.before = qty[e.domain][e.cell]
    PROVE  EffectiveLinked(log', qty')
<1> DEFINE m == Len(log) + 1
<1>1. /\ Len(log) \in Nat /\ DOMAIN log = 1..Len(log) /\ DOMAIN log' = 1..m
      /\ \A i \in DOMAIN log : log'[i] = log[i]
      /\ log'[m] = e
  BY WriteLog
<1>2. e.domain \in Domains /\ e.cell \in Cells BY DEF Event
<1>3. qty' = [qty EXCEPT ![e.domain][e.cell] = e.after] BY DEF Write
<1> SUFFICES ASSUME NEW d \in Domains, NEW c \in Cells
             PROVE  Linked(log', Effective(log', d, c), qty'[d][c])
  BY DEF EffectiveLinked
<1> DEFINE S == Effective(log, d, c)
<1>4. Linked(log, S, qty[d][c]) BY DEF EffectiveLinked
<1>5. S \subseteq 1..Len(log) BY <1>1 DEF Effective
<1>6. \A i \in S : log'[i] = log[i] BY <1>1, <1>5
<1>7. CASE e.domain = d /\ e.cell = c
  <2>1. Effective(log', d, c) = S \cup {m} BY <1>7, EffectiveAfterRecord
  <2>2. qty'[d][c] = e.after BY <1>3, <1>7, <1>2 DEF TypeOK, Quantities
  <2>3. log'[m].before = qty[d][c] /\ log'[m].after = qty'[d][c] BY <1>1, <1>7, <2>2
  <2> HIDE DEF S
  <2>4. Linked(log', S \cup {m}, log'[m].after) BY <1>1, <1>4, <1>5, <1>6, <2>3, LinkedPush
  <2> QED BY <2>1, <2>3, <2>4
<1>8. CASE ~(e.domain = d /\ e.cell = c)
  <2>1. Effective(log', d, c) = S BY <1>8, EffectiveAfterRecord
  <2>2. qty'[d][c] = qty[d][c] BY <1>3, <1>8, <1>2 DEF TypeOK, Quantities
  <2> HIDE DEF S
  <2> QED BY <1>4, <1>6, <2>1, <2>2, LinkedKeep
<1> QED BY <1>7, <1>8

\* An undo cuts the last link of the chain of its cell, and no other.
LEMMA UndoEffective ==
    ASSUME TypeOK, Once(log), EffectiveLinked(log, qty),
           NEW i \in DOMAIN log, NEW u \in Uuids \cup {NoUuid}, UndoEvent(i, u)
    PROVE  EffectiveLinked(log', qty')
<1> DEFINE e == UndoOf(i, u)
<1>1. e \in Event /\ Write(e) BY UndoWrites
<1>2. /\ Len(log) \in Nat /\ DOMAIN log = 1..Len(log)
      /\ \A j \in DOMAIN log : log'[j] = log[j]
  BY <1>1, WriteLog
<1>3. /\ e.domain = log[i].domain /\ e.cell = log[i].cell
      /\ e.after = log[i].before /\ e.undoes = i
  BY DEF UndoOf
<1>4. e.domain \in Domains /\ e.cell \in Cells BY <1>1 DEF Event
<1>5. qty' = [qty EXCEPT ![e.domain][e.cell] = e.after] BY <1>1 DEF Write
<1>6. Undoable(i) BY DEF UndoEvent
<1> HIDE DEF e
<1> SUFFICES ASSUME NEW d \in Domains, NEW c \in Cells
             PROVE  Linked(log', Effective(log', d, c), qty'[d][c])
  BY DEF EffectiveLinked
<1> DEFINE S == Effective(log, d, c)
<1>7. Linked(log, S, qty[d][c]) BY DEF EffectiveLinked
<1>8. S \subseteq 1..Len(log) BY <1>2 DEF Effective
<1>9. \A j \in S : log'[j] = log[j] BY <1>2, <1>8
<1>10. Effective(log', d, c) = S \ {i} BY <1>1, <1>3, EffectiveAfterUndo
<1>11. CASE e.domain = d /\ e.cell = c
  <2>1. i \in S /\ \A j \in S : j <= i BY <1>3, <1>6, <1>11 DEF Undoable
  <2>2. qty'[d][c] = log[i].before BY <1>3, <1>4, <1>5, <1>11 DEF TypeOK, Quantities
  <2> HIDE DEF S
  <2>3. Linked(log', S \ {i}, log[i].before)
    BY <1>2, <1>7, <1>8, <1>9, <2>1, LinkedPop
  <2> QED BY <1>10, <2>2, <2>3
<1>12. CASE ~(e.domain = d /\ e.cell = c)
  <2>1. i \notin S BY <1>3, <1>12 DEF Effective
  <2>2. qty'[d][c] = qty[d][c] BY <1>4, <1>5, <1>12 DEF TypeOK, Quantities
  <2> HIDE DEF S
  <2>3. S \ {i} = S BY <2>1
  <2> QED BY <1>7, <1>9, <1>10, <2>2, <2>3, LinkedKeep
<1> QED BY <1>11, <1>12

-----------------------------------------------------------------------------
(* The inductive invariant of the history, and the theorems it gives.      *)

History(lg, q, r, x) ==
    /\ Once(lg)
    /\ RowsLogged(lg, r)
    /\ UnknownScanned(lg)
    /\ AllLinked(lg, q)
    /\ EffectiveLinked(lg, q)
    /\ Mirrored(q, r, x)

HistoryInv ==
    /\ History(log, qty, rows, extra)
    /\ batch.open => History(batch.log, batch.qty, batch.rows, batch.extra)

\* A session starts with an empty history.
LEMMA EmptyHistory ==
    History(<<>>, [d \in Domains |-> [c \in Cells |-> 0]], {}, [r \in Refs |-> NoRow])
<1> DEFINE z == [d \in Domains |-> [c \in Cells |-> 0]]
<1>1. DOMAIN <<>> = {} OBVIOUS
<1>2. ASSUME NEW d \in Domains, NEW c \in Cells
      PROVE  Events(<<>>, d, c) = {} /\ Effective(<<>>, d, c) = {} /\ z[d][c] = 0
  BY <1>1 DEF Events, Effective
<1>3. AllLinked(<<>>, z) /\ EffectiveLinked(<<>>, z)
  BY <1>2 DEF AllLinked, EffectiveLinked, Linked
<1>4. Once(<<>>) /\ RowsLogged(<<>>, {}) /\ UnknownScanned(<<>>)
  BY <1>1 DEF Once, RowsLogged, UnknownScanned
<1>5. Mirrored(z, {}, [r \in Refs |-> NoRow]) BY DEF Mirrored
<1> QED BY <1>3, <1>4, <1>5 DEF History

\* A cell without a row has nothing in it.
LEMMA NoRowNoQuantity ==
    ASSUME TypeOK, RowsLogged(log, rows), AllLinked(log, qty),
           NEW c \in Cells, c \notin rows, NEW d \in Domains
    PROVE  qty[d][c] = 0
<1>1. Events(log, d, c) = {} BY DEF Events, RowsLogged
<1> QED BY <1>1 DEF AllLinked, Linked

\* A recorded event keeps every part of the history.
LEMMA RecordHistory ==
    ASSUME TypeOK, History(log, qty, rows, extra),
           NEW u \in Uuids, NEW s \in Inputs, Record(u, s)
    PROVE  History(log', qty', rows', extra')
<1> DEFINE e == EventOf(u, s)
<1>1. e \in Event /\ Write(e) BY EventOfType DEF Record
<1>2. /\ e.uuid = u /\ e.undoes = 0 /\ e.domain = Domain(s) /\ e.cell = Target(s)
      /\ e.before = qty[e.domain][e.cell]
  BY DEF EventOf
<1>3. \A i \in DOMAIN log : log[i].uuid # e.uuid BY <1>2 DEF Record, Fresh
<1>4. ASSUME e.domain = "damage" PROVE e.cell \in rows
  <2>1. e.cell \in Cells /\ "damage" \in Domains /\ "physical" \in Domains
    BY <1>1 DEF Event, Domains
  <2>2. SUFFICES ASSUME e.cell \notin rows PROVE FALSE OBVIOUS
  <2>3. qty["damage"][Target(s)] = 0 /\ qty["physical"][Target(s)] = 0
    BY <1>2, <2>1, <2>2, NoRowNoQuantity DEF History
  <2>4. s \in Input /\ s.qty \in Nat BY InputIsPayload DEF Input
  <2>5. s.type \in {"DAMAGE_ADD", "DAMAGE_SUBTRACT"} /\ Domain(s) = "damage"
    BY <1>2, <1>4 DEF Domain
  <2>6. s.qty > 0 BY <2>5 DEF Record, Admissible
  <2>7. CASE s.type = "DAMAGE_ADD"
    BY <2>3, <2>4, <2>5, <2>6, <2>7 DEF Record, Admissible, NewQuantity
  <2>8. CASE s.type = "DAMAGE_SUBTRACT"
    BY <2>3, <2>4, <2>5, <2>6, <2>8 DEF Record, Admissible, NewQuantity
  <2> QED BY <2>5, <2>7, <2>8
<1>5. e.cell[1] = "unknown" /\ e.cell \notin rows
        => e.undoes = 0 /\ e.input.type = "QR_SCAN"
  BY DEF EventOf, Target, Record, Resolves
<1> HIDE DEF e
<1>6. Once(log') BY <1>1, <1>2, <1>3, WriteOnce DEF History
<1>7. RowsLogged(log', rows') BY <1>1, WriteRows DEF History
<1>8. UnknownScanned(log') BY <1>1, <1>5, WriteScanned DEF History
<1>9. AllLinked(log', qty') BY <1>1, <1>2, WriteLinked DEF History
<1>10. EffectiveLinked(log', qty') BY <1>1, <1>2, RecordEffective DEF History
<1>11. Mirrored(qty', rows', extra') BY <1>1, <1>4, WriteMirrored DEF History
<1> QED BY <1>6, <1>7, <1>8, <1>9, <1>10, <1>11 DEF History

\* So does an undo.
LEMMA UndoHistory ==
    ASSUME TypeOK, History(log, qty, rows, extra),
           NEW i \in DOMAIN log, NEW u \in Uuids \cup {NoUuid}, UndoEvent(i, u)
    PROVE  History(log', qty', rows', extra')
<1> DEFINE e == UndoOf(i, u)
<1>1. e \in Event /\ Write(e) BY UndoWrites
<1>2. /\ e.uuid = u /\ e.undoes = i /\ e.cell = log[i].cell
      /\ e.before = qty[e.domain][e.cell]
  BY DEF UndoOf
<1>3. e.uuid # NoUuid => \A j \in DOMAIN log : log[j].uuid # e.uuid
  BY <1>2 DEF UndoEvent, Fresh
<1>4. log[i].undoes = 0 /\ \A j \in DOMAIN log : log[j].undoes # i
  BY DEF UndoEvent, Undoable, Effective
<1>5. e.cell \in rows BY <1>2 DEF History, RowsLogged
<1>6. EffectiveLinked(log', qty') BY UndoEffective DEF History
<1> HIDE DEF e
<1>7. Once(log') BY <1>1, <1>2, <1>3, <1>4, WriteOnce DEF History
<1>8. RowsLogged(log', rows') BY <1>1, WriteRows DEF History
<1>9. AllLinked(log', qty') BY <1>1, <1>2, WriteLinked DEF History
<1>10. Mirrored(qty', rows', extra') BY <1>1, <1>5, WriteMirrored DEF History
<1>11. UnknownScanned(log') BY <1>1, <1>5, WriteScanned DEF History
<1> QED BY <1>6, <1>7, <1>8, <1>9, <1>10, <1>11 DEF History

\* The history is kept by every step, and so is the one a batch would go back to.
LEMMA HistoryInvStep ==
    ASSUME TypeOK, HistoryInv, [Next]_vars
    PROVE  HistoryInv'
<1>1. History(log, qty, rows, extra) BY DEF HistoryInv
<1>2. ASSUME UNCHANGED counts, SavedKept PROVE HistoryInv'
  BY <1>2 DEF HistoryInv, counts, SavedKept
<1>3. ASSUME NEW u \in Uuids, NEW s \in Inputs, Recorded(u, s) PROVE HistoryInv'
  <2>1. History(log', qty', rows', extra') BY <1>1, <1>3, RecordHistory DEF Recorded
  <2> QED BY <1>3, <2>1 DEF HistoryInv, Recorded, SavedKept
<1>4. ASSUME NEW i \in DOMAIN log, NEW u \in Uuids \cup {NoUuid}, UndoEvent(i, u)
      PROVE  HistoryInv'
  <2>1. History(log', qty', rows', extra') BY <1>1, <1>4, UndoHistory
  <2>2. UNCHANGED batch BY <1>4 DEF UndoEvent
  <2> QED BY <2>1, <2>2 DEF HistoryInv
<1>5. ASSUME UNCHANGED counts, SavedNow \/ ~batch'.open PROVE HistoryInv'
  BY <1>1, <1>5 DEF HistoryInv, counts, SavedNow
<1>6. ASSUME batch.open, RollBack, ~batch'.open PROVE HistoryInv'
  BY <1>6 DEF HistoryInv, RollBack
<1> QED BY <1>2, <1>3, <1>4, <1>5, <1>6, StepKinds

\* The history of a session holds together at all times: the inductive invariant
\* from which the five theorems below follow.
THEOREM HistoryHolds == Spec => []HistoryInv
<1>1. Init => HistoryInv BY EmptyHistory DEF Init, NoBatch, HistoryInv
<1>2. TypeOK /\ HistoryInv /\ [Next]_vars => HistoryInv' BY HistoryInvStep
<1> QED BY <1>1, <1>2, TypeCorrect, PTL DEF Spec

\* Today's quantity of a cell is what the last event still in force left.
THEOREM QuantityFollowsLog == Spec => []QuantityIsLastEffective
<1>1. HistoryInv => QuantityIsLastEffective
  BY DEF HistoryInv, History, EffectiveLinked, Linked, QuantityIsLastEffective
<1> QED BY <1>1, HistoryHolds, PTL

\* The events of a cell, undos included, form an unbroken chain of quantities.
THEOREM AuditChainHolds == Spec => []AuditChainUnbroken
<1>1. HistoryInv => AuditChainUnbroken
  BY DEF HistoryInv, History, AllLinked, Events, Linked, AuditChainUnbroken
<1> QED BY <1>1, HistoryHolds, PTL

\* No retry is applied twice, nothing is undone twice, no undo is undone.
THEOREM EventsAppliedOnce == Spec => []AppliedOnce
<1>1. HistoryInv => AppliedOnce BY DEF HistoryInv, History, Once, AppliedOnce
<1> QED BY <1>1, HistoryHolds, PTL

\* The extra items are the counted products outside the snapshot, with their
\* official quantity.
THEOREM ExtrasMirrorTotals == Spec => []ExtraMirrorsTotal
<1>1. HistoryInv => ExtraMirrorsTotal
  BY DEF HistoryInv, History, Mirrored, ExtraMirrorsTotal
<1> QED BY <1>1, HistoryHolds, PTL

\* Totals and unknown rows are those of the log's cells, and an unknown code
\* begins with a scan, whichever batches failed in between.
THEOREM RowsFollowLog == Spec => []RowsAreLogged
<1>1. HistoryInv => RowsAreLogged
  BY DEF HistoryInv, History, RowsLogged, UnknownScanned, RowsAreLogged
<1> QED BY <1>1, HistoryHolds, PTL

-----------------------------------------------------------------------------
(* The session implements CountLedger.  A cell's pile grows with a         *)
(* recorded event and shrinks with an undo, because positions above all    *)
(* others come last in rank; its top is today's quantity.  A batch is one  *)
(* step of the ledger: what it has written so far extends the piles it     *)
(* would go back to, which is what BatchGrows adds to the invariant.       *)

Afters(lg) == [i \in DOMAIN lg |-> lg[i].after]

\* The effective events are positions of the log, with quantities.
LEMMA EffectivePositions ==
    ASSUME NEW lg \in Seq(Event), NEW d, NEW c
    PROVE  /\ Len(lg) \in Nat /\ Effective(lg, d, c) \in SUBSET (1..Len(lg))
           /\ \A i \in Effective(lg, d, c) : Afters(lg)[i] = lg[i].after /\ Afters(lg)[i] \in Nat
<1>1. \A i \in DOMAIN lg : lg[i] \in Event BY ElementOfSeq
<1>2. \A i \in DOMAIN lg : lg[i].after \in Nat BY <1>1 DEF Event
<1> QED BY <1>2, LenProperties DEF Effective, Afters

\* A pile consists of quantities.
LEMMA PileType ==
    ASSUME NEW lg \in Seq(Event), NEW d, NEW c
    PROVE  Pile(lg, d, c) \in Seq(Nat)
<1> DEFINE S == Effective(lg, d, c)
<1>1. Len(lg) \in Nat /\ S \in SUBSET (1..Len(lg)) /\ \A i \in S : Afters(lg)[i] \in Nat
  BY EffectivePositions
<1> HIDE DEF S
<1>2. Picked(Afters(lg), S) \in Seq(Nat) BY <1>1, PickedType
<1> QED BY <1>2 DEF S, Pile, Afters

\* The top of a pile is the quantity of its cell.
LEMMA PileTop ==
    ASSUME NEW lg \in Seq(Event), NEW q, EffectiveLinked(lg, q),
           NEW d \in Domains, NEW c \in Cells
    PROVE  Ledger!Top(Pile(lg, d, c)) = q[d][c]
<1> DEFINE S == Effective(lg, d, c)
           n == Len(lg)
<1>1. /\ n \in Nat /\ S \in SUBSET (1..n)
      /\ \A i \in S : Afters(lg)[i] = lg[i].after /\ Afters(lg)[i] \in Nat
  BY EffectivePositions
<1>2. Linked(lg, S, q[d][c]) BY DEF EffectiveLinked
<1>3. Pile(lg, d, c) = Picked(Afters(lg), S) BY DEF Pile, Afters
<1> HIDE DEF S, n
<1>4. CASE S = {}
  <2>1. Cardinality(S) = 0 BY <1>4, FS_EmptySet
  <2>2. Picked(Afters(lg), S) = <<>> BY <2>1 DEF Picked
  <2> QED BY <1>2, <1>3, <1>4, <2>2 DEF Ledger!Top, Linked
<1>5. CASE S # {}
  <2>1. PICK m \in S : \A j \in S : j <= m
    <3>1. S \in SUBSET Nat /\ \A j \in S : j <= n BY <1>1
    <3> QED BY <1>1, <1>5, <3>1, LargestNatural
  <2>2. q[d][c] = lg[m].after BY <1>2, <2>1 DEF Linked
  <2>3. /\ Picked(Afters(lg), S) # <<>>
        /\ Picked(Afters(lg), S)[Len(Picked(Afters(lg), S))] = Afters(lg)[m]
    BY <1>1, <2>1, PickedFront
  <2> QED BY <1>1, <1>3, <2>2, <2>3 DEF Ledger!Top
<1> QED BY <1>4, <1>5

\* A recorded event puts its quantity on the pile of its cell, ...
LEMMA PileAfterRecord ==
    ASSUME TypeOK, Once(log), NEW e \in Event, Write(e), e.undoes = 0, log' \in Seq(Event),
           NEW d \in Domains, NEW c \in Cells
    PROVE  Pile(log', d, c) = IF e.domain = d /\ e.cell = c
                              THEN Append(Pile(log, d, c), e.after) ELSE Pile(log, d, c)
<1> DEFINE S == Effective(log, d, c)
           n == Len(log)
           m == n + 1
<1>1. /\ n \in Nat /\ DOMAIN log = 1..n /\ DOMAIN log' = 1..m
      /\ \A i \in DOMAIN log : log'[i] = log[i]
      /\ log'[m] = e
  BY WriteLog
<1>2. /\ S \in SUBSET (1..n)
      /\ \A i \in S : Afters(log)[i] = log[i].after /\ Afters(log)[i] \in Nat
  BY EffectivePositions DEF TypeOK
<1>3. \A i \in S : Afters(log')[i] = Afters(log)[i] BY <1>1, <1>2 DEF Afters
<1>4. Afters(log')[m] = e.after /\ e.after \in Nat BY <1>1 DEF Afters, Event
<1>5. Pile(log, d, c) = Picked(Afters(log), S) BY DEF Pile, Afters
<1>6. Pile(log', d, c) = Picked(Afters(log'), Effective(log', d, c)) BY DEF Pile, Afters
<1>7. Effective(log', d, c) = IF e.domain = d /\ e.cell = c THEN S \cup {m} ELSE S
  BY EffectiveAfterRecord
<1> HIDE DEF S
<1>8. Picked(Afters(log'), S) = Picked(Afters(log), S) BY <1>1, <1>2, <1>3, PickedSame
<1>9. Picked(Afters(log'), S \cup {m}) = Append(Picked(Afters(log'), S), Afters(log')[m])
  <2>1. n \in Nat /\ S \in SUBSET (1..n) BY <1>1, <1>2
  <2>2. \A j \in S \cup {m} : Afters(log')[j] \in Nat BY <1>2, <1>3, <1>4
  <2> HIDE DEF n
  <2>3. m \in Nat /\ \A j \in S : j < m BY <2>1
  <2> HIDE DEF m
  <2> QED BY <2>1, <2>2, <2>3, PickedAppend
<1> QED BY <1>4, <1>5, <1>6, <1>7, <1>8, <1>9

\* ... and an undo takes it off again.
LEMMA PileAfterUndo ==
    ASSUME TypeOK, Once(log), NEW i \in DOMAIN log, NEW u \in Uuids \cup {NoUuid},
           UndoEvent(i, u), NEW d \in Domains, NEW c \in Cells
    PROVE  IF log[i].domain = d /\ log[i].cell = c
           THEN /\ Pile(log, d, c) # <<>>
                /\ Pile(log', d, c) = SubSeq(Pile(log, d, c), 1, Len(Pile(log, d, c)) - 1)
           ELSE Pile(log', d, c) = Pile(log, d, c)
<1> DEFINE S == Effective(log, d, c)
           n == Len(log)
           e == UndoOf(i, u)
<1>1. e \in Event /\ Write(e) /\ e.undoes = i BY UndoWrites DEF UndoOf
<1>2. /\ n \in Nat /\ DOMAIN log = 1..n /\ DOMAIN log' = 1..(n + 1)
      /\ \A j \in DOMAIN log : log'[j] = log[j]
  BY <1>1, WriteLog
<1>3. /\ S \in SUBSET (1..n)
      /\ \A j \in S : Afters(log)[j] = log[j].after /\ Afters(log)[j] \in Nat
  BY EffectivePositions DEF TypeOK
<1>4. \A j \in S : Afters(log')[j] = Afters(log)[j] BY <1>2, <1>3 DEF Afters
<1>5. Pile(log, d, c) = Picked(Afters(log), S) BY DEF Pile, Afters
<1>6. Pile(log', d, c) = Picked(Afters(log'), Effective(log', d, c)) BY DEF Pile, Afters
<1>7. Effective(log', d, c) = S \ {i}
  <2> HIDE DEF e
  <2> QED BY <1>1, EffectiveAfterUndo
<1>8. Picked(Afters(log'), S \ {i}) = Picked(Afters(log), S \ {i})
  <2> DEFINE R == S \ {i}
  <2>1. R \in SUBSET (1..n) /\ \A j \in R : Afters(log')[j] = Afters(log)[j] BY <1>3, <1>4
  <2> HIDE DEF R
  <2> QED BY <1>2, <2>1, PickedSame DEF R
<1>9. CASE log[i].domain = d /\ log[i].cell = c
  <2>1. i \in S /\ \A j \in S : j <= i BY <1>9 DEF UndoEvent, Undoable
  <2> HIDE DEF S
  <2>2. /\ Picked(Afters(log), S) # <<>>
        /\ Picked(Afters(log), S \ {i})
             = SubSeq(Picked(Afters(log), S), 1, Len(Picked(Afters(log), S)) - 1)
    BY <1>2, <1>3, <2>1, PickedFront
  <2> QED BY <1>5, <1>6, <1>7, <1>8, <1>9, <2>2
<1>10. CASE ~(log[i].domain = d /\ log[i].cell = c)
  <2>1. S \ {i} = S BY <1>10 DEF Effective
  <2> HIDE DEF S
  <2> QED BY <1>5, <1>6, <1>7, <1>8, <1>10, <2>1
<1> QED BY <1>9, <1>10

\* A pile is a prefix of itself, and of whatever extends a pile it is a prefix of.
LEMMA PrefixFacts ==
    ASSUME NEW a \in Seq(Nat), NEW b \in Seq(Nat), NEW x \in Nat
    PROVE  /\ Ledger!Prefix(a, a)
           /\ Ledger!Prefix(a, b) => Ledger!Prefix(a, Append(b, x))
BY DEF Ledger!Prefix

\* What an open batch has recorded lies on top of the piles it would go back to.
BatchGrows ==
    batch.open => \A d \in Domains, c \in Cells :
                     Ledger!Prefix(Pile(batch.log, d, c), Pile(log, d, c))

\* Recording extends the piles.
LEMMA RecordGrows ==
    ASSUME TypeOK, HistoryInv, NEW u \in Uuids, NEW s \in Inputs, Record(u, s),
           NEW lg \in Seq(Event), NEW d \in Domains, NEW c \in Cells,
           Ledger!Prefix(Pile(lg, d, c), Pile(log, d, c))
    PROVE  Ledger!Prefix(Pile(lg, d, c), Pile(log', d, c))
<1> DEFINE e == EventOf(u, s)
<1>1. e \in Event /\ Write(e) BY EventOfType DEF Record
<1>2. e.undoes = 0 /\ e.after \in Nat BY <1>1 DEF EventOf, Event
<1> HIDE DEF e
<1>3. log' \in Seq(Event) BY <1>1, WriteType
<1>4. Pile(log', d, c) = IF e.domain = d /\ e.cell = c
                         THEN Append(Pile(log, d, c), e.after) ELSE Pile(log, d, c)
  BY <1>1, <1>2, <1>3, PileAfterRecord DEF HistoryInv, History
<1>5. Pile(lg, d, c) \in Seq(Nat) /\ Pile(log, d, c) \in Seq(Nat) BY PileType DEF TypeOK
<1> QED BY <1>2, <1>4, <1>5, PrefixFacts

\* Every step of a batch keeps the piles it would go back to at the bottom.
LEMMA BatchGrowsStep ==
    ASSUME TypeOK, HistoryInv, BatchGrows, [Next]_vars
    PROVE  BatchGrows'
<1>1. ASSUME NEW u \in Uuids, NEW s \in Inputs, Recorded(u, s) PROVE BatchGrows'
  <2> SUFFICES ASSUME batch.open, NEW d \in Domains, NEW c \in Cells
               PROVE  Ledger!Prefix(Pile(batch.log, d, c), Pile(log', d, c))
    BY <1>1 DEF Recorded, SavedKept, BatchGrows
  <2>1. batch.log \in Seq(Event) BY DEF TypeOK
  <2>2. Ledger!Prefix(Pile(batch.log, d, c), Pile(log, d, c)) BY DEF BatchGrows
  <2>3. Record(u, s) BY <1>1 DEF Recorded
  <2> QED BY <2>1, <2>2, <2>3, RecordGrows
<1>2. ASSUME NEW i \in DOMAIN log, NEW u \in Uuids \cup {NoUuid}, UndoEvent(i, u)
      PROVE  BatchGrows'
  BY <1>2 DEF UndoEvent, BatchGrows
<1>3. ASSUME UNCHANGED counts, SavedKept \/ ~batch'.open PROVE BatchGrows'
  BY <1>3 DEF counts, SavedKept, BatchGrows
<1>4. ASSUME UNCHANGED counts, SavedNow PROVE BatchGrows'
  <2>1. log' = log /\ batch'.log = log /\ log \in Seq(Event)
    BY <1>4 DEF counts, SavedNow, TypeOK
  <2>2. \A d \in Domains, c \in Cells : Ledger!Prefix(Pile(log, d, c), Pile(log, d, c))
    BY <2>1, PileType, PrefixFacts
  <2> QED BY <2>1, <2>2 DEF BatchGrows
<1>5. ASSUME ~batch'.open PROVE BatchGrows' BY <1>5 DEF BatchGrows
<1> QED BY <1>1, <1>2, <1>3, <1>4, <1>5, StepKinds

-----------------------------------------------------------------------------
(* Each step is one of the ledger or changes nothing of it.                *)

LedgerInv ==
    TypeOK /\ HistoryInv /\ SoundNowAndSaved /\ BatchOnOpenSession /\ BatchGrows

\* A log whose quantities are sound makes sound piles.
LEMMA PilesSound ==
    ASSUME NEW lg \in Seq(Event), NEW q, EffectiveLinked(lg, q), SoundQty(q)
    PROVE  Ledger!Sound(PilesOf(lg))
<1> SUFFICES ASSUME NEW c \in Cells
             PROVE  Ledger!Top(PilesOf(lg)["damage"][c]) <= Ledger!Top(PilesOf(lg)["physical"][c])
  BY DEF Ledger!Sound
<1>1. "damage" \in Domains /\ "physical" \in Domains BY DEF Domains
<1>2. /\ Ledger!Top(Pile(lg, "damage", c)) = q["damage"][c]
      /\ Ledger!Top(Pile(lg, "physical", c)) = q["physical"][c]
  BY <1>1, PileTop
<1>3. /\ PilesOf(lg)["damage"][c] = Pile(lg, "damage", c)
      /\ PilesOf(lg)["physical"][c] = Pile(lg, "physical", c)
  BY <1>1 DEF PilesOf
<1> QED BY <1>2, <1>3 DEF SoundQty

\* The piles of the log grow on an open session: the ledger counts.
LEMMA CountStep ==
    ASSUME LedgerInv, LedgerInv', session = "IN_PROGRESS", session' = session, ~batch'.open,
           \A d \in Domains, c \in Cells :
               Ledger!Prefix(Pile(Committed, d, c), Pile(log', d, c))
    PROVE  Ledger!Count
<1>1. Piles = PilesOf(Committed) /\ Piles' = PilesOf(log') BY DEF Committed, Piles
<1>2. Ledger!Sound(PilesOf(log'))
  <2>1. log' \in Seq(Event) /\ EffectiveLinked(log', qty') /\ SoundQty(qty')
    BY DEF LedgerInv, TypeOK, HistoryInv, History, SoundNowAndSaved, SoundQty
  <2> QED BY <2>1, PilesSound
<1>3. \A d \in Domains, c \in Cells :
         Ledger!Prefix(PilesOf(Committed)[d][c], PilesOf(log')[d][c])
  BY DEF PilesOf
<1>4. Ledger!Kinds = Domains BY DEF Ledger!Kinds, Domains
<1> QED BY <1>1, <1>2, <1>3, <1>4 DEF Ledger!Count

\* A recorded event of a request of its own.
LEMMA PostCounts ==
    ASSUME LedgerInv, LedgerInv', NEW u \in Uuids, NEW s \in Inputs, PostEvent(u, s)
    PROVE  Ledger!Count
<1>1. /\ ~batch.open /\ ~batch'.open /\ session = "IN_PROGRESS" /\ session' = session
      /\ Record(u, s)
  BY DEF PostEvent, Countable, life
<1>2. Committed = log /\ log \in Seq(Event) BY <1>1 DEF Committed, LedgerInv, TypeOK
<1>3. ASSUME NEW d \in Domains, NEW c \in Cells
      PROVE  Ledger!Prefix(Pile(log, d, c), Pile(log', d, c))
  <2>1. Ledger!Prefix(Pile(log, d, c), Pile(log, d, c)) BY <1>2, PileType, PrefixFacts
  <2> QED BY <1>1, <1>2, <2>1, RecordGrows DEF LedgerInv
<1> QED BY <1>1, <1>2, <1>3, CountStep

\* A batch that ends with its events in the log.
LEMMA BatchCounts ==
    ASSUME LedgerInv, LedgerInv', batch.open, ~batch'.open, UNCHANGED <<counts, session>>
    PROVE  Ledger!Count
<1>1. session = "IN_PROGRESS" /\ session' = session BY DEF LedgerInv, BatchOnOpenSession
<1>2. Committed = batch.log /\ log' = log BY DEF Committed, counts
<1>3. \A d \in Domains, c \in Cells : Ledger!Prefix(Pile(Committed, d, c), Pile(log', d, c))
  BY <1>2 DEF LedgerInv, BatchGrows
<1> QED BY <1>1, <1>3, CountStep

\* An undo is the ledger's: it takes the last quantity off its pile.
LEMMA UndoUndoes ==
    ASSUME LedgerInv, LedgerInv', NEW i \in DOMAIN log, NEW u \in Uuids \cup {NoUuid},
           UndoEvent(i, u)
    PROVE  Ledger!Undo
<1> DEFINE d0 == log[i].domain
           c0 == log[i].cell
<1>1. ~batch.open /\ ~batch'.open /\ session = "IN_PROGRESS" /\ session' = session
  BY DEF UndoEvent, Countable, life
<1>2. Piles = PilesOf(log) /\ Piles' = PilesOf(log') BY <1>1 DEF Committed, Piles
<1>3. d0 \in Domains /\ c0 \in Cells
  <2>1. log[i] \in Event BY ElementOfSeq DEF LedgerInv, TypeOK
  <2> QED BY <2>1 DEF Event
<1>4. /\ Pile(log, d0, c0) # <<>>
      /\ Pile(log', d0, c0) = SubSeq(Pile(log, d0, c0), 1, Len(Pile(log, d0, c0)) - 1)
  BY <1>3, PileAfterUndo DEF LedgerInv, HistoryInv, History
<1>5. ASSUME NEW d \in Domains, NEW c \in Cells, ~(d = d0 /\ c = c0)
      PROVE  Pile(log', d, c) = Pile(log, d, c)
  BY <1>5, PileAfterUndo DEF LedgerInv, HistoryInv, History
<1> HIDE DEF d0, c0
<1>6. PilesOf(log')
        = [PilesOf(log) EXCEPT ![d0][c0] =
              SubSeq(Pile(log, d0, c0), 1, Len(Pile(log, d0, c0)) - 1)]
  BY <1>3, <1>4, <1>5 DEF PilesOf
<1>7. PilesOf(log)[d0][c0] = Pile(log, d0, c0) BY <1>3 DEF PilesOf
<1>8. Ledger!Sound(PilesOf(log'))
  <2>1. log' \in Seq(Event) /\ EffectiveLinked(log', qty') /\ SoundQty(qty')
    BY DEF LedgerInv, TypeOK, HistoryInv, History, SoundNowAndSaved, SoundQty
  <2> QED BY <2>1, PilesSound
<1>9. Ledger!Kinds = Domains BY DEF Ledger!Kinds, Domains
<1>10. PilesOf(log')
         = [PilesOf(log) EXCEPT ![d0][c0] =
               SubSeq(PilesOf(log)[d0][c0], 1, Len(PilesOf(log)[d0][c0]) - 1)]
  BY <1>6, <1>7
<1>11. \E d \in Ledger!Kinds, c \in Cells :
          /\ PilesOf(log)[d][c] # <<>>
          /\ PilesOf(log') = [PilesOf(log) EXCEPT ![d][c] =
                               SubSeq(PilesOf(log)[d][c], 1, Len(PilesOf(log)[d][c]) - 1)]
  BY <1>3, <1>4, <1>7, <1>9, <1>10
<1> QED BY <1>1, <1>2, <1>8, <1>11 DEF Ledger!Undo

\* A step that leaves the committed log alone closes the session or nothing.
LEMMA QuietStep ==
    ASSUME Committed' = Committed, session' = session \/ session' # "IN_PROGRESS"
    PROVE  [Ledger!Next]_(Ledger!vars)
<1>3. Piles' = Piles BY DEF Piles
<1>1. CASE session' = "IN_PROGRESS" BY <1>1, <1>3 DEF Ledger!vars
<1>2. CASE session' # "IN_PROGRESS" BY <1>2, <1>3 DEF Ledger!Next, Ledger!Close
<1> QED BY <1>1, <1>2

\* Every step is one of the ledger's, or none.
LEMMA LedgerStep ==
    ASSUME LedgerInv, LedgerInv', [Next]_vars
    PROVE  [Ledger!Next]_(Ledger!vars)
<1>1. ASSUME NEW u \in Uuids, NEW s \in Inputs, PostEvent(u, s) PROVE Ledger!Next
  BY <1>1, PostCounts DEF Ledger!Next
<1>2. ASSUME NEW u \in Uuids, NEW s \in Inputs, BatchEvent(u, s) \/ BatchReplay(u, s)
      PROVE  [Ledger!Next]_(Ledger!vars)
  <2>1. batch.open /\ batch'.open /\ batch'.log = batch.log /\ session' = session
    BY <1>2 DEF BatchEvent, BatchReplay, LedgerInv, TypeOK, life
  <2> QED BY <2>1, QuietStep DEF Committed
<1>13. ASSUME batch.open, RollBack, batch' = NoBatch, session' = session
       PROVE  [Ledger!Next]_(Ledger!vars)
  BY <1>13, QuietStep DEF Committed, RollBack, NoBatch
<1>3. ASSUME NEW u \in Uuids, NEW s \in Inputs, BatchReject(u, s)
      PROVE  [Ledger!Next]_(Ledger!vars)
  BY <1>3, <1>13 DEF BatchReject, life
<1>14. CASE BatchCrash BY <1>13, <1>14 DEF BatchCrash, life
<1>4. CASE BatchCommit \/ (ExpireOnRequest /\ batch.open)
  <2>1. batch.open /\ ~batch'.open /\ UNCHANGED <<counts, session>>
    BY <1>4 DEF BatchCommit, ExpireOnRequest, NoBatch, life
  <2> QED BY <2>1, BatchCounts DEF Ledger!Next
<1>5. ASSUME NEW n \in 2..MaxBatch, OpenBatch(n) PROVE [Ledger!Next]_(Ledger!vars)
  <2>1. ~batch.open /\ batch'.open /\ batch'.log = log /\ session' = session
    BY <1>5 DEF OpenBatch, life
  <2> QED BY <2>1, QuietStep DEF Committed
<1>6. ASSUME NEW i \in DOMAIN log, NEW u \in Uuids \cup {NoUuid}, UndoEvent(i, u)
      PROVE  Ledger!Next
  BY <1>6, UndoUndoes DEF Ledger!Next
<1>7. CASE ExpireOnRequest /\ ~batch.open
  <2>1. ~batch'.open /\ log' = log /\ session' = session
    BY <1>7 DEF ExpireOnRequest, NoBatch, counts
  <2> QED BY <1>7, <2>1, QuietStep DEF Committed
<1>8. ASSUME UNCHANGED <<log, batch>>, session' = session \/ session' # "IN_PROGRESS"
      PROVE  [Ledger!Next]_(Ledger!vars)
  BY <1>8, QuietStep DEF Committed
<1>9. CASE Submit \/ CancelCampaign \/ DeadlinePasses
  BY <1>8, <1>9 DEF Submit, CancelCampaign, DeadlinePasses, counts
<1>10. ASSUME NEW b \in BOOLEAN, Reassign(b) \/ RequestRecount(b) \/ Reopen(b)
       PROVE  [Ledger!Next]_(Ledger!vars)
  BY <1>8, <1>10 DEF Reassign, RequestRecount, Reopen, counts
<1>11. ASSUME NEW r \in Refs, ImportProduct(r) PROVE [Ledger!Next]_(Ledger!vars)
  BY <1>8, <1>11 DEF ImportProduct, counts, life
<1>12. CASE UNCHANGED vars BY <1>8, <1>12 DEF vars
<1> QED
  BY <1>1, <1>2, <1>3, <1>4, <1>5, <1>6, <1>7, <1>9, <1>10, <1>11, <1>12, <1>14
  DEF Next

\* A session starts as an open ledger of empty piles.
LEMMA LedgerInit == Init => LedgerInv /\ Ledger!Init
<1> SUFFICES ASSUME Init PROVE LedgerInv /\ Ledger!Init OBVIOUS
<1>1. TypeOK BY InitType
<1>2. HistoryInv BY EmptyHistory DEF Init, NoBatch, HistoryInv
<1>3. ~batch.open /\ log = <<>> /\ session = "IN_PROGRESS" BY DEF Init, NoBatch
<1>4. BatchOnOpenSession /\ BatchGrows BY <1>3 DEF BatchOnOpenSession, BatchGrows
<1>5. ASSUME NEW d \in Domains, NEW c \in Cells PROVE Pile(<<>>, d, c) = <<>>
  <2>1. Effective(<<>>, d, c) = {} BY DEF Effective
  <2>2. Cardinality(Effective(<<>>, d, c)) = 0 BY <2>1, FS_EmptySet
  <2> QED BY <2>2 DEF Pile, Picked
<1>6. Committed = <<>> BY <1>3 DEF Committed
<1>7. Ledger!Kinds = Domains BY DEF Ledger!Kinds, Domains
<1>8. Ledger!Init BY <1>3, <1>5, <1>6, <1>7 DEF Ledger!Init, Piles, PilesOf
<1> QED BY <1>1, <1>2, <1>4, <1>8, SoundInit DEF LedgerInv

\* Counting, undoing, batches and their failures, retries and closing are,
\* seen from what is committed, the ledger's: quantities pile up, those of a
\* batch at once, an undo takes the top off, and a closed session stands still.
THEOREM KeepsLedger == Spec => ImplementsLedger
<1>1. Init => LedgerInv /\ Ledger!Init BY LedgerInit
<1>2. LedgerInv /\ [Next]_vars => LedgerInv'
  BY StepType, HistoryInvStep, SoundStep, BatchOnOpenSessionStep, BatchGrowsStep
  DEF LedgerInv
<1>3. LedgerInv /\ LedgerInv' /\ [Next]_vars => [Ledger!Next]_(Ledger!vars) BY LedgerStep
<1> QED BY <1>1, <1>2, <1>3, PTL DEF Spec, ImplementsLedger, Ledger!Spec

-----------------------------------------------------------------------------
(* Why BatchIsAtomic fails.                                                *)

\* The deadline is not found passed by an event of a batch.
ExpiryOutside == Next /\ (batch.open => campaign' = campaign)
OutsideSpec == Init /\ [][ExpiryOutside]_vars

\* Did no expiry commit on a batch's own transaction, a batch would be atomic
\* as process_batch promises: neither a refused event nor a crash splits one.
THEOREM ExpiryOutsideSuffices == OutsideSpec => BatchIsAtomic
<1>1. OutsideSpec => Spec
  <2>1. [ExpiryOutside]_vars => [Next]_vars
    BY DEF ExpiryOutside
  <2> QED BY <2>1, PTL DEF OutsideSpec, Spec
<1> DEFINE Atomic == batch.open /\ ~batch'.open /\ batch.left > 0 => log' = batch.log
<1>2. TypeOK /\ [ExpiryOutside]_vars => [Atomic]_vars
  <2> SUFFICES ASSUME TypeOK, ExpiryOutside, batch.open, ~batch'.open, batch.left > 0
               PROVE  RollBack
    BY DEF RollBack
  <2>1. Next /\ campaign' = campaign BY DEF ExpiryOutside
  <2>2. ASSUME NEW u \in Uuids, NEW s \in Inputs PROVE ~BatchEvent(u, s) /\ ~BatchReplay(u, s)
    BY DEF BatchEvent, BatchReplay, TypeOK
  <2>3. ~BatchCommit /\ ~ExpireOnRequest BY <2>1 DEF BatchCommit, ExpireOnRequest
  <2>4. ~DeadlinePasses /\ \A r \in Refs : ~ImportProduct(r)
    BY DEF DeadlinePasses, ImportProduct
  <2> QED
    BY <2>1, <2>2, <2>3, <2>4
    DEF Next, PostEvent, BatchReject, OpenBatch, BatchCrash, UndoEvent, Submit,
        CancelCampaign, Reassign, RequestRecount, Reopen
<1>3. OutsideSpec => [][Atomic]_vars
  <2>1. OutsideSpec => []TypeOK BY <1>1, TypeCorrect
  <2> HIDE DEF Atomic
  <2> QED BY <1>2, <2>1, PTL DEF OutsideSpec
<1> QED BY <1>3 DEF BatchIsAtomic
=============================================================================
