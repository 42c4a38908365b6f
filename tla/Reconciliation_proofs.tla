------------------------ MODULE Reconciliation_proofs -------------------------
(***************************************************************************)
(* Theorems about Reconciliation, for any products, sessions, codes,       *)
(* document types, snapshots and quantities.                               *)
(***************************************************************************)
EXTENDS Reconciliation, TLAPS

-----------------------------------------------------------------------------
(* The inductive invariant.  The properties follow from each other and     *)
(* from three facts: where an open recount holds the campaign, which       *)
(* products have a row, and what there is before the first valuation.      *)

RecountHolds == recount => status \in {"RECOUNT", "EXPIRED"}

\* A refresh resets the rows of the universe: these are all there are, since
\* neither submissions nor resolutions are ever taken back.
RowsInUniverse ==
    \A p \in Products :
        /\ row[p].present => p \in Universe /\ source # {}
        /\ ~row[p].present => row[p] = NoRow

BeforeValuation ==
    valuation = "none" =>
        /\ \A p \in Products : row[p].amount = Absent
        /\ \A t \in DocumentTypes : document[t] = {}

ReviewInv ==
    /\ TypeOK
    /\ RecountHolds
    /\ RowsInUniverse
    /\ BeforeValuation
    /\ ReviewIsOfAllSessions
    /\ ReviewStartsClean
    /\ ApprovalIsComplete
    /\ IntactValuationIsTrue
-----------------------------------------------------------------------------
(* What the comparison service reads has the types of quantities.          *)

\* A missing quantity counts as none.
LEMMA OrZeroType == \A q \in Quantity : OrZero(q) \in Nat /\ (q # Absent => OrZero(q) = q)
BY DEF OrZero, Quantity

\* An effective quantity is a natural number, an expected one an integer.
LEMMA ComparisonTypes ==
    ASSUME TypeOK, NEW p \in Products
    PROVE  /\ Expected(p) \in Int
           /\ \A s \in Sessions : Effective(s, p) \in Nat
<1>1. snapshot \in [Products -> Int \cup {Absent}]
  BY SnapshotsAssumption DEF TypeOK
<1>2. \A s \in Sessions : counted[s][p] \in Quantity
  BY DEF TypeOK
<1> QED BY <1>1, <1>2, OrZeroType DEF Expected, Effective, OrZero

\* A selection makes a well-formed row.
LEMMA SelectedType ==
    ASSUME TypeOK, NEW s \in Sessions, NEW p \in Products, NEW reason \in BOOLEAN
    PROVE  /\ Selected(s, p, reason) \in Row
           /\ Selected(s, p, reason).session = s
           /\ Selected(s, p, reason).quantity = Effective(s, p)
           /\ Selected(s, p, reason).amount = row[p].amount
           /\ Selected(s, p, reason).approved = row[p].approved
           /\ Selected(s, p, reason).present = row[p].present
BY ComparisonTypes DEF TypeOK, Row, Quantity, Selected

\* Before the first submission.
LEMMA InitInv == Init => ReviewInv
<1> SUFFICES ASSUME Init PROVE ReviewInv
  OBVIOUS
<1>1. TypeOK
  BY DEF Init, TypeOK, Statuses, Quantity, CodeRow, Row, NoRow
<1> QED BY <1>1 DEF Init, ReviewInv, RecountHolds, RowsInUniverse, BeforeValuation,
       ReviewIsOfAllSessions, ReviewStartsClean, ApprovalIsComplete, IntactValuationIsTrue, NoRow

-----------------------------------------------------------------------------
(* Types.                                                                  *)

\* Every command keeps the types.
LEMMA TypeStep == ASSUME TypeOK, Next PROVE TypeOK'
<1> USE DEF TypeOK
<1>1. ASSUME NEW s \in Sessions, NEW total \in Totals, NEW qty \in [Codes -> CodeQuantities],
             Submit(s, total, qty)
      PROVE  TypeOK'
  <2>1. total \in [Products -> Quantity]
    BY TotalsAssumption DEF Quantity
  <2>2. [c \in Codes |-> [quantity |-> qty[c], product |-> Absent]] \in [Codes -> CodeRow]
    BY CodesAssumption DEF CodeRow, Quantity
  <2>3. counted' \in [Sessions -> [Products -> Quantity]]
    BY <1>1, <2>1 DEF Submit
  <2>4. code' \in [Sessions -> [Codes -> CodeRow]]
    BY <1>1, <2>2 DEF Submit
  <2> QED BY <1>1, <2>3, <2>4 DEF Submit, Statuses
<1>2. ASSUME NEW s \in Sessions, NEW c \in Codes, NEW p \in Products, Resolve(s, c, p)
      PROVE  TypeOK'
  <2>1. code[s][c] \in CodeRow /\ code[s][c].quantity \in Nat
    BY <1>2 DEF Resolve, CodeRow, Quantity
  <2>2. OrZero(counted[s][p]) + code[s][c].quantity \in Quantity
    <3>1. counted[s][p] \in Quantity
      OBVIOUS
    <3>2. OrZero(counted[s][p]) \in Nat
      BY <3>1, OrZeroType
    <3>3. \A m, n \in Nat : m + n \in Quantity
      BY DEF Quantity
    <3> QED BY <2>1, <3>2, <3>3
  <2>3. [code[s][c] EXCEPT !.product = p] \in CodeRow
    BY <2>1 DEF CodeRow
  <2>4. code' \in [Sessions -> [Codes -> CodeRow]]
    BY <1>2, <2>3 DEF Resolve
  <2>5. counted' \in [Sessions -> [Products -> Quantity]]
    BY <1>2, <2>2 DEF Resolve
  <2> QED BY <1>2, <2>4, <2>5 DEF Resolve
<1>3. ASSUME RequestRecount \/ CancelRecount \/ Expire \/ Reopen \/ Close
      PROVE  TypeOK'
  BY <1>3 DEF RequestRecount, CancelRecount, Expire, Reopen, Close, Statuses, count
<1>4. ASSUME NEW refresh \in BOOLEAN, Prepare(refresh)
      PROVE  TypeOK'
  <2>1. \A p \in Products : ResetRow(p) \in Row /\ [NoRow EXCEPT !.present = TRUE] \in Row
    BY DEF ResetRow, Row, NoRow, Quantity
  <2>2. row' \in [Products -> Row]
    BY <1>4, <2>1 DEF Prepare
  <2> QED BY <1>4, <2>2 DEF Prepare, Statuses, RowsVersioned, Fingerprint, count
<1>5. ASSUME NEW s \in Sessions, SelectDefault(s)
      PROVE  TypeOK'
  <2>1. \A p \in Products : Selected(s, p, row[p].reason) \in Row
    BY SelectedType DEF Row
  <2>2. row' \in [Products -> Row]
    BY <1>5, <2>1 DEF SelectDefault
  <2> QED BY <1>5, <2>2 DEF SelectDefault, RowsVersioned, count
<1>6. ASSUME NEW s \in Sessions, NEW p \in Products, NEW reason \in BOOLEAN,
             Override(s, p, reason)
      PROVE  TypeOK'
  <2>1. row' \in [Products -> Row]
    BY <1>6, SelectedType DEF Override
  <2> QED BY <1>6, <2>1 DEF Override, RowsVersioned, count
<1>7. ASSUME Approve PROVE TypeOK'
  <2>1. \A p \in Products : [row[p] EXCEPT !.approved = TRUE] \in Row
    BY DEF Row
  <2>2. row' \in [Products -> Row]
    BY <1>7, <2>1 DEF Approve
  <2> QED BY <1>7, <2>2 DEF Approve, Statuses, RowsVersioned, count
<1>8. ASSUME Calculate PROVE TypeOK'
  <2>1. \A p \in Products : [row[p] EXCEPT !.amount = row[p].quantity] \in Row
    BY DEF Row
  <2>2. row' \in [Products -> Row]
    BY <1>8, <2>1 DEF Calculate
  <2> QED BY <1>8, <2>2 DEF Calculate, count
<1>9. ASSUME NEW t \in DocumentTypes, Generate(t) PROVE TypeOK'
  <2>1. Shown \in Content
    BY DEF Shown, Content, Row
  <2> QED BY <1>9, <2>1 DEF Generate, count
<1> QED BY <1>1, <1>2, <1>3, <1>4, <1>5, <1>6, <1>7, <1>8, <1>9
       DEF Next, CountNext, ReviewNext, SettleNext

-----------------------------------------------------------------------------
(* Recounts, rows and what precedes a valuation.                           *)

\* An open recount holds the campaign, or expires with it.
LEMMA RecountStep == ASSUME RecountHolds, Next PROVE RecountHolds'
BY DEF Next, CountNext, ReviewNext, SettleNext, RecountHolds, Submit, Resolve, RequestRecount,
       CancelRecount, Expire, Reopen, Prepare, SelectDefault, Override, Approve, Calculate,
       Generate, Close

\* The universe of products only grows.
LEMMA UniverseGrows ==
    ASSUME TypeOK, Next, NEW p \in Universe
    PROVE  p \in Universe'
<1> USE DEF TypeOK
<1>1. ASSUME NEW s \in Sessions, NEW total \in Totals, NEW qty \in [Codes -> CodeQuantities],
             Submit(s, total, qty)
      PROVE  p \in Universe'
  <2>1. \A t \in submitted : t \in submitted' /\ counted'[t] = counted[t]
    BY <1>1 DEF Submit
  <2> QED BY <1>1, <2>1 DEF Submit, Universe
<1>2. ASSUME NEW s \in Sessions, NEW c \in Codes, NEW q \in Products, Resolve(s, c, q)
      PROVE  p \in Universe'
  <2>1. OrZero(counted[s][q]) + code[s][c].quantity # Absent
    <3>1. code[s][c] \in CodeRow /\ code[s][c].quantity \in Nat
      BY <1>2 DEF Resolve, CodeRow, Quantity
    <3>2. counted[s][q] \in Quantity
      OBVIOUS
    <3>3. OrZero(counted[s][q]) \in Nat
      BY <3>2, OrZeroType
    <3>4. \A m, n \in Nat : m + n # Absent
      BY AbsentAssumption
    <3> QED BY <3>1, <3>3, <3>4
  <2>2. \A t \in Sessions, r \in Products : counted[t][r] # Absent => counted'[t][r] # Absent
    BY <1>2, <2>1 DEF Resolve
  <2> QED BY <1>2, <2>2 DEF Resolve, Universe
<1>3. CASE RequestRecount \/ CancelRecount \/ Expire \/ Reopen \/ ReviewNext \/ SettleNext
  <2>1. UNCHANGED <<snapshot, count>>
    BY <1>3 DEF RequestRecount, CancelRecount, Expire, Reopen, ReviewNext, SettleNext,
       Prepare, SelectDefault, Override, Approve, Calculate, Generate, Close
  <2> QED BY <2>1 DEF count, Universe
<1> QED BY <1>1, <1>2, <1>3 DEF Next, CountNext

\* What a step does to a row: most leave it, and those that do not keep the
\* amount, unless it is calculated.  Only preparing makes a row.
LEMMA RowEffect ==
    ASSUME TypeOK, Next, NEW p \in Products
    PROVE  /\ row'[p].amount = row[p].amount \/ Calculate \/ ~row[p].present
           /\ row'[p].present = row[p].present \/ \E refresh \in BOOLEAN : Prepare(refresh)
           /\ ~row[p].present => row'[p] = row[p] \/ row'[p] = [NoRow EXCEPT !.present = TRUE]
<1> USE DEF TypeOK
<1>1. CASE CountNext \/ Close \/ \E t \in DocumentTypes : Generate(t)
  BY <1>1 DEF CountNext, Close, Generate, Submit, Resolve, RequestRecount, CancelRecount,
     Expire, Reopen
<1>2. ASSUME NEW refresh \in BOOLEAN, Prepare(refresh)
      PROVE  /\ row'[p].amount = row[p].amount \/ ~row[p].present
             /\ ~row[p].present => row'[p] = row[p] \/ row'[p] = [NoRow EXCEPT !.present = TRUE]
  BY <1>2 DEF Prepare, ResetRow, Row
<1>3. CASE Approve \/ Calculate
  BY <1>3 DEF Approve, Calculate, Present, Row
<1>4. ASSUME NEW s \in Sessions, SelectDefault(s)
      PROVE  row'[p].amount = row[p].amount /\ row'[p].present = row[p].present
             /\ (~row[p].present => row'[p] = row[p])
  <2>1. row'[p] = row[p] \/ (row[p].present /\ row'[p] = Selected(s, p, row[p].reason))
    BY <1>4 DEF SelectDefault, Present
  <2>2. row[p].reason \in BOOLEAN
    BY DEF Row
  <2> QED BY <2>1, <2>2, SelectedType
<1>5. ASSUME NEW s \in Sessions, NEW q \in Products, NEW reason \in BOOLEAN,
             Override(s, q, reason)
      PROVE  row'[p].amount = row[p].amount /\ row'[p].present = row[p].present
             /\ (~row[p].present => row'[p] = row[p])
  <2>1. row'[p] = row[p] \/ (row[p].present /\ row'[p] = Selected(s, p, reason))
    BY <1>5 DEF Override, Present
  <2> QED BY <2>1, SelectedType
<1> QED BY <1>1, <1>2, <1>3, <1>4, <1>5 DEF Next, ReviewNext, SettleNext

\* Rows stay within the universe.
LEMMA RowsStep ==
    ASSUME TypeOK, RowsInUniverse, Next
    PROVE  RowsInUniverse'
<1> SUFFICES ASSUME NEW p \in Products
             PROVE  /\ row'[p].present => p \in Universe' /\ source' # {}
                    /\ ~row'[p].present => row'[p] = NoRow
  BY DEF RowsInUniverse
<1>1. ASSUME NEW refresh \in BOOLEAN, Prepare(refresh)
      PROVE  /\ row'[p].present => p \in Universe' /\ source' # {}
             /\ ~row'[p].present => row'[p] = NoRow
  <2>1. source' # {}
    BY <1>1 DEF Prepare, Fingerprint
  <2>2. p \in Universe => p \in Universe'
    BY UniverseGrows
  <2>3. p \notin Universe => row'[p] = row[p] /\ ~row[p].present
    BY <1>1 DEF Prepare, RowsInUniverse
  <2>4. p \in Universe => row'[p].present
    BY <1>1 DEF Prepare, ResetRow, NoRow, TypeOK, Row
  <2> QED BY <2>1, <2>2, <2>3, <2>4 DEF RowsInUniverse
<1>2. CASE ~\E refresh \in BOOLEAN : Prepare(refresh)
  <2>1. row'[p].present = row[p].present
    BY <1>2, RowEffect
  <2>2. source' = source
    BY <1>2 DEF Next, CountNext, ReviewNext, SettleNext, Submit, Resolve, RequestRecount,
       CancelRecount, Expire, Reopen, SelectDefault, Override, Approve, Calculate, Generate, Close
  <2>3. ~row[p].present => row'[p] = NoRow
    <3>1. [NoRow EXCEPT !.present = TRUE].present
      BY DEF NoRow
    <3> QED BY <2>1, <3>1, RowEffect DEF RowsInUniverse
  <2> QED BY <2>1, <2>2, <2>3, UniverseGrows DEF RowsInUniverse
<1> QED BY <1>1, <1>2

\* Nothing has an amount, and there is no document, before the valuation.
LEMMA ValuationStep ==
    ASSUME TypeOK, BeforeValuation, Next
    PROVE  BeforeValuation'
<1> SUFFICES ASSUME valuation' = "none"
             PROVE  /\ \A p \in Products : row'[p].amount = Absent
                    /\ \A t \in DocumentTypes : document'[t] = {}
  BY DEF BeforeValuation
<1>1. valuation = "none" /\ ~Calculate
  BY DEF Next, CountNext, ReviewNext, SettleNext, RowsVersioned, Submit, Resolve,
     RequestRecount, CancelRecount, Expire, Reopen, Prepare, SelectDefault, Override, Approve,
     Calculate, Generate, Close
<1>2. \A p \in Products : row'[p].amount = Absent
  <2> SUFFICES ASSUME NEW p \in Products PROVE row'[p].amount = Absent
    OBVIOUS
  <2>1. row[p].amount = Absent
    BY <1>1 DEF BeforeValuation
  <2>2. [NoRow EXCEPT !.present = TRUE].amount = Absent
    BY DEF NoRow
  <2> QED BY <1>1, <2>1, <2>2, RowEffect
<1>3. document' = document
  BY <1>1 DEF Next, CountNext, ReviewNext, SettleNext, Submit, Resolve, RequestRecount,
     CancelRecount, Expire, Reopen, Prepare, SelectDefault, Override, Approve, Calculate,
     Generate, Close
<1> QED BY <1>1, <1>2, <1>3 DEF BeforeValuation

-----------------------------------------------------------------------------
(* The properties.                                                         *)

\* The review is of all submitted sessions.
LEMMA SourceStep ==
    ASSUME RecountHolds, ReviewIsOfAllSessions, Next
    PROVE  ReviewIsOfAllSessions'
<1>1. CASE CountNext
  BY <1>1 DEF CountNext, Submit, Resolve, RequestRecount, CancelRecount, Expire, Reopen,
     ReviewIsOfAllSessions, RecountHolds
<1>2. CASE ReviewNext
  BY <1>2 DEF ReviewNext, Prepare, SelectDefault, Override, Approve, Fingerprint, count,
     ReviewIsOfAllSessions, RecountHolds
<1>3. CASE SettleNext
  BY <1>3 DEF SettleNext, Calculate, Generate, Close, count, ReviewIsOfAllSessions
<1> QED BY <1>1, <1>2, <1>3 DEF Next

\* A session's effective quantities only grow.
LEMMA EffectiveGrows ==
    ASSUME TypeOK, NEW s \in Sessions, NEW c \in Codes, NEW q \in Products, Resolve(s, c, q),
           NEW t \in Sessions, NEW p \in Products
    PROVE  /\ Effective(t, p) \in Nat /\ Effective(t, p)' \in Nat
           /\ Effective(t, p) <= Effective(t, p)'
<1> USE DEF TypeOK
<1>1. code[s][c] \in CodeRow /\ code[s][c].quantity \in Nat
  BY DEF Resolve, CodeRow, Quantity
<1>2. \A r \in Sessions, o \in Products : counted[r][o] \in Quantity /\ OrZero(counted[r][o]) \in Nat
  BY OrZeroType
<1>3. CASE t = s /\ p = q
  <2>1. counted'[t][p] = OrZero(counted[t][p]) + code[s][c].quantity
    BY <1>3 DEF Resolve
  <2>2. \A m, n \in Nat : OrZero(m + n) = m + n /\ m <= m + n
    BY AbsentAssumption DEF OrZero
  <2>3. Effective(t, p)' = OrZero(counted'[t][p])
    BY DEF Effective, OrZero
  <2> QED BY <1>1, <1>2, <2>1, <2>2, <2>3 DEF Effective
<1>4. CASE ~(t = s /\ p = q)
  <2>1. counted'[t][p] = counted[t][p]
    BY <1>4 DEF Resolve
  <2>2. Effective(t, p)' = Effective(t, p)
    BY <2>1 DEF Effective, OrZero
  <2>3. Effective(t, p) \in Nat
    BY ComparisonTypes
  <2> QED BY <2>2, <2>3
<1> QED BY <1>3, <1>4

\* A review starts clean: a refresh resets every row, as all are of the
\* universe, and codes resolved after a selection only add to its session.
LEMMA CleanStep ==
    ASSUME TypeOK, RowsInUniverse, ReviewIsOfAllSessions, ReviewStartsClean, Next
    PROVE  ReviewStartsClean'
<1> SUFFICES ASSUME status' = "UNDER_REVIEW", NEW p \in Products
             PROVE  /\ ~row'[p].approved
                    /\ row'[p].session # Absent =>
                          /\ row'[p].session \in submitted'
                          /\ row'[p].quantity \in 0..OrZero(counted'[row'[p].session][p])
  BY DEF ReviewStartsClean, Effective, OrZero
<1> DEFINE Clean(r) == /\ ~r.approved
                       /\ r.session # Absent =>
                             r.session \in submitted /\ r.quantity \in 0..Effective(r.session, p)
<1>1. ASSUME NEW s \in Sessions, NEW c \in Codes, NEW q \in Products, Resolve(s, c, q)
      PROVE  /\ ~row'[p].approved
             /\ row'[p].session # Absent =>
                   /\ row'[p].session \in submitted'
                   /\ row'[p].quantity \in 0..OrZero(counted'[row'[p].session][p])
  <2>1. status = "UNDER_REVIEW" /\ row' = row /\ submitted' = submitted
    BY <1>1 DEF Resolve
  <2>2. Clean(row[p])
    BY <2>1 DEF ReviewStartsClean
  <2> SUFFICES ASSUME row[p].session # Absent
               PROVE  row[p].quantity \in 0..OrZero(counted'[row[p].session][p])
    BY <2>1, <2>2
  <2>3. PICK t \in Sessions : t = row[p].session
    BY DEF TypeOK, Row
  <2>4. row[p].quantity \in 0..Effective(t, p)
    BY <2>2, <2>3
  <2>5. row[p].quantity \in 0..Effective(t, p)'
    BY <1>1, <2>4, EffectiveGrows
  <2> QED BY <2>3, <2>5 DEF Effective, OrZero
<1>2. CASE Next /\ ~\E s \in Sessions, c \in Codes, q \in Products : Resolve(s, c, q)
  <2>1. ReviewNext
    BY <1>2 DEF Next, CountNext, SettleNext, Submit, RequestRecount, CancelRecount, Expire,
       Reopen, Calculate, Generate, Close, ReviewIsOfAllSessions
  <2>2. Clean(row'[p])
    <3>1. ASSUME NEW refresh \in BOOLEAN, Prepare(refresh) PROVE Clean(row'[p])
      <4>1. CASE p \notin Universe
        BY <3>1, <4>1 DEF Prepare, RowsInUniverse, NoRow
      <4>2. CASE p \in Universe
        BY <3>1, <4>2 DEF Prepare, RowsInUniverse, ResetRow, NoRow, TypeOK, Row
      <4> QED BY <4>1, <4>2
    <3>2. ASSUME NEW s \in Sessions, SelectDefault(s) PROVE Clean(row'[p])
      <4>1. Clean(row[p]) /\ s \in submitted
        BY <3>2 DEF SelectDefault, ReviewStartsClean
      <4>2. row'[p] = row[p] \/ row'[p] = Selected(s, p, row[p].reason)
        BY <3>2 DEF SelectDefault
      <4>3. row[p].reason \in BOOLEAN /\ Effective(s, p) \in Nat
        BY ComparisonTypes DEF TypeOK, Row
      <4> QED BY <4>1, <4>2, <4>3, SelectedType
    <3>3. ASSUME NEW s \in Sessions, NEW q \in Products, NEW reason \in BOOLEAN,
                 Override(s, q, reason)
          PROVE  Clean(row'[p])
      <4>1. Clean(row[p]) /\ s \in submitted
        BY <3>3 DEF Override, ReviewStartsClean
      <4>2. row'[p] = row[p] \/ row'[p] = Selected(s, p, reason)
        BY <3>3 DEF Override, TypeOK
      <4>3. Effective(s, p) \in Nat
        BY ComparisonTypes
      <4> QED BY <4>1, <4>2, <4>3, SelectedType
    <3>4. ~Approve
      BY DEF Approve
    <3> QED BY <2>1, <3>1, <3>2, <3>3, <3>4 DEF ReviewNext
  <2>3. UNCHANGED <<snapshot, count>>
    BY <2>1 DEF ReviewNext, Prepare, SelectDefault, Override, Approve
  <2>4. OrZero(counted'[row'[p].session][p]) = Effective(row'[p].session, p)
    BY <2>3 DEF Effective, OrZero, count
  <2> QED BY <2>2, <2>3, <2>4 DEF count
<1> QED BY <1>1, <1>2

\* An approved row without a difference, or with a reason for it.
Justified(p) ==
    /\ row[p].approved
    /\ row[p].session \in submitted
    /\ Expected(p) >= 0
    /\ row[p].quantity = Expected(p) \/ row[p].reason

\* What is approved is complete and stays so until the campaign is reopened.
LEMMA ApprovalStep ==
    ASSUME TypeOK, ApprovalIsComplete, Next
    PROVE  ApprovalIsComplete'
<1> SUFFICES ASSUME status' \in {"APPROVED", "CLOSED"} PROVE ApprovalIsComplete'
  BY DEF ApprovalIsComplete
<1>1. CASE Approve
  <2>1. \A p \in Products : row'[p].present => row[p].present /\ Justified(p)'
    <3> SUFFICES ASSUME NEW p \in Products, row'[p].present
                 PROVE  row[p].present /\ Justified(p)'
      OBVIOUS
    <3>1. row[p].present /\ row'[p] = [row[p] EXCEPT !.approved = TRUE]
      BY <1>1 DEF Approve, Present
    <3>2. row[p] \in Row
      BY DEF TypeOK
    <3>3. /\ Expected(p) >= 0 /\ row[p].session \in submitted
          /\ row[p].quantity = Expected(p) \/ row[p].reason
      BY <1>1, <3>1 DEF Approve, Approvable, Present, Differs
    <3>4. Expected(p)' = Expected(p) /\ submitted' = submitted
      BY <1>1 DEF Approve, count, Expected, OrZero
    <3> QED BY <3>1, <3>2, <3>3, <3>4 DEF Justified, Row
  <2>2. \E p \in Products : row'[p].present
    BY <1>1 DEF Approve, Approvable, Present, TypeOK, Row
  <2>3. \A s \in submitted', c \in Codes :
           code'[s][c].product # Absent \/ code'[s][c].quantity \in {0, Absent}
    <3> SUFFICES ASSUME NEW s \in submitted, NEW c \in Codes
                 PROVE  code[s][c].product # Absent \/ code[s][c].quantity \in {0, Absent}
      BY <1>1 DEF Approve, count
    <3>1. <<s, c>> \notin Unresolved /\ <<s, c>>[1] = s /\ <<s, c>>[2] = c
      BY <1>1 DEF Approve
    <3> QED BY <3>1 DEF Unresolved
  <2> QED BY <2>1, <2>2, <2>3 DEF ApprovalIsComplete, Justified
<1>2. CASE ~Approve
  <2>1. status \in {"APPROVED", "CLOSED"} /\ ~\E refresh \in BOOLEAN : Prepare(refresh)
    BY <1>2 DEF Next, CountNext, ReviewNext, SettleNext, Submit, Resolve, RequestRecount,
       CancelRecount, Expire, Reopen, Prepare, SelectDefault, Override, Calculate, Generate, Close
  <2>2. snapshot' = snapshot /\ submitted' = submitted
    BY <1>2, <2>1 DEF Next, CountNext, ReviewNext, SettleNext, Submit, Resolve, RequestRecount,
       CancelRecount, Expire, Reopen, SelectDefault, Override, Calculate, Generate, Close, count
  <2>3. \A p \in Products : /\ row'[p].present = row[p].present
                            /\ row'[p].approved = row[p].approved
                            /\ row'[p].session = row[p].session
                            /\ row'[p].quantity = row[p].quantity
                            /\ row'[p].reason = row[p].reason
    <3>1. CASE Calculate
      BY <3>1 DEF Calculate, TypeOK, Row
    <3>2. CASE ~Calculate
      BY <1>2, <2>1, <3>2 DEF Next, CountNext, ReviewNext, SettleNext, Submit, Resolve,
         RequestRecount, CancelRecount, Expire, Reopen, SelectDefault, Override, Generate, Close
    <3> QED BY <3>1, <3>2
  <2>4. \A s \in Sessions, c \in Codes :
           code'[s][c] = code[s][c] \/ code'[s][c].product \in Products
    <3>1. ASSUME NEW s \in Sessions, NEW c \in Codes, NEW q \in Products, Resolve(s, c, q)
          PROVE  \A t \in Sessions, d \in Codes :
                    code'[t][d] = code[t][d] \/ code'[t][d].product \in Products
      <4>1. [code[s][c] EXCEPT !.product = q].product = q
        BY DEF TypeOK, CodeRow
      <4> QED BY <3>1, <4>1 DEF Resolve, TypeOK
    <3>2. CASE ~\E s \in Sessions, c \in Codes, q \in Products : Resolve(s, c, q)
      <4>1. code' = code
        BY <1>2, <2>1, <3>2 DEF Next, CountNext, ReviewNext, SettleNext, Submit, RequestRecount,
           CancelRecount, Expire, Reopen, SelectDefault, Override, Calculate, Generate, Close, count
      <4> QED BY <4>1
    <3> QED BY <3>1, <3>2
  <2>5. \A s \in submitted', c \in Codes :
           code'[s][c].product # Absent \/ code'[s][c].quantity \in {0, Absent}
    BY <2>1, <2>2, <2>4, AbsentAssumption DEF ApprovalIsComplete, TypeOK
  <2>6. \A p \in Products : Expected(p)' = Expected(p)
    BY <2>2 DEF Expected, OrZero
  <2> QED BY <2>1, <2>2, <2>3, <2>5, <2>6 DEF ApprovalIsComplete
<1> QED BY <1>1, <1>2

\* A valuation that is of today's rows has their quantities, and so has every
\* document: rows change with a new version only, and the only documents there
\* are when it is calculated were made of the same rows.
LEMMA IntactStep ==
    ASSUME TypeOK, RowsInUniverse, BeforeValuation, IntactValuationIsTrue, Next
    PROVE  IntactValuationIsTrue'
<1> SUFFICES ASSUME valuation' = "intact", NEW p \in Products
             PROVE  /\ row'[p].amount = row'[p].quantity
                    /\ \A t \in DocumentTypes : \A d \in document'[t] :
                          d.quantity[p] = row'[p].quantity /\ d.amount[p] = row'[p].quantity
  BY DEF IntactValuationIsTrue
<1>1. CASE Calculate
  <2>1. row'[p].quantity = row[p].quantity /\ row'[p].amount = row[p].quantity
    BY <1>1 DEF Calculate, Present, RowsInUniverse, NoRow, TypeOK, Row
  <2>2. document' = document
    BY <1>1 DEF Calculate
  <2>3. CASE valuation = "none"
    BY <2>1, <2>2, <2>3 DEF BeforeValuation
  <2>4. CASE valuation = "intact"
    BY <2>1, <2>2, <2>4 DEF IntactValuationIsTrue
  <2> QED BY <1>1, <2>3, <2>4 DEF Calculate, MayValue, TypeOK
<1>2. ASSUME NEW t \in DocumentTypes, Generate(t)
      PROVE  /\ row'[p].amount = row'[p].quantity
             /\ \A u \in DocumentTypes : \A d \in document'[u] :
                   d.quantity[p] = row'[p].quantity /\ d.amount[p] = row'[p].quantity
  <2>1. row' = row /\ valuation = "intact"
    BY <1>2 DEF Generate
  <2>2. Shown.quantity[p] = row[p].quantity /\ Shown.amount[p] = row[p].amount
    BY DEF Shown
  <2>3. \A u \in DocumentTypes : document'[u] = document[u] \/ document'[u] = {Shown}
    BY <1>2 DEF Generate, TypeOK
  <2> QED BY <2>1, <2>2, <2>3 DEF IntactValuationIsTrue
<1>3. CASE ~Calculate /\ ~\E t \in DocumentTypes : Generate(t)
  <2>1. valuation = "intact" /\ UNCHANGED <<row, document>>
    BY <1>3 DEF Next, CountNext, ReviewNext, SettleNext, RowsVersioned, Submit, Resolve,
       RequestRecount, CancelRecount, Expire, Reopen, Prepare, SelectDefault, Override, Approve,
       Close
  <2> QED BY <2>1 DEF IntactValuationIsTrue
<1> QED BY <1>1, <1>2, <1>3

-----------------------------------------------------------------------------
(* Theorems.                                                               *)

\* Every step keeps the invariant, one that changes nothing included.
LEMMA InvStep == ReviewInv /\ [Next]_vars => ReviewInv'
<1> SUFFICES ASSUME ReviewInv, [Next]_vars PROVE ReviewInv'
  OBVIOUS
<1>1. CASE Next
  BY <1>1, TypeStep, RecountStep, RowsStep, ValuationStep, SourceStep, CleanStep, ApprovalStep,
     IntactStep DEF ReviewInv
<1>2. CASE UNCHANGED vars
  BY <1>2 DEF vars, count, ReviewInv, TypeOK, RecountHolds, RowsInUniverse, Universe,
     BeforeValuation, ReviewIsOfAllSessions, ReviewStartsClean, ApprovalIsComplete,
     IntactValuationIsTrue, Expected, Effective, OrZero
<1> QED BY <1>1, <1>2

\* The inductive invariant holds always.
THEOREM Invariance == Spec => []ReviewInv
BY InitInv, InvStep, PTL DEF Spec

\* Rows, codes, documents and statuses keep their types.
THEOREM TypeCorrect == Spec => []TypeOK
<1>1. ReviewInv => TypeOK
  BY DEF ReviewInv
<1> QED BY <1>1, Invariance, PTL

\* From its preparation to the closing, a review is of all that was submitted.
THEOREM ReviewOfAllSessions == Spec => []ReviewIsOfAllSessions
<1>1. ReviewInv => ReviewIsOfAllSessions
  BY DEF ReviewInv
<1> QED BY <1>1, Invariance, PTL

\* A new review keeps nothing of an earlier approval.
THEOREM ReviewIsClean == Spec => []ReviewStartsClean
<1>1. ReviewInv => ReviewStartsClean
  BY DEF ReviewInv
<1> QED BY <1>1, Invariance, PTL

\* An approval is complete and justified until the campaign is reopened.
THEOREM ApprovalStaysComplete == Spec => []ApprovalIsComplete
<1>1. ReviewInv => ApprovalIsComplete
  BY DEF ReviewInv
<1> QED BY <1>1, Invariance, PTL

\* A valuation whose fingerprint is intact is of the rows it stands beside.
THEOREM ValuationIsTrue == Spec => []IntactValuationIsTrue
<1>1. ReviewInv => IntactValuationIsTrue
  BY DEF ReviewInv
<1> QED BY <1>1, Invariance, PTL

-----------------------------------------------------------------------------
(* The review implements Settlement.                                       *)

Official == IF status \in {"APPROVED", "CLOSED"} THEN {Shown.quantity} ELSE {}
Amounts == IF valuation = "none" THEN {} ELSE {Shown.amount}

\* What the rows show changes with the rows only.
LEMMA ShownEqual ==
    /\ Shown.quantity = [p \in Products |-> row[p].quantity]
    /\ Shown.amount = [p \in Products |-> row[p].amount]
BY DEF Shown

\* Amounts stay as they are, but for the first valuation.
LEMMA AmountsKept ==
    ASSUME ReviewInv, Next, ~(Calculate /\ valuation = "none")
    PROVE  Amounts' = Amounts
<1>1. CASE Calculate
  <2>1. valuation = "intact" /\ valuation' = "intact"
    BY <1>1 DEF Calculate, MayValue, ReviewInv, TypeOK
  <2>2. \A p \in Products : row'[p].amount = row[p].amount
    BY <1>1, <2>1 DEF Calculate, ReviewInv, IntactValuationIsTrue, TypeOK, Row
  <2> QED BY <2>1, <2>2, ShownEqual DEF Amounts, Shown
<1>2. CASE ~Calculate
  <2>1. valuation' = "none" <=> valuation = "none"
    BY <1>2 DEF Next, CountNext, ReviewNext, SettleNext, RowsVersioned, Submit, Resolve,
       RequestRecount, CancelRecount, Expire, Reopen, Prepare, SelectDefault, Override, Approve,
       Generate, Close
  <2>2. \A p \in Products : row'[p].amount = row[p].amount
    <3> SUFFICES ASSUME NEW p \in Products PROVE row'[p].amount = row[p].amount
      OBVIOUS
    <3>1. NoRow.amount = Absent /\ [NoRow EXCEPT !.present = TRUE].amount = Absent
      BY DEF NoRow
    <3> QED BY <1>2, <3>1, RowEffect DEF ReviewInv, RowsInUniverse
  <2> QED BY <2>1, <2>2 DEF Amounts, Shown
<1> QED BY <1>1, <1>2

\* The quantities of an approved campaign stay as they are.
LEMMA OfficialKept ==
    ASSUME ReviewInv, Next, status \in {"APPROVED", "CLOSED"}
    PROVE  Shown.quantity' = Shown.quantity
<1>1. \A p \in Products : row'[p].quantity = row[p].quantity
  <2>1. CASE Calculate
    BY <2>1 DEF Calculate, ReviewInv, TypeOK, Row
  <2>2. CASE ~Calculate
    BY <2>2 DEF Next, CountNext, ReviewNext, SettleNext, Submit, Resolve, RequestRecount,
       CancelRecount, Expire, Reopen, Prepare, SelectDefault, Override, Approve, Generate, Close
  <2> QED BY <2>1, <2>2
<1> QED BY <1>1 DEF Shown

\* Every step of the review is one of Settlement, or changes nothing of it.
LEMMA SettlementStep ==
    ASSUME ReviewInv, Next
    PROVE  [S!SettlementNext]_(S!svars)
<1>1. CASE Approve
  <2>1. Official = {} /\ Official' = {Shown.quantity'} /\ Amounts' = Amounts
    BY <1>1, AmountsKept DEF Approve, Calculate, Official
  <2>2. Shown.quantity' \in [Products -> Quantity]
    BY TypeStep DEF ReviewInv, TypeOK, Row, Shown
  <2>3. ~(status = "CLOSED") /\ ~(status' = "CLOSED")
    BY <1>1 DEF Approve
  <2> QED BY <2>1, <2>2, <2>3 DEF S!SettlementNext, S!Publish, Official, Amounts
<1>2. CASE Calculate /\ valuation = "none"
  <2>1. status = "APPROVED" /\ status' = "APPROVED" /\ valuation' = "intact"
    BY <1>2 DEF Calculate
  <2>2. Shown.quantity' = Shown.quantity
    BY <2>1, OfficialKept
  <2>3. Shown.amount' = Shown.quantity
    <3>1. \A p \in Products : row'[p].amount = row[p].quantity
      BY <1>2 DEF Calculate, Present, ReviewInv, RowsInUniverse, NoRow, TypeOK, Row
    <3> QED BY <3>1 DEF Shown
  <2> QED BY <1>2, <2>1, <2>2, <2>3 DEF S!SettlementNext, S!Settle
<1>3. CASE Close
  <2>1. /\ status = "APPROVED" /\ status' = "CLOSED" /\ valuation # "none"
        /\ UNCHANGED <<row, valuation>>
    BY <1>3 DEF Close
  <2> QED BY <2>1 DEF S!SettlementNext, S!Conclude, Shown
<1>4. CASE status \in {"APPROVED", "CLOSED"} /\ status' \notin {"APPROVED", "CLOSED"}
  <2>1. Amounts' = Amounts
    BY <1>4, AmountsKept DEF Calculate
  <2> QED BY <1>4, <2>1 DEF S!SettlementNext, S!Withdraw, Amounts
<1>5. CASE /\ ~Approve /\ ~(Calculate /\ valuation = "none") /\ ~Close
           /\ (status \in {"APPROVED", "CLOSED"} => status' \in {"APPROVED", "CLOSED"})
  <2>1. /\ status \in {"APPROVED", "CLOSED"} <=> status' \in {"APPROVED", "CLOSED"}
        /\ status = "CLOSED" <=> status' = "CLOSED"
    BY <1>5 DEF Next, CountNext, ReviewNext, SettleNext, Submit, Resolve, RequestRecount,
       CancelRecount, Expire, Reopen, Prepare, SelectDefault, Override, Calculate, Generate
  <2>2. Official' = Official
    BY <2>1, OfficialKept DEF Official
  <2>3. Amounts' = Amounts
    BY <1>5, AmountsKept
  <2> QED BY <2>1, <2>2, <2>3 DEF S!svars, Official, Amounts
<1> QED BY <1>1, <1>2, <1>3, <1>4, <1>5

\* An official count does not change while it is official, the amounts are
\* written once, from the count official then, and closing needs both.
THEOREM KeepsSettlement == Spec => ImplementsSettlement
<1>1. Init => S!SettlementInit
  BY DEF Init, S!SettlementInit
<1>2. ReviewInv /\ [Next]_vars => [S!SettlementNext]_(S!svars)
  <2> SUFFICES ASSUME ReviewInv, [Next]_vars PROVE [S!SettlementNext]_(S!svars)
    OBVIOUS
  <2>1. CASE Next
    BY <2>1, SettlementStep
  <2>2. CASE UNCHANGED vars
    BY <2>2 DEF vars, S!svars, Shown
  <2> QED BY <2>1, <2>2
<1> QED BY <1>1, <1>2, Invariance, PTL DEF Spec, ImplementsSettlement, S!SettlementSpec

-----------------------------------------------------------------------------
(* Why ApprovedIsEffective and ClosedIsValued fail: each holds of every    *)
(* behaviour without the one kind of step that the code should not take.   *)

\* No code is resolved from the preparation of a review to its end.
ResolvedEarly == Next /\ (status \in {"UNDER_REVIEW", "APPROVED"} => code' = code)
EarlySpec == Init /\ [][ResolvedEarly]_vars

\* What is selected is what its session counts by now, and what was counted
\* has a row.
SelectionIsCurrent ==
    status \in {"UNDER_REVIEW", "APPROVED"} =>
        \A p \in Products :
            /\ row[p].present /\ row[p].quantity # Absent =>
                  /\ row[p].session \in submitted
                  /\ row[p].quantity = Effective(row[p].session, p)
            /\ row[p].present /\ status = "APPROVED" => row[p].quantity # Absent
            /\ ~row[p].present => p \notin Universe

\* Under review nothing is resolved, so that what a preparation, a selection
\* or a calculation has read stays true.
LEMMA CurrentStep ==
    ASSUME ReviewInv, SelectionIsCurrent, [ResolvedEarly]_vars
    PROVE  SelectionIsCurrent'
<1> SUFFICES ASSUME status' \in {"UNDER_REVIEW", "APPROVED"}, NEW p \in Products
             PROVE  /\ row'[p].present /\ row'[p].quantity # Absent =>
                          /\ row'[p].session \in submitted'
                          /\ row'[p].quantity = OrZero(counted'[row'[p].session][p])
                    /\ row'[p].present /\ status' = "APPROVED" => row'[p].quantity # Absent
                    /\ ~row'[p].present => p \notin Universe'
  BY DEF SelectionIsCurrent, Effective, OrZero
<1> DEFINE Current(r) == /\ r.present /\ r.quantity # Absent =>
                               r.session \in submitted /\ r.quantity = Effective(r.session, p)
                         /\ r.present /\ status' = "APPROVED" => r.quantity # Absent
                         /\ ~r.present => p \notin Universe
<1>1. CASE CountNext
  <2>1. ~\E s \in Sessions, c \in Codes, q \in Products : Resolve(s, c, q)
    <3> SUFFICES ASSUME NEW s \in Sessions, NEW c \in Codes, NEW q \in Products, Resolve(s, c, q)
                 PROVE  FALSE
      OBVIOUS
    <3>1. code[s][c].product = Absent /\ code'[s][c].product = q
      BY DEF Resolve, ReviewInv, TypeOK, CodeRow
    <3>2. q # Absent /\ status \in {"UNDER_REVIEW", "APPROVED"}
      BY AbsentAssumption DEF Resolve
    <3> QED BY <3>1, <3>2 DEF ResolvedEarly, vars, count
  <2> QED BY <1>1, <2>1 DEF CountNext, Submit, RequestRecount, CancelRecount, Expire, Reopen,
         ReviewInv, RecountHolds
<1>2. CASE ReviewNext \/ SettleNext \/ UNCHANGED vars
  <2>1. Current(row'[p])
    <3>1. ASSUME NEW refresh \in BOOLEAN, Prepare(refresh) PROVE Current(row'[p])
      <4>1. CASE p \notin Universe
        BY <3>1, <4>1 DEF Prepare, ReviewInv, RowsInUniverse, NoRow
      <4>2. CASE p \in Universe
        BY <3>1, <4>2 DEF Prepare, ReviewInv, RowsInUniverse, ResetRow, NoRow, TypeOK, Row
      <4> QED BY <4>1, <4>2
    <3>2. ASSUME NEW s \in Sessions, SelectDefault(s) PROVE Current(row'[p])
      <4>1. Current(row[p]) /\ s \in submitted /\ status' # "APPROVED"
        BY <3>2 DEF SelectDefault, SelectionIsCurrent
      <4>2. row'[p] = row[p] \/ (row[p].present /\ row'[p] = Selected(s, p, row[p].reason))
        BY <3>2 DEF SelectDefault, Present
      <4>3. row[p].reason \in BOOLEAN
        BY DEF ReviewInv, TypeOK, Row
      <4> QED BY <4>1, <4>2, <4>3, SelectedType DEF ReviewInv
    <3>3. ASSUME NEW s \in Sessions, NEW q \in Products, NEW reason \in BOOLEAN,
                 Override(s, q, reason)
          PROVE  Current(row'[p])
      <4>1. Current(row[p]) /\ s \in submitted /\ status' # "APPROVED"
        BY <3>3 DEF Override, SelectionIsCurrent
      <4>2. row'[p] = row[p] \/ (row[p].present /\ row'[p] = Selected(s, p, reason))
        BY <3>3 DEF Override, Present, ReviewInv, TypeOK
      <4> QED BY <4>1, <4>2, SelectedType DEF ReviewInv
    <3>4. CASE Approve \/ Calculate
      <4>1. Current(row[p])
        BY <3>4 DEF Approve, Approvable, Present, Calculate, SelectionIsCurrent
      <4>2. /\ row'[p].present = row[p].present /\ row'[p].session = row[p].session
            /\ row'[p].quantity = row[p].quantity
        BY <3>4 DEF Approve, Calculate, Present, ReviewInv, TypeOK, Row
      <4> QED BY <4>1, <4>2
    <3>5. CASE (\E t \in DocumentTypes : Generate(t)) \/ UNCHANGED vars
      BY <3>5 DEF Generate, vars, SelectionIsCurrent
    <3> QED BY <1>2, <3>1, <3>2, <3>3, <3>4, <3>5 DEF ReviewNext, SettleNext, Close
  <2>2. UNCHANGED <<snapshot, count>>
    BY <1>2 DEF ReviewNext, SettleNext, Prepare, SelectDefault, Override, Approve, Calculate,
       Generate, Close, vars
  <2>3. OrZero(counted'[row'[p].session][p]) = Effective(row'[p].session, p)
    BY <2>2 DEF Effective, OrZero, count
  <2>4. p \in Universe' <=> p \in Universe
    BY <2>2 DEF Universe, count
  <2> QED BY <2>1, <2>2, <2>3, <2>4 DEF count
<1> QED BY <1>1, <1>2 DEF ResolvedEarly, Next

\* Were codes resolved before the preparation only, what is approved of a
\* product would be what the selected session counted, and nothing that was
\* counted would be left out: resolve_unknown's missing look at the status is
\* the only way to another approval.
THEOREM EarlyResolutionSuffices == EarlySpec => []ApprovedIsEffective
<1>1. Init => ReviewInv /\ SelectionIsCurrent
  BY InitInv DEF Init, SelectionIsCurrent
<1>2. ReviewInv /\ SelectionIsCurrent /\ [ResolvedEarly]_vars => (ReviewInv /\ SelectionIsCurrent)'
  BY InvStep, CurrentStep DEF ResolvedEarly
<1>3. ReviewInv /\ SelectionIsCurrent => ApprovedIsEffective
  <2> SUFFICES ASSUME ReviewInv, SelectionIsCurrent, status = "APPROVED", NEW p \in Products
               PROVE  IF row[p].present THEN row[p].quantity = Effective(row[p].session, p)
                                        ELSE \A s \in submitted : Effective(s, p) = 0
    BY DEF ApprovedIsEffective
  <2>1. CASE row[p].present
    BY <2>1 DEF SelectionIsCurrent
  <2>2. CASE ~row[p].present
    <3>1. \A s \in submitted : counted[s][p] = Absent
      BY <2>2 DEF SelectionIsCurrent, Universe
    <3> QED BY <2>2, <3>1 DEF Effective, OrZero
  <2> QED BY <2>1, <2>2
<1> QED BY <1>1, <1>2, <1>3, PTL DEF EarlySpec

\* An approval is not withdrawn: no late GET expires the campaign, and it is
\* not reopened once it is closed.
Settled == {"APPROVED", "CLOSED"}
KeptApproval == Next /\ (status \in Settled => status' \in Settled)
KeptSpec == Init /\ [][KeptApproval]_vars

\* There is nothing to value before the approval, and nothing changes after.
ValuedOnce ==
    /\ valuation # "changed"
    /\ status \notin Settled => valuation = "none"
    /\ status = "CLOSED" => valuation = "intact"

\* Were no approval withdrawn, the closed amounts and documents would be those
\* of the closed count: what a withdrawal leaves behind, and nothing else, is
\* what a campaign is closed on wrongly.
THEOREM KeptApprovalSuffices == KeptSpec => []ClosedIsValued
<1>1. Init => ReviewInv /\ ValuedOnce
  BY InitInv DEF Init, ValuedOnce, Settled
<1>2. ReviewInv /\ ValuedOnce /\ [KeptApproval]_vars => (ReviewInv /\ ValuedOnce)'
  <2> SUFFICES ASSUME ReviewInv, ValuedOnce, KeptApproval PROVE ValuedOnce'
    BY InvStep DEF KeptApproval, ValuedOnce, vars
  <2>1. CASE CountNext
    BY <2>1 DEF CountNext, KeptApproval, ValuedOnce, Settled, Submit, Resolve, RequestRecount,
       CancelRecount, Expire, Reopen
  <2>2. CASE ReviewNext
    BY <2>2 DEF ReviewNext, ValuedOnce, Settled, Prepare, SelectDefault, Override, Approve,
       RowsVersioned
  <2>3. CASE SettleNext
    BY <2>3 DEF SettleNext, ValuedOnce, Settled, Calculate, Generate, Close, ReviewInv, TypeOK
  <2> QED BY <2>1, <2>2, <2>3 DEF KeptApproval, Next
<1>3. ReviewInv /\ ValuedOnce => ClosedIsValued
  BY DEF ReviewInv, ValuedOnce, IntactValuationIsTrue, ClosedIsValued
<1> QED BY <1>1, <1>2, <1>3, PTL DEF KeptSpec
=============================================================================
