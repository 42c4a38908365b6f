----------------------- MODULE CampaignLifecycle_proofs -----------------------
(***************************************************************************)
(* Theorems about CampaignLifecycle, for any number of users, assignments, *)
(* sessions, recounts and concurrent readers.                              *)
(***************************************************************************)
EXTENDS CampaignLifecycle, TLAPS

-----------------------------------------------------------------------------
(* The inductive invariant.  Beyond the properties themselves it says whom *)
(* an open recount waits for: while one is open, the active assignment is  *)
(* of its assignee and an open session is its result.  Without that a      *)
(* first count could be submitted under an open recount.                   *)

Open(s) == ses[s].status = "IN_PROGRESS"

OpenSessions ==
    /\ \A s \in Sessions : Open(s) =>
          ses[s].asg \in Assignments /\ asg[ses[s].asg].status = "ACTIVE"
    /\ \A s, t \in Sessions : Open(s) /\ Open(t) => s = t

OneOpenRecount == \A q, r \in OpenRecounts : q = r

RecountOfResponsible ==
    \A r \in OpenRecounts :
        /\ \A a \in Active : asg[a].user = rec[r].user
        /\ \A s \in Sessions : Open(s) => rec[r].status = "IN_PROGRESS" /\ rec[r].result = s

SourceSubmitted ==
    \A r \in Recounts : rec[r].status # "ABSENT" =>
        rec[r].source \in Sessions /\ ses[rec[r].source].status = "SUBMITTED"

RowsInv ==
    /\ OneActiveAssignment
    /\ OpenSessions
    /\ OneOpenRecount
    /\ RecountFollowsSession
    /\ RecountOfResponsible
    /\ SourceSubmitted

Reviewed == {"SUBMITTED", "RECOUNT", "UNDER_REVIEW", "APPROVED", "CLOSED"}

StatusInv ==
    /\ OpenRecounts # {} => status \in {"RECOUNT", "EXPIRED"}
    /\ status = "RECOUNT" => OpenRecounts # {}
    /\ status \in Reviewed => \E s \in Sessions : ses[s].status = "SUBMITTED"

LifecycleInv == TypeOK /\ RowsInv /\ StatusInv

\* The invariant contains the properties.
LEMMA InvImplies ==
    LifecycleInv => /\ OneActiveAssignment /\ OpenSessionOfResponsible
                    /\ OpenRecountHoldsCampaign /\ RecountFollowsSession
                    /\ ReviewHasSubmission
BY DEF LifecycleInv, RowsInv, StatusInv, OpenSessions, Open, OneOpenRecount, OpenRecounts,
       OpenStatuses, SourceSubmitted, Reviewed, OpenSessionOfResponsible,
       OpenRecountHoldsCampaign, ReviewHasSubmission

-----------------------------------------------------------------------------
(* The shared parts of the commands.                                       *)

\* Cancelling open sessions changes nothing but their status.
LEMMA CancelOpenRows ==
    ASSUME TypeOK, NEW S
    PROVE  /\ CancelOpen(S) \in [Sessions -> SesRow]
           /\ \A s \in Sessions :
                 /\ CancelOpen(S)[s].type = ses[s].type /\ CancelOpen(S)[s].asg = ses[s].asg
                 /\ CancelOpen(S)[s].status =
                      IF s \in S /\ Open(s) THEN "CANCELLED" ELSE ses[s].status
BY DEF TypeOK, SesRow, CancelOpen, Open

\* Revoking changes nothing but the status of the active assignment.
LEMMA RevokeActiveRows ==
    ASSUME TypeOK
    PROVE  /\ RevokeActive \in [Assignments -> AsgRow]
           /\ \A a \in Assignments :
                 /\ RevokeActive[a].user = asg[a].user
                 /\ RevokeActive[a].status =
                      IF asg[a].status = "ACTIVE" THEN "REVOKED" ELSE asg[a].status
BY DEF TypeOK, AsgRow, RevokeActive, Active

\* Revoking the responsible closes whatever session is open.
LEMMA RevokingCloses ==
    ASSUME TypeOK, OpenSessions, NEW S, SessionsOf(Active) \subseteq S
    PROVE  \A s \in Sessions :
              CancelOpen(S)[s].status = IF Open(s) THEN "CANCELLED" ELSE ses[s].status
BY CancelOpenRows DEF OpenSessions, SessionsOf, Active

-----------------------------------------------------------------------------
(* Type correctness.                                                       *)

\* The initial states are well typed.
LEMMA InitType == ASSUME Init PROVE TypeOK
<1>1. status \in Statuses /\ frozen \in BOOLEAN /\ deadline \in Deadlines
  BY DEF Init, Statuses
<1>2. asg \in [Assignments -> AsgRow]
  <2>1. [status |-> "ABSENT", user |-> None] \in AsgRow BY DEF AsgRow
  <2> QED BY <2>1 DEF Init
<1>3. ses \in [Sessions -> SesRow]
  <2>1. [status |-> "ABSENT", type |-> "INITIAL", asg |-> None] \in SesRow BY DEF SesRow
  <2> QED BY <2>1 DEF Init
<1>4. rec \in [Recounts -> RecRow]
  <2>1. [status |-> "ABSENT", user |-> None, source |-> None, result |-> None] \in RecRow
    BY DEF RecRow
  <2> QED BY <2>1 DEF Init
<1>5. get \in [Readers -> GetRow]
  <2>1. Idle \in GetRow BY DEF Idle, GetRow, Statuses, Deadlines
  <2> QED BY <2>1 DEF Init
<1> QED BY <1>1, <1>2, <1>3, <1>4, <1>5 DEF TypeOK

\* So is what an administrator's command leaves, ...
LEMMA AdminType == ASSUME TypeOK, AdminNext PROVE TypeOK'
<1>1. ASSUME NEW d \in {"future", "past"}, UpdateDeadline(d) PROVE TypeOK'
  BY <1>1 DEF UpdateDeadline, TypeOK, Deadlines, rows
<1>2. ASSUME NEW a \in Assignments, NEW u \in Users, Assign(a, u) PROVE TypeOK'
  <2>1. asg' \in [Assignments -> AsgRow]
    BY <1>2, RevokeActiveRows DEF Assign, NewAssignment, AsgRow
  <2>2. ses' \in [Sessions -> SesRow] BY <1>2, CancelOpenRows DEF Assign
  <2> QED BY <1>2, <2>1, <2>2 DEF Assign, TypeOK, Statuses
<1>3. CASE Unassign
  <2>1. asg' \in [Assignments -> AsgRow] BY <1>3, RevokeActiveRows DEF Unassign
  <2>2. ses' \in [Sessions -> SesRow] BY <1>3, CancelOpenRows DEF Unassign
  <2> QED BY <1>3, <2>1, <2>2 DEF Unassign, TypeOK, Statuses
<1>4. CASE Reopen
  <2>1. ses' \in [Sessions -> SesRow] BY <1>4, CancelOpenRows DEF Reopen
  <2>2. rec' \in [Recounts -> RecRow] BY <1>4 DEF Reopen, RecountsReset, TypeOK, RecRow
  <2> QED BY <1>4, <2>1, <2>2 DEF Reopen, TypeOK, Statuses, Deadlines
<1>5. CASE StartCampaign \/ CancelCampaign \/ ExpireOnCommand \/ Prepare \/ Approve \/ Close
  BY <1>5 DEF StartCampaign, CancelCampaign, ExpireOnCommand, Prepare, Approve, Close,
              TypeOK, Statuses, rows
<1> QED BY <1>1, <1>2, <1>3, <1>4, <1>5 DEF AdminNext

\* ... what starting or submitting a session leaves, ...
LEMMA CountType == ASSUME TypeOK, CountNext PROVE TypeOK'
<1>1. ASSUME NEW s \in Sessions, NEW a \in Assignments, StartSession(s, a) PROVE TypeOK'
  <2>1. ses' \in [Sessions -> SesRow] BY <1>1 DEF StartSession, TypeOK, SesRow
  <2>2. rec' \in [Recounts -> RecRow] BY <1>1 DEF StartSession, TypeOK, RecRow
  <2> QED BY <1>1, <2>1, <2>2 DEF StartSession, TypeOK
<1>2. ASSUME NEW s \in Sessions, NEW a \in Assignments, Submit(s, a) PROVE TypeOK'
  <2>1. ses' \in [Sessions -> SesRow] BY <1>2 DEF Submit, TypeOK, SesRow
  <2>2. asg' \in [Assignments -> AsgRow] BY <1>2 DEF Submit, TypeOK, AsgRow
  <2>3. rec' \in [Recounts -> RecRow] BY <1>2 DEF Submit, TypeOK, RecRow
  <2> QED BY <1>2, <2>1, <2>2, <2>3 DEF Submit, TypeOK, Statuses
<1> QED BY <1>1, <1>2 DEF CountNext

\* ... what asking for, handing on or cancelling a recount leaves, ...
LEMMA RecountType == ASSUME TypeOK, RecountNext PROVE TypeOK'
<1>1. ASSUME NEW r \in Recounts, NEW a \in Assignments, NEW u \in Users,
             NEW src \in Sessions \cup {None}, RequestRecount(r, a, u, src)
      PROVE  TypeOK'
  <2>1. asg' \in [Assignments -> AsgRow]
    BY <1>1, RevokeActiveRows DEF RequestRecount, NewAssignment, AsgRow
  <2>2. ses' \in [Sessions -> SesRow] BY <1>1, CancelOpenRows DEF RequestRecount
  <2>3. rec' \in [Recounts -> RecRow] BY <1>1 DEF RequestRecount, TypeOK, RecRow
  <2> QED BY <1>1, <2>1, <2>2, <2>3 DEF RequestRecount, TypeOK, Statuses
<1>2. ASSUME NEW r \in Recounts, NEW a \in Assignments, NEW u \in Users, ReassignRecount(r, a, u)
      PROVE  TypeOK'
  <2>1. asg' \in [Assignments -> AsgRow]
    BY <1>2, RevokeActiveRows DEF ReassignRecount, NewAssignment, AsgRow
  <2>2. ses' \in [Sessions -> SesRow] BY <1>2, CancelOpenRows DEF ReassignRecount
  <2>3. rec' \in [Recounts -> RecRow] BY <1>2 DEF ReassignRecount, TypeOK, RecRow
  <2> QED BY <1>2, <2>1, <2>2, <2>3 DEF ReassignRecount, TypeOK
<1>3. ASSUME NEW r \in Recounts, CancelRecount(r) PROVE TypeOK'
  <2>1. asg' \in [Assignments -> AsgRow] BY <1>3 DEF CancelRecount, TypeOK, AsgRow
  <2>2. ses' \in [Sessions -> SesRow] BY <1>3, CancelOpenRows DEF CancelRecount
  <2>3. rec' \in [Recounts -> RecRow] BY <1>3 DEF CancelRecount, TypeOK, RecRow
  <2> QED BY <1>3, <2>1, <2>2, <2>3 DEF CancelRecount, TypeOK, Statuses
<1>4. CASE RequestRecountLate BY <1>4 DEF RequestRecountLate, TypeOK, Statuses, rows
<1> QED BY <1>1, <1>2, <1>3, <1>4 DEF RecountNext

\* ... and what reading a campaign and the clock leave.
LEMMA ReadType == ASSUME TypeOK, ReadNext PROVE TypeOK'
<1>1. Idle \in GetRow BY DEF Idle, GetRow, Statuses, Deadlines
<1>2. ASSUME NEW g \in Readers, GetRead(g) PROVE TypeOK'
  <2>1. [open |-> TRUE, status |-> status, deadline |-> deadline] \in GetRow
    BY DEF TypeOK, GetRow
  <2>2. get' \in [Readers -> GetRow] BY <1>2, <2>1 DEF GetRead, TypeOK
  <2> QED BY <1>2, <2>2 DEF GetRead, TypeOK, rows
<1>3. ASSUME NEW g \in Readers, GetExpire(g) \/ GetReturn(g) PROVE TypeOK'
  <2>1. get' \in [Readers -> GetRow] BY <1>1, <1>3 DEF GetExpire, GetReturn, TypeOK
  <2>2. status' \in Statuses BY <1>3 DEF GetExpire, GetReturn, TypeOK, Statuses
  <2> QED BY <1>3, <2>1, <2>2 DEF GetExpire, GetReturn, TypeOK, rows
<1>4. CASE DeadlinePasses
  <2>1. get' \in [Readers -> GetRow] BY <1>4 DEF DeadlinePasses, TypeOK, GetRow, Deadlines
  <2> QED BY <1>4, <2>1 DEF DeadlinePasses, TypeOK, Deadlines, rows
<1> QED BY <1>2, <1>3, <1>4 DEF ReadNext

\* Every step keeps the types.
LEMMA StepType == ASSUME TypeOK, [Next]_vars PROVE TypeOK'
<1>1. CASE UNCHANGED vars BY <1>1 DEF vars, rows, TypeOK
<1> QED BY <1>1, AdminType, CountType, RecountType, ReadType DEF Next

\* Every row of the campaign keeps its type, whatever is commanded.
THEOREM TypeCorrect == Spec => []TypeOK
<1>1. Init => TypeOK BY InitType
<1>2. TypeOK /\ [Next]_vars => TypeOK' BY StepType
<1> QED BY <1>1, <1>2, PTL DEF Spec

-----------------------------------------------------------------------------
(* The steps that move rows, one lemma each.                               *)

\* A command that hands the campaign to a new assignment a of user u, closing
\* the open session and leaving at most the recounts assigned to u open.
LEMMA HandOver ==
    ASSUME TypeOK, RowsInv, TypeOK', NEW a \in Assignments, NEW u \in Users,
           NEW S, SessionsOf(Active) \subseteq S, ses' = CancelOpen(S), NewAssignment(a, u)
    PROVE  /\ OneActiveAssignment' /\ OpenSessions'
           /\ \A s \in Sessions : ~Open(s)' /\ (Open(s) => ses'[s].status = "CANCELLED")
           /\ \A s \in Sessions : ses[s].status = "SUBMITTED" => ses'[s].status = "SUBMITTED"
           /\ \A b \in Assignments : asg'[b].status = "ACTIVE" => b = a /\ asg'[b].user = u
<1>1. \A s \in Sessions : ses'[s].status = IF Open(s) THEN "CANCELLED" ELSE ses[s].status
  BY RevokingCloses DEF RowsInv
<1>2. \A b \in Assignments : asg'[b].status = "ACTIVE" => b = a /\ asg'[b].user = u
  BY RevokeActiveRows DEF NewAssignment
<1> QED BY <1>1, <1>2 DEF OneActiveAssignment, OpenSessions, Open

\* Assigning never meets an open recount: it would hold the campaign.
LEMMA AssignRows ==
    ASSUME LifecycleInv, TypeOK', NEW a \in Assignments, NEW u \in Users, Assign(a, u)
    PROVE  RowsInv' /\ StatusInv'
<1>1. TypeOK /\ RowsInv /\ StatusInv BY DEF LifecycleInv
<1>2. OpenRecounts = {} BY <1>1 DEF Assign, StatusInv
<1>3. rec' = rec /\ OpenRecounts' = {} BY <1>2 DEF Assign, OpenRecounts
<1>4. ses' = CancelOpen(SessionsOf(Active)) /\ NewAssignment(a, u) BY DEF Assign
<1>5. /\ OneActiveAssignment' /\ OpenSessions'
      /\ \A s \in Sessions : ~Open(s)'
      /\ \A s \in Sessions : ses[s].status = "SUBMITTED" => ses'[s].status = "SUBMITTED"
  BY <1>1, <1>4, HandOver
<1>6. OneOpenRecount' /\ RecountOfResponsible'
  BY <1>3 DEF OneOpenRecount, RecountOfResponsible
<1>7. RecountFollowsSession'
  BY <1>1, <1>2, <1>3, <1>5 DEF RowsInv, RecountFollowsSession, OpenRecounts, OpenStatuses, Open
<1>8. SourceSubmitted' BY <1>1, <1>3, <1>5 DEF RowsInv, SourceSubmitted
<1>9. StatusInv'
  <2>1. status' \notin Reviewed BY DEF Assign, Reviewed
  <2> QED BY <1>3, <2>1 DEF StatusInv, Reviewed
<1> QED BY <1>5, <1>6, <1>7, <1>8, <1>9 DEF RowsInv

\* Neither does unassigning.
LEMMA UnassignRows ==
    ASSUME LifecycleInv, TypeOK', Unassign
    PROVE  RowsInv' /\ StatusInv'
<1>1. TypeOK /\ RowsInv /\ StatusInv BY DEF LifecycleInv
<1>2. OpenRecounts = {} BY <1>1 DEF Unassign, StatusInv
<1>3. rec' = rec /\ OpenRecounts' = {} BY <1>2 DEF Unassign, OpenRecounts
<1>4. \A s \in Sessions : ses'[s].status = IF Open(s) THEN "CANCELLED" ELSE ses[s].status
  BY <1>1, RevokingCloses DEF Unassign, RowsInv
<1>5. \A b \in Assignments : asg'[b].status # "ACTIVE" BY <1>1, RevokeActiveRows DEF Unassign
<1>6. OneActiveAssignment' /\ OpenSessions'
  BY <1>4, <1>5 DEF OneActiveAssignment, OpenSessions, Open
<1>7. OneOpenRecount' /\ RecountOfResponsible'
  BY <1>3 DEF OneOpenRecount, RecountOfResponsible
<1>8. RecountFollowsSession'
  BY <1>1, <1>2, <1>3, <1>4 DEF RowsInv, RecountFollowsSession, OpenRecounts, OpenStatuses, Open
<1>9. SourceSubmitted' BY <1>1, <1>3, <1>4 DEF RowsInv, SourceSubmitted, Open
<1>10. StatusInv' BY <1>3 DEF StatusInv, Unassign, Reviewed
<1> QED BY <1>6, <1>7, <1>8, <1>9, <1>10 DEF RowsInv

\* Reopening takes the session of a recount under way and the recount's link to it.
LEMMA ReopenRows ==
    ASSUME LifecycleInv, TypeOK', Reopen
    PROVE  RowsInv' /\ StatusInv'
<1> DEFINE stale == {rec[r].result : r \in {q \in Recounts : rec[q].status = "IN_PROGRESS"}}
<1>1. TypeOK /\ RowsInv /\ StatusInv BY DEF LifecycleInv
<1>2. ses' = CancelOpen(stale) /\ rec' = RecountsReset /\ UNCHANGED asg BY DEF Reopen
<1>3. \A s \in Sessions :
         /\ ses'[s].asg = ses[s].asg /\ ses'[s].type = ses[s].type
         /\ ses'[s].status = IF s \in stale /\ Open(s) THEN "CANCELLED" ELSE ses[s].status
  BY <1>1, <1>2, CancelOpenRows
<1>4. \A r \in Recounts :
         /\ rec'[r].user = rec[r].user /\ rec'[r].source = rec[r].source
         /\ rec'[r].status = IF rec[r].status = "IN_PROGRESS" THEN "ASSIGNED" ELSE rec[r].status
         /\ rec'[r].result = IF rec[r].status = "IN_PROGRESS" THEN None ELSE rec[r].result
  BY <1>1, <1>2 DEF RecountsReset, TypeOK, RecRow
<1>5. OpenRecounts' = OpenRecounts BY <1>4 DEF OpenRecounts, OpenStatuses
<1>6. \A s \in Sessions : Open(s)' => Open(s) /\ s \notin stale BY <1>3 DEF Open
<1>7. OpenRecounts # {} => \A s \in Sessions : ~Open(s)'
  BY <1>1, <1>6 DEF RowsInv, RecountOfResponsible, OpenRecounts
<1>8. OneActiveAssignment' BY <1>1, <1>2 DEF RowsInv, OneActiveAssignment
<1>9. OpenSessions' BY <1>1, <1>2, <1>3, <1>6 DEF RowsInv, OpenSessions
<1>10. OneOpenRecount' BY <1>1, <1>5 DEF RowsInv, OneOpenRecount
<1>11. RecountFollowsSession'
  <2>1. ASSUME NEW r \in Recounts
        PROVE  /\ rec'[r].status = "ASSIGNED" => rec'[r].result = None
               /\ rec'[r].status # "IN_PROGRESS"
               /\ rec'[r].status = "COMPLETED" =>
                    rec'[r].result \in Sessions /\ ses'[rec'[r].result].status = "SUBMITTED"
    BY <1>1, <1>3, <1>4 DEF RowsInv, RecountFollowsSession, Open
  <2>2. \A s \in Sessions : ~(Open(s)' /\ ses'[s].type = "RECOUNT")
    BY <1>1, <1>3, <1>6 DEF RowsInv, RecountFollowsSession, Open
  <2> QED BY <2>1, <2>2 DEF RecountFollowsSession, Open
<1>12. RecountOfResponsible'
  BY <1>1, <1>2, <1>4, <1>5, <1>7 DEF RowsInv, RecountOfResponsible, OpenRecounts, Active
<1>13. SourceSubmitted' BY <1>1, <1>3, <1>4 DEF RowsInv, SourceSubmitted, Open
<1>14. StatusInv'
  <2>1. status' = IF OpenRecounts # {} THEN "RECOUNT" ELSE "IN_PROGRESS" BY DEF Reopen
  <2>2. ASSUME OpenRecounts # {} PROVE \E s \in Sessions : ses'[s].status = "SUBMITTED"
    <3>1. PICK r \in OpenRecounts : TRUE BY <2>2
    <3>2. r \in Recounts /\ rec'[r].status # "ABSENT"
      BY <1>5, <3>1 DEF OpenRecounts, OpenStatuses
    <3> QED BY <1>13, <3>2 DEF SourceSubmitted
  <2> QED BY <1>5, <2>1, <2>2 DEF StatusInv, Reviewed
<1> QED BY <1>8, <1>9, <1>10, <1>11, <1>12, <1>13, <1>14 DEF RowsInv

\* A session starts with none open, and takes up the open recount if there is one.
LEMMA StartSessionRows ==
    ASSUME LifecycleInv, TypeOK',
           NEW s \in Sessions, NEW a \in Assignments, StartSession(s, a)
    PROVE  RowsInv' /\ StatusInv'
<1> DEFINE mine == {r \in Recounts : rec[r].status = "ASSIGNED" /\ rec[r].user = asg[a].user}
<1>1. TypeOK /\ RowsInv /\ StatusInv BY DEF LifecycleInv
<1>2. /\ a \in Active /\ ses[s].status = "ABSENT" /\ UNCHANGED <<status, asg>>
      /\ \A t \in SessionsOf({a}) : ses[t].status # "IN_PROGRESS"
  BY DEF StartSession
<1>3. \A t \in Sessions : ~Open(t)
  BY <1>1, <1>2 DEF RowsInv, OpenSessions, OneActiveAssignment, SessionsOf, Active, Open
<1>4. /\ \A t \in Sessions : t # s => ses'[t] = ses[t]
      /\ ses'[s].status = "IN_PROGRESS" /\ ses'[s].asg = a
      /\ mine # {} => ses'[s].type = "RECOUNT"
      /\ mine = {} => ses'[s].type # "RECOUNT"
  BY <1>1 DEF StartSession, TypeOK
<1>5. \A r \in Recounts :
         /\ r \notin mine => rec'[r] = rec[r]
         /\ r \in mine => /\ rec'[r].status = "IN_PROGRESS" /\ rec'[r].result = s
                          /\ rec'[r].user = rec[r].user /\ rec'[r].source = rec[r].source
  <2>1. rec' = [r \in Recounts |->
                  IF r \in mine
                  THEN [rec[r] EXCEPT !.status = "IN_PROGRESS", !.result = s] ELSE rec[r]]
    BY DEF StartSession
  <2>2. \A r \in Recounts : rec[r] \in RecRow BY <1>1 DEF TypeOK
  <2> HIDE DEF mine
  <2> QED BY <2>1, <2>2 DEF RecRow
<1>6. \A r \in OpenRecounts : r \in mine
  <2>1. ASSUME NEW r \in OpenRecounts PROVE r \in mine
    <3>1. rec[r].user = asg[a].user BY <1>1, <1>2 DEF RowsInv, RecountOfResponsible
    <3>2. rec[r].status # "IN_PROGRESS"
      BY <1>1, <1>3 DEF RowsInv, RecountFollowsSession, OpenRecounts, Open
    <3> QED BY <3>1, <3>2 DEF OpenRecounts, OpenStatuses
  <2> QED BY <2>1
<1>7. mine \subseteq OpenRecounts BY DEF OpenRecounts, OpenStatuses
<1> HIDE DEF mine
<1>8. OpenRecounts' = OpenRecounts BY <1>5, <1>6, <1>7 DEF OpenRecounts, OpenStatuses
<1>9. \A t \in Sessions : Open(t)' <=> t = s BY <1>3, <1>4 DEF Open
<1>10. \A t \in Sessions : ses[t].status = "SUBMITTED" => ses'[t] = ses[t] BY <1>2, <1>4
<1>11. OneActiveAssignment' BY <1>1, <1>2 DEF RowsInv, OneActiveAssignment
<1>12. OpenSessions' BY <1>2, <1>4, <1>9 DEF OpenSessions, Active
<1>13. OneOpenRecount' BY <1>1, <1>8 DEF RowsInv, OneOpenRecount
<1>14. RecountFollowsSession'
  <2>1. ASSUME NEW r \in Recounts, r \in mine
        PROVE  /\ rec'[r].status = "IN_PROGRESS" /\ rec'[r].result = s
               /\ ses'[s].status = "IN_PROGRESS" /\ ses'[s].type = "RECOUNT"
               /\ UserOf(s)' = rec'[r].user
    <3>1. asg'[a].user = rec[r].user
      BY <1>1, <1>2, <1>7, <2>1 DEF RowsInv, RecountOfResponsible
    <3> QED BY <1>4, <1>5, <2>1, <3>1 DEF UserOf
  <2>2. ASSUME NEW r \in Recounts, r \notin mine
        PROVE  /\ rec'[r].status \notin {"ASSIGNED", "IN_PROGRESS"}
               /\ rec'[r].status = "COMPLETED" =>
                    rec'[r].result \in Sessions /\ ses'[rec'[r].result].status = "SUBMITTED"
    <3>1. rec'[r] = rec[r] /\ r \notin OpenRecounts BY <1>5, <1>6, <2>2
    <3> QED BY <1>1, <1>10, <3>1 DEF RowsInv, RecountFollowsSession, OpenRecounts, OpenStatuses
  <2>3. ASSUME NEW t \in Sessions, Open(t)', ses'[t].type = "RECOUNT"
        PROVE  \E r \in Recounts : rec'[r].status = "IN_PROGRESS" /\ rec'[r].result = t
    <3>1. t = s /\ mine # {} BY <1>4, <1>9, <2>3
    <3> QED BY <2>1, <1>7, <3>1 DEF OpenRecounts
  <2> QED BY <2>1, <2>2, <2>3 DEF RecountFollowsSession, Open
<1>15. RecountOfResponsible'
  BY <1>1, <1>2, <1>5, <1>6, <1>8, <1>9 DEF RowsInv, RecountOfResponsible, OpenRecounts, Active
<1>16. SourceSubmitted'
  BY <1>1, <1>5, <1>7, <1>10 DEF RowsInv, SourceSubmitted, OpenRecounts, OpenStatuses
<1>17. StatusInv' BY <1>1, <1>2, <1>8, <1>10 DEF StatusInv
<1> QED BY <1>11, <1>12, <1>13, <1>14, <1>15, <1>16, <1>17 DEF RowsInv

\* Submitting ends the only open session, and with it the open recount.
LEMMA SubmitRows ==
    ASSUME LifecycleInv, TypeOK', NEW s \in Sessions, NEW a \in Assignments, Submit(s, a)
    PROVE  RowsInv' /\ StatusInv'
<1>1. TypeOK /\ RowsInv /\ StatusInv BY DEF LifecycleInv
<1>2. Open(s) /\ a \in Active /\ status' = "SUBMITTED" BY DEF Submit, Open
<1>3. \A t \in Sessions : Open(t) => t = s BY <1>1, <1>2 DEF RowsInv, OpenSessions
<1>4. /\ \A t \in Sessions : t # s => ses'[t] = ses[t]
      /\ ses'[s].status = "SUBMITTED"
  BY <1>1 DEF Submit, TypeOK, SesRow
<1>5. \A b \in Assignments : asg'[b].status # "ACTIVE"
  BY <1>1, <1>2 DEF Submit, TypeOK, AsgRow, RowsInv, OneActiveAssignment, Active
<1>6. \A r \in OpenRecounts : rec[r].result = s /\ ses[s].type = "RECOUNT"
  <2>1. ASSUME NEW r \in OpenRecounts PROVE rec[r].result = s /\ ses[s].type = "RECOUNT"
    <3>1. rec[r].status = "IN_PROGRESS" /\ rec[r].result = s
      BY <1>1, <1>2 DEF RowsInv, RecountOfResponsible
    <3> QED BY <1>1, <3>1 DEF RowsInv, RecountFollowsSession, OpenRecounts
  <2> QED BY <2>1
<1>7. \A r \in Recounts :
         /\ r \notin OpenRecounts => rec'[r] = rec[r]
         /\ r \in OpenRecounts => /\ rec'[r].status = "COMPLETED" /\ rec'[r].result = s
                                  /\ rec'[r].source = rec[r].source
  <2>1. rec' = [r \in Recounts |->
                  IF ses[s].type = "RECOUNT" /\ r \in OpenRecounts /\ rec[r].result = s
                  THEN [rec[r] EXCEPT !.status = "COMPLETED"] ELSE rec[r]]
    BY DEF Submit
  <2>2. \A r \in Recounts : rec[r] \in RecRow BY <1>1 DEF TypeOK
  <2> QED BY <1>6, <2>1, <2>2 DEF RecRow
<1>8. OpenRecounts' = {} BY <1>7 DEF OpenRecounts, OpenStatuses
<1>9. \A t \in Sessions : ~Open(t)' BY <1>3, <1>4 DEF Open
<1>10. \A t \in Sessions : ses[t].status = "SUBMITTED" => ses'[t].status = "SUBMITTED" BY <1>4
<1>11. OneActiveAssignment' /\ OpenSessions' BY <1>5, <1>9 DEF OneActiveAssignment, OpenSessions
<1>12. OneOpenRecount' /\ RecountOfResponsible' BY <1>8 DEF OneOpenRecount, RecountOfResponsible
<1>13. RecountFollowsSession'
  <2>1. ASSUME NEW r \in Recounts
        PROVE  /\ rec'[r].status \notin {"ASSIGNED", "IN_PROGRESS"}
               /\ rec'[r].status = "COMPLETED" =>
                    rec'[r].result \in Sessions /\ ses'[rec'[r].result].status = "SUBMITTED"
    <3>1. CASE r \in OpenRecounts BY <1>4, <1>7, <3>1
    <3>2. CASE r \notin OpenRecounts
      BY <1>1, <1>7, <1>10, <3>2 DEF RowsInv, RecountFollowsSession, OpenRecounts, OpenStatuses
    <3> QED BY <3>1, <3>2
  <2> QED BY <1>9, <2>1 DEF RecountFollowsSession, Open
<1>14. SourceSubmitted'
  BY <1>1, <1>7, <1>10 DEF RowsInv, SourceSubmitted, OpenRecounts, OpenStatuses
<1>15. StatusInv' BY <1>2, <1>4, <1>8 DEF StatusInv
<1> QED BY <1>11, <1>12, <1>13, <1>14, <1>15 DEF RowsInv

\* The rest of a recount's assignment, new or handed on: r waits for u.
LEMMA RecountHandOver ==
    ASSUME LifecycleInv, TypeOK', NEW r \in Recounts, NEW a \in Assignments, NEW u \in Users,
           NEW S, SessionsOf(Active) \subseteq S, ses' = CancelOpen(S), NewAssignment(a, u),
           OpenRecounts \subseteq {r}, \A q \in Recounts \ {r} : rec'[q] = rec[q],
           rec'[r].status = "ASSIGNED", rec'[r].user = u, rec'[r].result = None,
           rec'[r].source \in Sessions, ses[rec'[r].source].status = "SUBMITTED",
           status' \in {"RECOUNT", "EXPIRED"}
    PROVE  RowsInv' /\ StatusInv'
<1>1. TypeOK /\ RowsInv /\ StatusInv BY DEF LifecycleInv
<1>2. /\ OneActiveAssignment' /\ OpenSessions'
      /\ \A s \in Sessions : ~Open(s)'
      /\ \A s \in Sessions : ses[s].status = "SUBMITTED" => ses'[s].status = "SUBMITTED"
      /\ \A b \in Assignments : asg'[b].status = "ACTIVE" => b = a /\ asg'[b].user = u
  BY <1>1, HandOver
<1>3. OpenRecounts' = {r} BY DEF OpenRecounts, OpenStatuses
<1>4. OneOpenRecount' BY <1>3 DEF OneOpenRecount
<1>5. RecountFollowsSession'
  <2>1. ASSUME NEW q \in Recounts \ {r}
        PROVE  /\ rec'[q].status \notin {"ASSIGNED", "IN_PROGRESS"}
               /\ rec'[q].status = "COMPLETED" =>
                    rec'[q].result \in Sessions /\ ses'[rec'[q].result].status = "SUBMITTED"
    BY <1>1, <1>2 DEF RowsInv, RecountFollowsSession, OpenRecounts, OpenStatuses
  <2> QED BY <1>2, <2>1 DEF RecountFollowsSession, Open
<1>6. RecountOfResponsible' BY <1>2, <1>3 DEF RecountOfResponsible, Active
<1>7. SourceSubmitted' BY <1>1, <1>2 DEF RowsInv, SourceSubmitted
<1>8. StatusInv' BY <1>2, <1>3 DEF StatusInv
<1> QED BY <1>2, <1>4, <1>5, <1>6, <1>7, <1>8 DEF RowsInv

\* A recount is asked for with none open; a submitted session is its source.
LEMMA RequestRecountRows ==
    ASSUME LifecycleInv, TypeOK', NEW r \in Recounts, NEW a \in Assignments, NEW u \in Users,
           NEW src \in Sessions \cup {None}, RequestRecount(r, a, u, src)
    PROVE  RowsInv' /\ StatusInv'
<1>1. TypeOK /\ RowsInv /\ StatusInv BY DEF LifecycleInv
<1>2. \E s \in Sessions : ses[s].status = "SUBMITTED"
  BY <1>1 DEF RequestRecount, Requestable, StatusInv, Reviewed
<1>3. src \in Sessions /\ ses[src].status = "SUBMITTED" BY <1>2 DEF RequestRecount
<1>4. /\ \A q \in Recounts \ {r} : rec'[q] = rec[q]
      /\ rec'[r] = [status |-> "ASSIGNED", user |-> u, source |-> src, result |-> None]
  BY <1>1 DEF RequestRecount, TypeOK
<1>5. /\ OpenRecounts = {} /\ status' = "RECOUNT"
      /\ ses' = CancelOpen(SessionsOf(Active)) /\ NewAssignment(a, u)
  BY DEF RequestRecount
<1> QED BY <1>3, <1>4, <1>5, RecountHandOver

\* Handing a recount on sends it back to waiting.
LEMMA ReassignRecountRows ==
    ASSUME LifecycleInv, TypeOK', NEW r \in Recounts, NEW a \in Assignments, NEW u \in Users,
           ReassignRecount(r, a, u)
    PROVE  RowsInv' /\ StatusInv'
<1>1. TypeOK /\ RowsInv /\ StatusInv BY DEF LifecycleInv
<1>2. r \in OpenRecounts /\ UNCHANGED status BY DEF ReassignRecount
<1>3. OpenRecounts \subseteq {r} BY <1>1, <1>2 DEF RowsInv, OneOpenRecount
<1>4. rec[r] \in RecRow /\ (rec[r].status = "ASSIGNED" => rec[r].result = None)
  BY <1>1 DEF TypeOK, RowsInv, RecountFollowsSession
<1>5. /\ \A q \in Recounts \ {r} : rec'[q] = rec[q]
      /\ rec'[r].status = "ASSIGNED" /\ rec'[r].user = u /\ rec'[r].result = None
      /\ rec'[r].source = rec[r].source
  BY <1>1, <1>2, <1>4 DEF ReassignRecount, TypeOK, RecRow, OpenRecounts, OpenStatuses
<1>6. rec[r].source \in Sessions /\ ses[rec[r].source].status = "SUBMITTED"
  BY <1>1, <1>2 DEF RowsInv, SourceSubmitted, OpenRecounts, OpenStatuses
<1>7. status' \in {"RECOUNT", "EXPIRED"} BY <1>1, <1>2 DEF StatusInv
<1>8. \E S : SessionsOf(Active) \subseteq S /\ ses' = CancelOpen(S)
  BY DEF ReassignRecount
<1>9. NewAssignment(a, u) BY DEF ReassignRecount
<1> QED BY <1>3, <1>5, <1>6, <1>7, <1>8, <1>9, RecountHandOver

\* Cancelling a recount ends its session and assignment; its source is what review falls back on.
LEMMA CancelRecountRows ==
    ASSUME LifecycleInv, TypeOK', NEW r \in Recounts, CancelRecount(r)
    PROVE  RowsInv' /\ StatusInv'
<1>1. TypeOK /\ RowsInv /\ StatusInv BY DEF LifecycleInv
<1>2. r \in OpenRecounts /\ ses' = CancelOpen({rec[r].result}) BY DEF CancelRecount
<1>3. OpenRecounts = {r} BY <1>1, <1>2 DEF RowsInv, OneOpenRecount
<1>4. \A s \in Sessions :
         ses'[s].status = IF s = rec[r].result /\ Open(s) THEN "CANCELLED" ELSE ses[s].status
  BY <1>1, <1>2, CancelOpenRows
<1>5. \A s \in Sessions : ~Open(s)'
  BY <1>1, <1>2, <1>4 DEF RowsInv, RecountOfResponsible, Open
<1>6. \A s \in Sessions : ses[s].status = "SUBMITTED" => ses'[s].status = "SUBMITTED"
  BY <1>4 DEF Open
<1>7. \A b \in Assignments : asg'[b].status # "ACTIVE"
  BY <1>1, <1>2 DEF CancelRecount, TypeOK, AsgRow, RowsInv, RecountOfResponsible, Active
<1>8. /\ \A q \in Recounts \ {r} : rec'[q] = rec[q]
      /\ rec'[r].status = "CANCELLED" /\ rec'[r].source = rec[r].source
  BY <1>1 DEF CancelRecount, TypeOK, RecRow
<1>9. OpenRecounts' = {} BY <1>3, <1>8 DEF OpenRecounts, OpenStatuses
<1>10. OneActiveAssignment' /\ OpenSessions' BY <1>5, <1>7 DEF OneActiveAssignment, OpenSessions
<1>11. OneOpenRecount' /\ RecountOfResponsible' BY <1>9 DEF OneOpenRecount, RecountOfResponsible
<1>12. RecountFollowsSession'
  <2>1. ASSUME NEW q \in Recounts
        PROVE  /\ rec'[q].status \notin {"ASSIGNED", "IN_PROGRESS"}
               /\ rec'[q].status = "COMPLETED" =>
                    rec'[q].result \in Sessions /\ ses'[rec'[q].result].status = "SUBMITTED"
    BY <1>1, <1>3, <1>6, <1>8 DEF RowsInv, RecountFollowsSession, OpenRecounts, OpenStatuses
  <2> QED BY <1>5, <2>1 DEF RecountFollowsSession, Open
<1>13. SourceSubmitted'
  <2>1. ASSUME NEW q \in Recounts, rec'[q].status # "ABSENT"
        PROVE  rec'[q].source = rec[q].source /\ rec[q].status # "ABSENT"
    BY <1>2, <1>8, <2>1 DEF OpenRecounts, OpenStatuses
  <2> QED BY <1>1, <1>6, <2>1 DEF RowsInv, SourceSubmitted
<1>14. StatusInv'
  <2>1. \E s \in Sessions : ses[s].status = "SUBMITTED"
    BY <1>1, <1>2 DEF RowsInv, SourceSubmitted, OpenRecounts, OpenStatuses
  <2>2. status' # "RECOUNT" BY <1>1, <1>2, <2>1 DEF CancelRecount, StatusInv
  <2> QED BY <1>6, <1>9, <2>1, <2>2 DEF StatusInv
<1> QED BY <1>10, <1>11, <1>12, <1>13, <1>14 DEF RowsInv

\* The commands and reads that move no row.
LEMMA OtherRows ==
    ASSUME LifecycleInv, TypeOK', UNCHANGED rows,
           \/ status' \in {status, "EXPIRED"}
           \/ status \notin {"RECOUNT", "EXPIRED"} /\ status' \in {"IN_PROGRESS", "CANCELLED"}
           \/ status \in Reviewed \ {"RECOUNT"} /\ status' \in Reviewed \ {"RECOUNT"}
    PROVE  RowsInv' /\ StatusInv'
<1>1. RowsInv /\ StatusInv BY DEF LifecycleInv
<1>2. UNCHANGED <<asg, ses, rec>> BY DEF rows
<1>3. OpenRecounts' = OpenRecounts BY <1>2 DEF OpenRecounts
<1>4. RowsInv'
  BY <1>1, <1>2, <1>3 DEF RowsInv, OneActiveAssignment, OpenSessions, OneOpenRecount,
     RecountFollowsSession, RecountOfResponsible, SourceSubmitted, Open, Active, UserOf
<1>5. StatusInv' BY <1>1, <1>2, <1>3 DEF StatusInv, Reviewed
<1> QED BY <1>4, <1>5

\* Every step keeps the invariant.
LEMMA LifecycleInvStep ==
    ASSUME LifecycleInv, [Next]_vars
    PROVE  LifecycleInv'
<1> USE DEF Reviewed
<1>1. TypeOK /\ RowsInv /\ StatusInv BY DEF LifecycleInv
<1>2. TypeOK' BY <1>1, StepType
<1>3. SUFFICES RowsInv' /\ StatusInv' BY <1>2 DEF LifecycleInv
<1>4. CASE AdminNext
  <2>1. ASSUME NEW d \in {"future", "past"}, UpdateDeadline(d) PROVE RowsInv' /\ StatusInv'
    BY <1>2, <2>1, OtherRows DEF UpdateDeadline
  <2>2. ASSUME NEW a \in Assignments, NEW u \in Users, Assign(a, u) PROVE RowsInv' /\ StatusInv'
    BY <1>2, <2>2, AssignRows
  <2>3. CASE Unassign BY <1>2, <2>3, UnassignRows
  <2>4. CASE Reopen BY <1>2, <2>4, ReopenRows
  <2>5. CASE StartCampaign BY <1>2, <2>5, OtherRows DEF StartCampaign
  <2>6. CASE CancelCampaign BY <1>2, <2>6, OtherRows DEF CancelCampaign, Cancellable
  <2>7. CASE ExpireOnCommand BY <1>2, <2>7, OtherRows DEF ExpireOnCommand
  <2>8. CASE Prepare \/ Approve \/ Close
    BY <1>2, <2>8, OtherRows DEF Prepare, Approve, Close
  <2> QED BY <1>4, <2>1, <2>2, <2>3, <2>4, <2>5, <2>6, <2>7, <2>8 DEF AdminNext
<1>5. CASE CountNext BY <1>2, <1>5, StartSessionRows, SubmitRows DEF CountNext
<1>6. CASE RecountNext
  <2>1. CASE RequestRecountLate BY <1>2, <2>1, OtherRows DEF RequestRecountLate
  <2> QED BY <1>2, <1>6, <2>1, RequestRecountRows, ReassignRecountRows, CancelRecountRows
      DEF RecountNext
<1>7. CASE ReadNext
  BY <1>2, <1>7, OtherRows DEF ReadNext, GetRead, GetExpire, GetReturn, DeadlinePasses
<1>8. CASE UNCHANGED vars
  <2>1. UNCHANGED rows /\ status' = status BY <1>8 DEF vars, rows
  <2> QED BY <1>2, <2>1, OtherRows
<1> QED BY <1>4, <1>5, <1>6, <1>7, <1>8 DEF Next

\* It holds of a new campaign.
LEMMA LifecycleInvInit == ASSUME Init PROVE LifecycleInv
<1>1. TypeOK BY InitType
<1>2. /\ \A a \in Assignments : asg[a].status = "ABSENT"
      /\ \A s \in Sessions : ses[s].status = "ABSENT"
      /\ \A r \in Recounts : rec[r].status = "ABSENT"
      /\ status = "DRAFT"
  BY DEF Init
<1>3. OpenRecounts = {} BY <1>2 DEF OpenRecounts, OpenStatuses
<1>4. RowsInv
  BY <1>2, <1>3 DEF RowsInv, OneActiveAssignment, OpenSessions, OneOpenRecount,
     RecountFollowsSession, RecountOfResponsible, SourceSubmitted, Open
<1>5. StatusInv BY <1>2, <1>3 DEF StatusInv, Reviewed
<1> QED BY <1>1, <1>4, <1>5 DEF LifecycleInv

-----------------------------------------------------------------------------
(* The theorems.                                                           *)

\* The inductive invariant holds in every reachable state.
THEOREM LifecycleInvHolds == Spec => []LifecycleInv
<1>1. Init => LifecycleInv BY LifecycleInvInit
<1>2. LifecycleInv /\ [Next]_vars => LifecycleInv' BY LifecycleInvStep
<1> QED BY <1>1, <1>2, PTL DEF Spec

\* One person at a time is responsible for a campaign.
THEOREM OneResponsible == Spec => []OneActiveAssignment
BY LifecycleInvHolds, InvImplies, PTL

\* The open session, one at most, is of the responsible: no assignment, recount
\* or reopening leaves a session counting for somebody else.
THEOREM SessionOfResponsible == Spec => []OpenSessionOfResponsible
BY LifecycleInvHolds, InvImplies, PTL

\* An open recount keeps the campaign out of review, approval and closing.
THEOREM RecountHoldsCampaign == Spec => []OpenRecountHoldsCampaign
BY LifecycleInvHolds, InvImplies, PTL

\* A recount and its session start, end and are reset together.
THEOREM RecountMovesWithSession == Spec => []RecountFollowsSession
BY LifecycleInvHolds, InvImplies, PTL

\* A campaign under review always has a submitted count to fall back on.
THEOREM ReviewKeepsSubmission == Spec => []ReviewHasSubmission
BY LifecycleInvHolds, InvImplies, PTL

\* Sessions, assignments and recounts that are over are never touched again.
THEOREM HistoryStaysFinal == Spec => HistoryIsFinal
<1> DEFINE SesFinal == \A s \in Sessions :
                         ses[s].status \in {"SUBMITTED", "CANCELLED"} => ses'[s] = ses[s]
           AsgFinal == \A a \in Assignments :
                         asg[a].status \in {"REVOKED", "COMPLETED"} => asg'[a] = asg[a]
           RecFinal == \A r \in Recounts :
                         rec[r].status \in {"COMPLETED", "CANCELLED"} => rec'[r] = rec[r]
           Final == SesFinal /\ AsgFinal /\ RecFinal
<1>1. ASSUME TypeOK, [Next]_vars PROVE Final
  <2>1. ASSUME UNCHANGED rows PROVE Final BY <2>1 DEF rows
  <2>2. ASSUME NEW S, ses' = CancelOpen(S) PROVE SesFinal BY <2>2 DEF CancelOpen
  <2>3. ASSUME NEW a \in Assignments, NEW u \in Users, NewAssignment(a, u),
               asg[a].status = "ABSENT"
        PROVE  AsgFinal
    BY <1>1, <2>3, RevokeActiveRows DEF NewAssignment, RevokeActive, Active
  <2>4. ASSUME NEW a \in Assignments, NEW u \in Users, Assign(a, u) PROVE Final
    BY <2>2, <2>3, <2>4 DEF Assign
  <2>5. CASE Unassign BY <2>2, <2>5 DEF Unassign, RevokeActive, Active
  <2>6. CASE Reopen BY <2>2, <2>6 DEF Reopen, RecountsReset
  <2>7. CASE AdminNext
    BY <2>1, <2>4, <2>5, <2>6, <2>7 DEF AdminNext, UpdateDeadline, StartCampaign,
       CancelCampaign, ExpireOnCommand, Prepare, Approve, Close
  <2>8. ASSUME NEW s \in Sessions, NEW a \in Assignments, StartSession(s, a) PROVE Final
    BY <1>1, <2>8 DEF StartSession, TypeOK
  <2>9. ASSUME NEW s \in Sessions, NEW a \in Assignments, Submit(s, a) PROVE Final
    BY <1>1, <2>9 DEF Submit, TypeOK, Active, OpenRecounts, OpenStatuses
  <2>10. ASSUME NEW r \in Recounts, NEW a \in Assignments, NEW u \in Users,
                NEW src \in Sessions \cup {None}, RequestRecount(r, a, u, src)
         PROVE  Final
    BY <1>1, <2>2, <2>3, <2>10 DEF RequestRecount, TypeOK
  <2>11. ASSUME NEW r \in Recounts, NEW a \in Assignments, NEW u \in Users,
                ReassignRecount(r, a, u)
         PROVE  Final
    <3>1. SesFinal BY <2>2, <2>11 DEF ReassignRecount
    <3>2. AsgFinal BY <2>3, <2>11 DEF ReassignRecount
    <3>3. RecFinal BY <1>1, <2>11 DEF ReassignRecount, TypeOK, OpenRecounts, OpenStatuses
    <3> QED BY <3>1, <3>2, <3>3
  <2>12. ASSUME NEW r \in Recounts, CancelRecount(r) PROVE Final
    BY <1>1, <2>2, <2>12 DEF CancelRecount, TypeOK, Active, OpenRecounts, OpenStatuses
  <2>13. CASE RequestRecountLate BY <2>1, <2>13 DEF RequestRecountLate
  <2>14. CASE ReadNext
    BY <2>1, <2>14 DEF ReadNext, GetRead, GetExpire, GetReturn, DeadlinePasses
  <2>15. CASE UNCHANGED vars BY <2>1, <2>15 DEF vars
  <2> QED
    BY <1>1, <2>7, <2>8, <2>9, <2>10, <2>11, <2>12, <2>13, <2>14, <2>15
    DEF Next, CountNext, RecountNext
<1>2. TypeOK /\ [Next]_vars => [Final]_vars BY <1>1
<1> QED BY <1>2, TypeCorrect, PTL DEF Spec, HistoryIsFinal

-----------------------------------------------------------------------------
(* Why CountingNeedsSnapshot and CancelledIsFinal fail: each holds of      *)
(* every behaviour without the one kind of step the code should refuse.    *)

\* Only a campaign that was started is reopened.
StartedReopen == Next /\ (Reopen => frozen)
StartedSpec == Init /\ [][StartedReopen]_vars

\* A campaign that counts, and one that has counted, has its snapshot.
CountingIsFrozen ==
    /\ status \in {"IN_PROGRESS"} \cup Reviewed => frozen
    /\ CountingNeedsSnapshot

\* Starting freezes the snapshot, nothing thaws it, and only reopening leads
\* from before the start past it.
LEMMA FrozenStep ==
    ASSUME CountingIsFrozen, [StartedReopen]_vars
    PROVE  CountingIsFrozen'
<1> USE DEF CountingIsFrozen, CountingNeedsSnapshot, Reviewed
<1>1. CASE \E s \in Sessions, a \in Assignments : StartSession(s, a)
  <2>1. frozen /\ frozen' = frozen
    BY <1>1 DEF StartSession, Running
  <2> QED BY <2>1
<1>2. CASE \E s \in Sessions, a \in Assignments : Submit(s, a)
  <2>1. frozen /\ frozen' = frozen
    BY <1>2 DEF Submit, Running
  <2> QED BY <2>1
<1>3. CASE Reopen \/ StartCampaign
  <2>1. frozen'
    BY <1>3 DEF StartedReopen, Reopen, StartCampaign, vars, rows
  <2> QED BY <2>1
<1>4. CASE RecountNext
  <2>1. frozen' = frozen
    BY <1>4 DEF RecountNext, RequestRecount, RequestRecountLate, CancelRecount, ReassignRecount
  <2>2. status' \in {status, "EXPIRED"} \/ status \in {"SUBMITTED", "RECOUNT", "UNDER_REVIEW"}
    <3>1. ASSUME NEW r \in Recounts, CancelRecount(r)
          PROVE  status' = status \/ status \in {"SUBMITTED", "RECOUNT", "UNDER_REVIEW"}
      BY <3>1 DEF CancelRecount
    <3> QED BY <1>4, <3>1 DEF RecountNext, RequestRecount, RequestRecountLate, ReassignRecount,
           Requestable
  <2>3. \A s \in Sessions : ses'[s].status # "ABSENT" => ses[s].status # "ABSENT"
    BY <1>4 DEF RecountNext, RequestRecount, RequestRecountLate, CancelRecount, ReassignRecount,
       CancelOpen, rows
  <2> QED BY <2>1, <2>2, <2>3
<1>5. CASE AdminNext /\ ~Reopen /\ ~StartCampaign
  <2>1. frozen' = frozen
    BY <1>5 DEF AdminNext, UpdateDeadline, Assign, Unassign, CancelCampaign, ExpireOnCommand,
       Prepare, Approve, Close
  <2>2. status' \in {"IN_PROGRESS"} \cup Reviewed => frozen
    BY <1>5 DEF AdminNext, UpdateDeadline, Assign, Unassign, CancelCampaign, ExpireOnCommand,
       Prepare, Approve, Close
  <2>3. \A s \in Sessions : ses'[s].status # "ABSENT" => ses[s].status # "ABSENT"
    BY <1>5 DEF AdminNext, UpdateDeadline, Assign, Unassign, CancelCampaign, ExpireOnCommand,
       Prepare, Approve, Close, CancelOpen, rows
  <2> QED BY <2>1, <2>2, <2>3
<1>6. CASE ReadNext \/ UNCHANGED vars
  BY <1>6 DEF ReadNext, GetRead, GetExpire, GetReturn, DeadlinePasses, vars, rows
<1> QED BY <1>1, <1>2, <1>3, <1>4, <1>5, <1>6 DEF StartedReopen, Next, CountNext

\* Were only started campaigns reopened, nothing would be counted without a
\* snapshot to compare it with: the reopening of a campaign that expired
\* before its start is the only way there.
THEOREM StartedReopenSuffices == StartedSpec => []CountingNeedsSnapshot
<1>1. Init => CountingIsFrozen
  BY DEF Init, CountingIsFrozen, CountingNeedsSnapshot, Reviewed
<1>2. CountingIsFrozen => CountingNeedsSnapshot
  BY DEF CountingIsFrozen
<1> QED BY <1>1, <1>2, FrozenStep, PTL DEF StartedSpec

\* A reader writes its expiry only over the status that it has read.
CheckedExpiry == Next /\ \A g \in Readers : GetExpire(g) => get[g].status = status
CheckedSpec == Init /\ [][CheckedExpiry]_vars

\* Did readers compare, a cancelled campaign would stay cancelled: the unlocked
\* write of refresh_expiry is the only step that takes one.
THEOREM CheckedExpirySuffices == CheckedSpec => CancelledIsFinal
<1>1. [CheckedExpiry]_vars => [status = "CANCELLED" => status' = "CANCELLED"]_vars
  <2> SUFFICES ASSUME CheckedExpiry, status = "CANCELLED" PROVE status' = "CANCELLED"
    BY DEF vars
  <2>1. CASE AdminNext
    BY <2>1 DEF AdminNext, UpdateDeadline, Assign, Unassign, StartCampaign, CancelCampaign,
       Cancellable, Reopen, ExpireOnCommand, Expirable, Prepare, Approve, Close
  <2>2. CASE CountNext
    BY <2>2 DEF CountNext, StartSession, Submit, Running
  <2>3. CASE RecountNext
    BY <2>3 DEF RecountNext, RequestRecount, RequestRecountLate, CancelRecount,
       ReassignRecount, Requestable
  <2>4. CASE ReadNext
    BY <2>4 DEF ReadNext, GetRead, GetExpire, GetReturn, DeadlinePasses, CheckedExpiry, Expirable
  <2> QED BY <2>1, <2>2, <2>3, <2>4 DEF CheckedExpiry, Next
<1> QED BY <1>1, PTL DEF CheckedSpec, CancelledIsFinal
=============================================================================
