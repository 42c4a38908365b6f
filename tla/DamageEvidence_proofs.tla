------------------------ MODULE DamageEvidence_proofs ------------------------
(***************************************************************************)
(* Theorems about Access and DamageEvidence, for any number of users,      *)
(* roles, requests, damages and uploads.                                   *)
(***************************************************************************)
EXTENDS DamageEvidence, TLAPS

USE NoneAssumption, RolesAssumption, OwnerAssumption, FormatAssumption

-----------------------------------------------------------------------------
(* The inductive invariant of Access.  A request between its check and its *)
(* write holds the lock, so it is alone there, and what it was told still  *)
(* holds: somebody else is an active administrator.  Before the first      *)
(* administrator nobody has a role, so that nobody may begin a request     *)
(* whose check would be passed for want of any administrator.              *)

Deciding(q) == removal[q].pc \in {"check", "write"}

LockHeld == \A q \in Removals : Deciding(q) => adminLock = q

AnotherRemains ==
    \A q \in Removals : removal[q].pc = "write" =>
        \E v \in ActiveAdmins : v # removal[q].user

NobodyYet ==
    ActiveAdmins = {} => /\ \A u \in Users : roles[u] = {}
                         /\ \A q \in Removals : removal[q].pc = "idle"

AccessInv == AccessTypeOK /\ LockHeld /\ AnotherRemains /\ NobodyYet

\* Who may do something has a role, so there is an administrator.
LEMMA MayNeedsAdmin ==
    ASSUME AccessInv, NEW u \in Users, NEW permission, May(u, permission)
    PROVE  ActiveAdmins # {}
BY DEF AccessInv, NobodyYet, May

\* The initial states satisfy the invariant.
LEMMA AccessInitial == ASSUME AccessInit PROVE AccessInv
<1>1. [pc |-> "idle", kind |-> "revoke", user |-> None] \in Removal BY DEF Removal
<1> QED BY <1>1 DEF AccessInit, AccessInv, AccessTypeOK, LockHeld, Deciding, AnotherRemains,
              NobodyYet, ActiveAdmins

\* A step that moves no request, takes no administrator away and, while
\* there is none, gives nobody a role keeps the invariant.
LEMMA AddingKeeps ==
    ASSUME AccessInv, AccessTypeOK', UNCHANGED <<adminLock, removal>>,
           ActiveAdmins \subseteq ActiveAdmins',
           ActiveAdmins' = {} => UNCHANGED roles
    PROVE  AccessInv' /\ (ActiveAdmins # {} => ActiveAdmins' # {})
<1>1. LockHeld' BY DEF AccessInv, LockHeld, Deciding
<1>2. AnotherRemains' BY DEF AccessInv, AnotherRemains
<1>3. NobodyYet' BY DEF AccessInv, NobodyYet
<1> QED BY <1>1, <1>2, <1>3 DEF AccessInv

\* A step of a request that leaves users and roles alone and gets it no
\* further than to the lock, or to its end, keeps the invariant.
LEMMA WaitingKeeps ==
    ASSUME AccessInv, NEW q \in Removals, NEW r \in Removal,
           UNCHANGED <<known, active, roles>>,
           removal' = [removal EXCEPT ![q] = r],
           r.pc \in {"lock", "done"}, ActiveAdmins # {},
           adminLock' = adminLock \/ (adminLock = q /\ adminLock' = None)
    PROVE  AccessInv' /\ (ActiveAdmins # {} => ActiveAdmins' # {})
<1>1. AccessTypeOK' BY DEF AccessInv, AccessTypeOK
<1>2. ActiveAdmins' = ActiveAdmins BY DEF ActiveAdmins
<1>3. \A p \in Removals : removal'[p] = IF p = q THEN r ELSE removal[p]
  BY DEF AccessInv, AccessTypeOK
<1>4. LockHeld' BY <1>3 DEF AccessInv, LockHeld, Deciding
<1>5. AnotherRemains' BY <1>2, <1>3 DEF AccessInv, AnotherRemains
<1>6. NobodyYet' BY <1>2 DEF NobodyYet
<1> QED BY <1>1, <1>2, <1>4, <1>5, <1>6 DEF AccessInv

\* What takes no lock.
LEMMA UnlockedStep ==
    ASSUME AccessInv, NEW u \in Users,
           \/ SignIn(u) \/ Bootstrap(u)
           \/ \E actor \in Users :
                 \/ Activate(actor, u)
                 \/ \E r \in Roles : AssignRole(actor, u, r) \/ RevokeOther(actor, u, r)
    PROVE  AccessInv' /\ (ActiveAdmins # {} => ActiveAdmins' # {})
<1> USE DEF AccessInv, AccessTypeOK
<1>1. CASE SignIn(u)
  <2>1. AccessTypeOK' BY <1>1 DEF SignIn
  <2>2. ActiveAdmins \subseteq ActiveAdmins' BY <1>1 DEF SignIn, ActiveAdmins
  <2> QED BY <1>1, <2>1, <2>2, AddingKeeps DEF SignIn
<1>2. CASE Bootstrap(u)
  <2>1. AccessTypeOK' BY <1>2 DEF Bootstrap
  <2>2. ActiveAdmins \subseteq ActiveAdmins' /\ u \in ActiveAdmins'
    BY <1>2 DEF Bootstrap, ActiveAdmins
  <2> QED BY <1>2, <2>1, <2>2, AddingKeeps DEF Bootstrap
<1>3. ASSUME NEW actor \in Users, Activate(actor, u)
      PROVE  AccessInv' /\ (ActiveAdmins # {} => ActiveAdmins' # {})
  <2>1. AccessTypeOK' BY <1>3 DEF Activate
  <2>2. ActiveAdmins \subseteq ActiveAdmins' BY <1>3 DEF Activate, ActiveAdmins
  <2> QED BY <1>3, <2>1, <2>2, AddingKeeps DEF Activate
<1>4. ASSUME NEW actor \in Users, NEW r \in Roles, AssignRole(actor, u, r)
      PROVE  AccessInv' /\ (ActiveAdmins # {} => ActiveAdmins' # {})
  <2>1. AccessTypeOK' BY <1>4 DEF AssignRole
  <2>2. ActiveAdmins \subseteq ActiveAdmins' BY <1>4 DEF AssignRole, ActiveAdmins
  <2>3. ActiveAdmins # {} BY <1>4, MayNeedsAdmin DEF AssignRole
  <2>4. ActiveAdmins' # {} BY <2>2, <2>3
  <2> QED BY <1>4, <2>1, <2>2, <2>4, AddingKeeps DEF AssignRole
<1>5. ASSUME NEW actor \in Users, NEW r \in Roles, RevokeOther(actor, u, r)
      PROVE  AccessInv' /\ (ActiveAdmins # {} => ActiveAdmins' # {})
  <2>1. AccessTypeOK' BY <1>5 DEF RevokeOther
  <2>2. ActiveAdmins \subseteq ActiveAdmins' BY <1>5 DEF RevokeOther, ActiveAdmins
  <2>3. ActiveAdmins # {} BY <1>5, MayNeedsAdmin DEF RevokeOther
  <2>4. ActiveAdmins' # {} BY <2>2, <2>3
  <2> QED BY <1>5, <2>1, <2>2, <2>4, AddingKeeps DEF RevokeOther
<1> QED BY <1>1, <1>2, <1>3, <1>4, <1>5

\* What a request with the lock does.
LEMMA LockedStep ==
    ASSUME AccessInv, NEW q \in Removals,
           LockAdminRole(q) \/ CheckLast(q) \/ Remove(q) \/ Abandon(q)
    PROVE  AccessInv' /\ (ActiveAdmins # {} => ActiveAdmins' # {})
<1> USE DEF AccessInv
<1>1. removal[q] \in Removal BY DEF AccessTypeOK
<1>2. ActiveAdmins # {}
  BY DEF NobodyYet, LockAdminRole, CheckLast, Remove, Abandon
<1>3. ASSUME UNCHANGED <<known, active, roles>>, Goto(q, "done"), adminLock' = Unlocked(q)
      PROVE  AccessInv' /\ (ActiveAdmins # {} => ActiveAdmins' # {})
  <2> DEFINE r == [removal[q] EXCEPT !.pc = "done"]
  <2>1. r \in Removal /\ r.pc = "done" BY <1>1 DEF Removal
  <2>2. removal' = [removal EXCEPT ![q] = r] BY <1>3 DEF Goto
  <2>3. adminLock' = adminLock \/ (adminLock = q /\ adminLock' = None) BY <1>3 DEF Unlocked
  <2> HIDE DEF r
  <2> QED BY <1>2, <1>3, <2>1, <2>2, <2>3, WaitingKeeps
<1>4. CASE LockAdminRole(q)
  <2>1. AccessTypeOK' BY <1>1, <1>4 DEF LockAdminRole, Goto, AccessTypeOK, Removal
  <2>2. ActiveAdmins' = ActiveAdmins BY <1>4 DEF LockAdminRole, ActiveAdmins
  <2>3. \A p \in Removals : removal'[p].pc = IF p = q THEN "check" ELSE removal[p].pc
    BY <1>1, <1>4 DEF LockAdminRole, Goto, AccessTypeOK, Removal
  <2>4. \A p \in Removals : removal'[p].user = removal[p].user
    BY <1>1, <1>4 DEF LockAdminRole, Goto, AccessTypeOK, Removal
  <2>5. \A p \in Removals : ~Deciding(p) BY <1>4 DEF LockAdminRole, LockHeld
  <2>6. LockHeld' BY <1>4, <2>3, <2>5 DEF LockHeld, Deciding, LockAdminRole
  <2>7. AnotherRemains' BY <2>2, <2>3, <2>4 DEF AnotherRemains
  <2>8. NobodyYet' BY <1>2, <2>2 DEF NobodyYet
  <2> QED BY <2>1, <2>2, <2>6, <2>7, <2>8
<1>5. CASE CheckLast(q)
  <2>1. CASE IsLastActiveAdmin(removal[q].user) BY <1>3, <1>5, <2>1 DEF CheckLast
  <2>2. CASE ~IsLastActiveAdmin(removal[q].user)
    <3>1. AccessTypeOK' BY <1>1, <1>5, <2>2 DEF CheckLast, Goto, AccessTypeOK, Removal
    <3>2. ActiveAdmins' = ActiveAdmins BY <1>5 DEF CheckLast, ActiveAdmins
    <3>3. \A p \in Removals : removal'[p].pc = IF p = q THEN "write" ELSE removal[p].pc
      BY <1>1, <1>5, <2>2 DEF CheckLast, Goto, AccessTypeOK, Removal
    <3>4. \A p \in Removals : removal'[p].user = removal[p].user
      BY <1>1, <1>5, <2>2 DEF CheckLast, Goto, AccessTypeOK, Removal
    <3>5. LockHeld' BY <1>5, <2>2, <3>3 DEF CheckLast, LockHeld, Deciding
    <3>6. \E v \in ActiveAdmins : v # removal[q].user
      BY <1>2, <2>2 DEF IsLastActiveAdmin
    <3>7. AnotherRemains' BY <3>2, <3>3, <3>4, <3>6 DEF AnotherRemains
    <3>8. NobodyYet' BY <1>2, <3>2 DEF NobodyYet
    <3> QED BY <3>1, <3>2, <3>5, <3>7, <3>8
  <2> QED BY <2>1, <2>2
<1>6. CASE Remove(q)
  <2>1. AccessTypeOK' BY <1>1, <1>6 DEF Remove, Goto, Unlocked, AccessTypeOK, Removal
  <2>2. \A p \in Removals : removal'[p].pc = IF p = q THEN "done" ELSE removal[p].pc
    BY <1>1, <1>6 DEF Remove, Goto, AccessTypeOK, Removal
  <2>3. \A p \in Removals : p # q => ~Deciding(p)
    BY <1>6 DEF Remove, LockHeld, Deciding
  <2>4. PICK v \in ActiveAdmins : v # removal[q].user
    BY <1>6 DEF Remove, AnotherRemains
  <2>5. v \in ActiveAdmins'
    BY <1>6, <2>4 DEF Remove, ActiveAdmins, AccessTypeOK
  <2>6. LockHeld' BY <2>2, <2>3 DEF LockHeld, Deciding
  <2>7. AnotherRemains' BY <2>2, <2>3 DEF AnotherRemains, Deciding
  <2>8. NobodyYet' BY <2>5 DEF NobodyYet
  <2> QED BY <2>1, <2>5, <2>6, <2>7, <2>8
<1>7. CASE Abandon(q) BY <1>3, <1>7 DEF Abandon
<1> QED BY <1>4, <1>5, <1>6, <1>7

\* Every step of Access keeps the invariant, and an administrator.
LEMMA AccessStep ==
    ASSUME AccessInv, AccessNext
    PROVE  AccessInv' /\ (ActiveAdmins # {} => ActiveAdmins' # {})
<1>1. ASSUME NEW u \in Users, NEW actor \in Users, NEW q \in Removals,
             BeginDeactivate(q, actor, u) \/ BeginRevoke(q, actor, u)
      PROVE  AccessInv' /\ (ActiveAdmins # {} => ActiveAdmins' # {})
  <2>1. ActiveAdmins # {} BY <1>1, MayNeedsAdmin DEF BeginDeactivate, BeginRevoke
  <2>2. PICK kind \in {"deactivate", "revoke"} :
           removal' = [removal EXCEPT ![q] = [pc |-> "lock", kind |-> kind, user |-> u]]
    BY <1>1 DEF BeginDeactivate, BeginRevoke
  <2> DEFINE r == [pc |-> "lock", kind |-> kind, user |-> u]
  <2>3. r \in Removal /\ r.pc = "lock" BY DEF Removal
  <2>4. UNCHANGED <<known, active, roles, adminLock>>
    BY <1>1 DEF BeginDeactivate, BeginRevoke
  <2>5. removal' = [removal EXCEPT ![q] = r] BY <2>2
  <2> HIDE DEF r
  <2> QED BY <2>1, <2>3, <2>4, <2>5, WaitingKeeps
<1> QED BY <1>1, UnlockedStep, LockedStep DEF AccessNext

-----------------------------------------------------------------------------
(* The inductive invariant of DamageEvidence.  An upload that may commit   *)
(* or unlink is among the writers of the name it holds.  A name with a     *)
(* single writer loses its file only to that writer, which looked and is   *)
(* gone, so that nobody is left to set the row to it.                      *)

Holding(w) == upload[w].pc \in {"commit", "look", "unlink"}

HoldersWrote ==
    \A w \in Uploads :
        /\ upload[w].pc = "read" => upload[w].damage \in Damages
        /\ Holding(w) => Path(w) \in Paths /\ w \in writers[Path(w)]

NamedWasWritten ==
    \A d \in Damages : evidence[d] # None => writers[<<d, evidence[d]>>] # {}

Sole(w, d, f) == writers[<<d, f>>] = {w}

SparesRow(w, d, f) ==
    /\ files[<<d, f>>] = w \/ (upload[w].pc = "done" /\ evidence[d] # f)
    /\ upload[w].pc = "unlink" /\ upload[w].damage = d /\ upload[w].format = f =>
          evidence[d] # f

SoleWriter ==
    \A w \in Uploads, d \in Damages, f \in Formats : Sole(w, d, f) => SparesRow(w, d, f)

EvidenceInv == TypeOK /\ HoldersWrote /\ NamedWasWritten /\ SoleWriter

\* The invariant contains the property.
LEMMA EvidenceInvImplies == EvidenceInv => EvidenceKept
BY DEF EvidenceInv, TypeOK, NamedWasWritten, SoleWriter, Sole, SparesRow, EvidenceKept

\* Before the first upload.
LEMMA EvidenceInitial == ASSUME Init PROVE EvidenceInv
<1>1. AccessTypeOK BY AccessInitial DEF Init, AccessInv
<1>2. [pc |-> "idle", damage |-> None, format |-> None] \in Upload BY DEF Upload
<1>3. TypeOK BY <1>1, <1>2 DEF Init, TypeOK
<1>4. HoldersWrote BY DEF Init, HoldersWrote, Holding
<1>5. NamedWasWritten BY DEF Init, NamedWasWritten
<1>6. SoleWriter BY DEF Init, SoleWriter, Sole, Paths
<1> QED BY <1>3, <1>4, <1>5, <1>6 DEF EvidenceInv

\* A step that at most moves one upload, to its end or to look, and changes
\* neither rows nor files keeps the invariant.
LEMMA MovingKeeps ==
    ASSUME EvidenceInv, AccessTypeOK', NEW w \in Uploads,
           NEW pc \in {"done", "look", "unlink"}, Move(w, pc),
           upload[w].pc \in {"read", "commit", "look", "unlink"},
           pc \in {"look", "unlink"} => Holding(w),
           pc = "unlink" => ~IsReferenced(w),
           UNCHANGED <<evidence, files, writers>>, counting' \in SUBSET Damages
    PROVE  EvidenceInv'
<1> USE DEF EvidenceInv
<1>1. upload[w] \in Upload BY DEF TypeOK
<1>2. TypeOK' BY <1>1 DEF TypeOK, Move, Upload
<1>3. \A v \in Uploads : /\ upload'[v].pc = IF v = w THEN pc ELSE upload[v].pc
                         /\ upload'[v].damage = upload[v].damage
                         /\ upload'[v].format = upload[v].format
  BY <1>1 DEF TypeOK, Move, Upload
<1>4. HoldersWrote' BY <1>3 DEF HoldersWrote, Holding, Path
<1>5. NamedWasWritten' BY DEF NamedWasWritten
<1>6. SoleWriter'
  <2> SUFFICES ASSUME NEW v \in Uploads, NEW d \in Damages, NEW f \in Formats, Sole(v, d, f)
               PROVE  SparesRow(v, d, f)'
    BY DEF SoleWriter, Sole
  <2>0. SparesRow(v, d, f) BY DEF SoleWriter
  <2>1. CASE v # w BY <1>3, <2>0, <2>1 DEF SparesRow
  <2>2. CASE v = w
    <3>1. files[<<d, f>>] = w BY <2>0, <2>2 DEF SparesRow
    <3>2. pc = "unlink" /\ upload[w].damage = d /\ upload[w].format = f => evidence[d] # f
      BY DEF IsReferenced
    <3> QED BY <1>3, <2>2, <3>1, <3>2 DEF SparesRow
  <2> QED BY <2>1, <2>2
<1> QED BY <1>2, <1>4, <1>5, <1>6

\* Every step of DamageEvidence keeps the invariant.
LEMMA EvidenceStep == ASSUME EvidenceInv, EvidenceNext PROVE EvidenceInv'
<1> USE DEF EvidenceInv
<1>0. AccessTypeOK'
  <2>1. UNCHANGED accessVars
    BY DEF EvidenceNext, Submit, BeginUpload, Refuse, WriteFile, CommitEvidence, CommitFails,
           LookBeforeUnlink, Unlink, Die
  <2> QED BY <2>1 DEF TypeOK, AccessTypeOK, accessVars
<1>1. ASSUME NEW d \in Damages, Submit(d) PROVE EvidenceInv'
  <2>1. TypeOK' BY <1>0, <1>1 DEF TypeOK, Submit
  <2> QED BY <1>1, <2>1 DEF Submit, HoldersWrote, Holding, Path, NamedWasWritten, SoleWriter, Sole, SparesRow
<1>2. ASSUME NEW d \in Damages, NEW w \in Uploads, NEW u \in Users, BeginUpload(w, u, d)
      PROVE  EvidenceInv'
  <2>1. [pc |-> "read", damage |-> d, format |-> None] \in Upload BY DEF Upload
  <2>2. TypeOK' BY <1>0, <1>2, <2>1 DEF TypeOK, BeginUpload
  <2>3. \A v \in Uploads :
           upload'[v] = IF v = w THEN [pc |-> "read", damage |-> d, format |-> None] ELSE upload[v]
    BY <1>2 DEF TypeOK, BeginUpload
  <2>4. UNCHANGED <<evidence, files, writers>> /\ upload[w].pc = "idle"
    BY <1>2 DEF BeginUpload, At
  <2>5. HoldersWrote' BY <2>3, <2>4 DEF HoldersWrote, Holding, Path
  <2>6. NamedWasWritten' BY <2>4 DEF NamedWasWritten
  <2>7. SoleWriter'
    <3> SUFFICES ASSUME NEW v \in Uploads, NEW e \in Damages, NEW f \in Formats, Sole(v, e, f)
                 PROVE  SparesRow(v, e, f)'
      BY <2>4 DEF SoleWriter, Sole
    <3>1. SparesRow(v, e, f) BY DEF SoleWriter
    <3> QED BY <2>3, <2>4, <3>1 DEF SparesRow
  <2> QED BY <2>2, <2>5, <2>6, <2>7
<1>3. ASSUME NEW w \in Uploads,
             Refuse(w) \/ CommitFails(w) \/ LookBeforeUnlink(w) \/ Die(w)
      PROVE  EvidenceInv'
  <2>1. PICK pc \in {"done", "look", "unlink"} :
           /\ Move(w, pc)
           /\ pc \in {"look", "unlink"} => Holding(w)
           /\ pc = "unlink" => ~IsReferenced(w)
    BY <1>3 DEF Refuse, CommitFails, LookBeforeUnlink, Die, Holding, At
  <2>2. upload[w].pc \in {"read", "commit", "look", "unlink"}
    BY <1>3 DEF Refuse, CommitFails, LookBeforeUnlink, Die, At
  <2>3. UNCHANGED <<counting, evidence, files, writers>>
    BY <1>3 DEF Refuse, CommitFails, LookBeforeUnlink, Die
  <2>4. counting' \in SUBSET Damages BY <2>3 DEF TypeOK
  <2> QED BY <1>0, <2>1, <2>2, <2>3, <2>4, MovingKeeps
<1>4. ASSUME NEW w \in Uploads, NEW format \in Formats, WriteFile(w, format)
      PROVE  EvidenceInv'
  <2> DEFINE p == <<upload[w].damage, format>>
  <2>1. upload[w] \in Upload /\ upload[w].pc = "read" BY <1>4 DEF TypeOK, WriteFile, At
  <2>2. TypeOK' BY <1>0, <1>4, <2>1 DEF TypeOK, WriteFile, Upload, Paths
  <2>3. \A v \in Uploads :
           /\ v = w => /\ upload'[v].pc = "commit" /\ upload'[v].format = format
                       /\ upload'[v].damage = upload[v].damage
           /\ v # w => upload'[v] = upload[v]
    BY <1>4, <2>1 DEF TypeOK, WriteFile, Upload
  <2>4. \A x \in Paths : /\ writers'[x] = IF x = p THEN writers[x] \cup {w} ELSE writers[x]
                         /\ files'[x] = IF x = p THEN w ELSE files[x]
    BY <1>4 DEF TypeOK, WriteFile
  <2>5. evidence' = evidence BY <1>4 DEF WriteFile
  <2> HIDE DEF p
  <2>6. HoldersWrote'
    <3> USE DEF HoldersWrote
    <3>1. p \in Paths BY <2>1 DEF p, Paths
    <3>2. TAKE v \in Uploads
    <3>3. CASE v = w
      <4>1. Path(v)' = p BY <2>3, <3>3 DEF Path, p
      <4>2. w \in writers'[p] BY <2>4, <3>1
      <4> QED BY <2>3, <3>1, <3>3, <4>1, <4>2
    <3>4. CASE v # w
      <4>1. Path(v)' = Path(v) BY <2>3, <3>4 DEF Path
      <4>2. Path(v) \in Paths /\ v \in writers[Path(v)] => v \in writers'[Path(v)] BY <2>4
      <4> QED BY <2>3, <3>4, <4>1, <4>2 DEF Holding
    <3> QED BY <3>3, <3>4
  <2>7. NamedWasWritten' BY <2>4, <2>5 DEF NamedWasWritten, TypeOK, Paths
  <2>8. SoleWriter'
    <3> SUFFICES ASSUME NEW v \in Uploads, NEW d \in Damages, NEW f \in Formats, Sole(v, d, f)'
                 PROVE  SparesRow(v, d, f)'
      BY DEF SoleWriter
    <3>1. <<d, f>> \in Paths BY DEF Paths
    <3>2. CASE <<d, f>> = p
      <4>1. v = w BY <2>4, <3>1, <3>2 DEF Sole
      <4> QED BY <2>3, <2>4, <3>1, <3>2, <4>1 DEF SparesRow
    <3>3. CASE <<d, f>> # p
      <4>1. Sole(v, d, f) /\ files'[<<d, f>>] = files[<<d, f>>] BY <2>4, <3>1, <3>3 DEF Sole
      <4>2. SparesRow(v, d, f) BY <4>1 DEF SoleWriter
      <4> QED BY <2>1, <2>3, <2>5, <4>1, <4>2 DEF SparesRow
    <3> QED BY <3>2, <3>3
  <2> QED BY <2>2, <2>6, <2>7, <2>8
<1>5. ASSUME NEW w \in Uploads, NEW answered \in BOOLEAN, CommitEvidence(w, answered)
      PROVE  EvidenceInv'
  <2>1. upload[w] \in Upload /\ Holding(w) /\ upload[w].pc = "commit"
    BY <1>5 DEF TypeOK, CommitEvidence, At, Holding
  <2>2. Path(w) \in Paths /\ w \in writers[Path(w)] BY <2>1 DEF HoldersWrote
  <2>3. upload[w].damage \in Damages /\ upload[w].format \in Formats BY <2>2 DEF Path, Paths
  <2>4. TypeOK'
    BY <1>0, <1>5, <2>1, <2>3 DEF TypeOK, CommitEvidence, Move, Upload
  <2>5. \A v \in Uploads : /\ upload'[v].pc \in (IF v = w THEN {"done", "look"} ELSE {upload[v].pc})
                           /\ upload'[v].damage = upload[v].damage
                           /\ upload'[v].format = upload[v].format
    BY <1>5, <2>1 DEF TypeOK, CommitEvidence, Move, Upload
  <2>6. \A d \in Damages :
           evidence'[d] = IF d = upload[w].damage THEN upload[w].format ELSE evidence[d]
    BY <1>5 DEF TypeOK, CommitEvidence
  <2>7. UNCHANGED <<files, writers>> BY <1>5 DEF CommitEvidence
  <2>8. HoldersWrote' BY <2>1, <2>5, <2>7 DEF HoldersWrote, Holding, Path
  <2>9. NamedWasWritten' BY <2>2, <2>6, <2>7 DEF NamedWasWritten, Path
  <2>10. SoleWriter'
    <3> SUFFICES ASSUME NEW v \in Uploads, NEW d \in Damages, NEW f \in Formats, Sole(v, d, f)
                 PROVE  SparesRow(v, d, f)'
      BY <2>7 DEF SoleWriter, Sole
    <3>0. SparesRow(v, d, f) BY DEF SoleWriter
    <3>1. CASE v = w
      <4>1. files[<<d, f>>] = v BY <2>1, <3>0, <3>1 DEF SparesRow
      <4> QED BY <2>5, <2>7, <3>1, <4>1 DEF SparesRow
    <3>2. CASE v # w
      <4>1. evidence'[d] = f => evidence[d] = f
        BY <2>2, <2>3, <2>6, <3>2 DEF Path, Sole
      <4> QED BY <2>5, <2>7, <3>0, <3>2, <4>1 DEF SparesRow
    <3> QED BY <3>1, <3>2
  <2> QED BY <2>4, <2>8, <2>9, <2>10
<1>6. ASSUME NEW w \in Uploads, Unlink(w) PROVE EvidenceInv'
  <2>1. upload[w] \in Upload /\ Holding(w) /\ upload[w].pc = "unlink"
    BY <1>6 DEF TypeOK, Unlink, At, Holding
  <2>2. Path(w) \in Paths /\ w \in writers[Path(w)] BY <2>1 DEF HoldersWrote
  <2>3. TypeOK' BY <1>0, <1>6, <2>1 DEF TypeOK, Unlink, Move, Upload
  <2>4. \A v \in Uploads : /\ upload'[v].pc = IF v = w THEN "done" ELSE upload[v].pc
                           /\ upload'[v].damage = upload[v].damage
                           /\ upload'[v].format = upload[v].format
    BY <1>6, <2>1 DEF TypeOK, Unlink, Move, Upload
  <2>5. \A x \in Paths : files'[x] = IF x = Path(w) THEN None ELSE files[x]
    BY <1>6 DEF TypeOK, Unlink
  <2>6. UNCHANGED <<evidence, writers>> BY <1>6 DEF Unlink
  <2>7. HoldersWrote' BY <2>4, <2>6 DEF HoldersWrote, Holding, Path
  <2>8. NamedWasWritten' BY <2>6 DEF NamedWasWritten
  <2>9. SoleWriter'
    <3> SUFFICES ASSUME NEW v \in Uploads, NEW d \in Damages, NEW f \in Formats, Sole(v, d, f)
                 PROVE  SparesRow(v, d, f)'
      BY <2>6 DEF SoleWriter, Sole
    <3>0. SparesRow(v, d, f) BY DEF SoleWriter
    <3>1. <<d, f>> \in Paths BY DEF Paths
    <3>2. CASE <<d, f>> = Path(w)
      <4>1. v = w BY <2>2, <3>2 DEF Sole
      <4>2. evidence[d] # f BY <2>1, <3>0, <3>2, <4>1 DEF SparesRow, Path
      <4> QED BY <2>4, <2>6, <4>1, <4>2 DEF SparesRow
    <3>3. CASE <<d, f>> # Path(w)
      <4>1. files'[<<d, f>>] = files[<<d, f>>] BY <2>5, <3>1, <3>3
      <4> QED BY <2>1, <2>4, <2>6, <3>0, <4>1 DEF SparesRow
    <3> QED BY <3>2, <3>3
  <2> QED BY <2>3, <2>7, <2>8, <2>9
<1> QED BY <1>1, <1>2, <1>3, <1>4, <1>5, <1>6 DEF EvidenceNext

-----------------------------------------------------------------------------
(* The theorems.                                                           *)

\* The invariant of both modules, of the whole specification.
LEMMA Inductive == Spec => [](AccessInv /\ EvidenceInv)
<1>1. Init => AccessInv /\ EvidenceInv BY AccessInitial, EvidenceInitial DEF Init
<1>2. AccessInv /\ EvidenceInv /\ [Next]_vars => AccessInv' /\ EvidenceInv'
  <2> SUFFICES ASSUME AccessInv, EvidenceInv, [Next]_vars PROVE AccessInv' /\ EvidenceInv'
    OBVIOUS
  <2>1. ASSUME UNCHANGED evidenceVars, AccessInv' PROVE EvidenceInv'
    BY <2>1 DEF evidenceVars, EvidenceInv, AccessInv, TypeOK, HoldersWrote, Holding, Path,
                NamedWasWritten, SoleWriter, Sole, SparesRow
  <2>2. ASSUME UNCHANGED accessVars PROVE AccessInv'
    BY <2>2 DEF accessVars, AccessInv, AccessTypeOK, LockHeld, Deciding, AnotherRemains,
                ActiveAdmins, NobodyYet
  <2>3. CASE AccessNext /\ UNCHANGED evidenceVars BY <2>1, <2>3, AccessStep
  <2>4. CASE EvidenceNext
    <3>1. UNCHANGED accessVars
      BY <2>4 DEF EvidenceNext, Submit, BeginUpload, Refuse, WriteFile, CommitEvidence,
                  CommitFails, LookBeforeUnlink, Unlink, Die
    <3> QED BY <2>2, <2>4, <3>1, EvidenceStep
  <2>5. CASE UNCHANGED vars BY <2>1, <2>2, <2>5 DEF vars
  <2> QED BY <2>3, <2>4, <2>5 DEF Next
<1> QED BY <1>1, <1>2, PTL DEF Spec

\* Users, requests, rows, files and uploads stay of their types.
THEOREM TypeCorrect == Spec => []TypeOK
<1>1. EvidenceInv => TypeOK BY DEF EvidenceInv
<1> QED BY <1>1, Inductive, PTL

\* Whatever deactivations and revocations overlap, with whichever
\* permissions, an administrator is left: is_last_active_admin is asked
\* under the row lock of the role, which is kept up to the commit.
THEOREM AnAdminRemains == Spec => AdminRemains
<1>1. AccessInv /\ [Next]_vars => [ActiveAdmins # {} => ActiveAdmins' # {}]_accessVars
  <2> SUFFICES ASSUME AccessInv, [Next]_vars, accessVars' # accessVars
               PROVE  ActiveAdmins # {} => ActiveAdmins' # {}
    OBVIOUS
  <2>1. AccessNext
    BY DEF Next, vars, EvidenceNext, Submit, BeginUpload, Refuse, WriteFile, CommitEvidence,
           CommitFails, LookBeforeUnlink, Unlink, Die
  <2> QED BY <2>1, AccessStep
<1> QED BY <1>1, Inductive, PTL DEF Spec, AdminRemains

\* Evidence written by one upload only is where the row says, whether its
\* commit was answered or not and whatever uploads of other names do.
THEOREM EvidenceIsKept == Spec => []EvidenceKept
BY Inductive, EvidenceInvImplies, PTL
=============================================================================
