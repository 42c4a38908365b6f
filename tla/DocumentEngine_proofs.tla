------------------------ MODULE DocumentEngine_proofs ------------------------
(***************************************************************************)
(* Theorems about DocumentEngine, for any number of requests, campaigns,   *)
(* types, prefixes, numbers, images and approvals.                         *)
(***************************************************************************)
EXTENDS DocumentEngine, TLAPS

-----------------------------------------------------------------------------
(* The inductive invariant.                                                *)

Generating == {"profile", "materialize", "find", "allocate", "render", "record", "insert",
               "commit"}
Cleaning == {"check", "unlink"}
Numbered == {"render", "record", "insert", "commit", "check", "unlink"}
WithLogo == {"logo", "logo_check", "logo_unlink"}
InSettings == {"render", "record", "insert", "commit", "logo"}

\* What a request is about is known from where it is.
Subjects ==
    \A q \in Requests :
        /\ tx[q].pc \in Generating \cup Cleaning =>
              tx[q].campaign \in Campaigns /\ tx[q].type \in Types /\ tx[q].read.name \in Names
        /\ tx[q].pc \in Numbered => tx[q].read.next <= MaxNumber
        /\ tx[q].pc \notin Generating \cup Cleaning => tx[q].campaign = None
        /\ tx[q].pc \in WithLogo => tx[q].image \in Images

\* So are the locks; a generation that lost its campaign may not hold it, and
\* the campaign of another is still approved.
SettingsHeld == \A q \in Requests : tx[q].pc \in InSettings <=> settingsLock = q

CampaignHeld ==
    /\ \A c \in Campaigns, q \in Requests :
          campaignLock[c] = q => tx[q].campaign = c /\ tx[q].pc \in Generating
    /\ \A q \in Requests : tx[q].pc \in Generating /\ ~tx[q].lost =>
          /\ campaignLock[tx[q].campaign] = q
          /\ campaign[tx[q].campaign].status = "APPROVED"

\* Rows change under the lock of the settings row only, so what Insert saw is
\* still so at the commit.
UniqueNumbers == \A r, s \in rows : r.content.number = s.content.number => r = s

Prepared ==
    \A q \in Requests : tx[q].pc = "commit" =>
        tx[q].previous = Previous(q) /\ ~Taken(Number(q))

\* Who committed a row is at its cleanup at most; who has written a file and
\* shares its number with nobody finds the file as it was written.
RowOfRequest ==
    \A r \in rows : r.status # "FAILED" =>
        /\ r.content.by \in handed[r.content.number]
        /\ \/ tx[r.content.by].pc = "done"
           \/ tx[r.content.by].pc = "check" /\ r.content = Rendered(r.content.by)

HoldsNumber == \A q \in Requests : tx[q].pc \in Numbered => q \in handed[Number(q)]

FileWritten ==
    \A q \in Requests : tx[q].pc \in {"insert", "commit"} /\ handed[Number(q)] = {q} =>
        files[Path(Rendered(q))] = Rendered(q)

\* The same for logos.
HoldsImage ==
    /\ \A q \in Requests : tx[q].pc \in WithLogo => q \in handed[tx[q].image]
    /\ \A image \in Images : settings.logo = image => handed[image] # {}

LogoWritten ==
    \A q \in Requests : tx[q].pc \in WithLogo /\ handed[tx[q].image] = {q} =>
        /\ tx[q].pc = "logo" => tx[q].image \in logos
        /\ tx[q].pc = "logo_unlink" => settings.logo # tx[q].image

LockInv == Subjects /\ SettingsHeld /\ CampaignHeld
RowInv  == UniqueNumbers /\ Prepared /\ OneOfficial /\ ClosedIsDocumented
FileInv == RowOfRequest /\ HoldsNumber /\ FileWritten /\ SoleHolderKeepsFile
LogoInv == HoldsImage /\ LogoWritten /\ LogoIsThere

USE NoneAssumption, ErpAssumption, PrefixAssumption, BoundAssumption

-----------------------------------------------------------------------------
(* What the steps do to the requests.                                      *)

\* A step of q keeps what q knows, its place apart.
Same(q) ==
    /\ tx'[q].campaign = tx[q].campaign /\ tx'[q].type = tx[q].type
    /\ tx'[q].version = tx[q].version /\ tx'[q].read = tx[q].read
    /\ tx'[q].drawn = tx[q].drawn /\ tx'[q].image = tx[q].image
    /\ tx'[q].lost = tx[q].lost /\ tx'[q].previous = tx[q].previous

Others(q) == \A p \in Requests : p # q => tx'[p] = tx[p]

\* A request that knows nothing is a request.
LEMMA BlankRow == ASSUME NEW pc \in {"idle", "done"} PROVE Blank(pc) \in Transaction
<1>1. (CHOOSE p \in Prefixes : TRUE) \in Prefixes OBVIOUS
<1>2. [name |-> None, logo |-> None, next |-> 1, prefix |-> CHOOSE p \in Prefixes : TRUE]
        \in Settings
  BY <1>1 DEF Settings
<1> QED BY <1>2 DEF Blank, Transaction

\* Going somewhere.
LEMMA GotoRow ==
    ASSUME TypeOK, NEW q \in Requests, NEW pc \in Running \cup {"done"}, Goto(q, pc)
    PROVE  /\ tx' \in [Requests -> Transaction]
           /\ Others(q)
           /\ tx'[q].pc = pc
           /\ pc # "done" => Same(q)
           /\ pc = "done" => tx'[q] = Blank("done")
<1>1. tx[q] \in Transaction BY DEF TypeOK
<1>2. CASE pc = "done"
  <2>1. tx' = [tx EXCEPT ![q] = Blank("done")] BY <1>2 DEF Goto
  <2>2. Blank("done") \in Transaction /\ Blank("done").pc = "done" BY BlankRow DEF Blank
  <2> QED BY <1>2, <2>1, <2>2 DEF TypeOK, Others
<1>3. CASE pc # "done"
  <2>1. tx' = [tx EXCEPT ![q] = [@ EXCEPT !.pc = pc]] BY <1>3 DEF Goto
  <2>2. [tx[q] EXCEPT !.pc = pc] \in Transaction BY <1>1 DEF Transaction
  <2> QED BY <1>1, <1>3, <2>1, <2>2 DEF TypeOK, Others, Same, Transaction
<1> QED BY <1>2, <1>3

\* Opening a generation.
LEMMA OpenRow ==
    ASSUME TypeOK, NEW q \in Requests, NEW c \in Campaigns, NEW t \in Types, Open(q, c, t)
    PROVE  /\ tx' \in [Requests -> Transaction]
           /\ Others(q)
           /\ tx'[q].pc \in {"profile", "find"}
           /\ tx'[q].campaign = c /\ tx'[q].type = t /\ tx'[q].read = settings
<1>1. tx[q] \in Transaction BY DEF TypeOK
<1> DEFINE pc == IF t \in ErpTypes THEN "profile" ELSE "find"
           drawn == settings.logo \in logos
           row == [tx[q] EXCEPT !.pc = pc, !.campaign = c, !.type = t,
                                !.version = campaign[c].version, !.read = settings,
                                !.drawn = drawn]
<1>2. tx' = [tx EXCEPT ![q] = row] BY DEF Open
<1>3. row \in Transaction
  <2>1. drawn \in BOOLEAN OBVIOUS
  <2>2. campaign[c].version \in 0..MaxVersion /\ settings \in Settings BY DEF TypeOK
  <2> HIDE DEF drawn
  <2> QED BY <1>1, <2>1, <2>2 DEF Transaction, Running
<1>4. row.pc \in {"profile", "find"} /\ row.campaign = c /\ row.type = t /\ row.read = settings
  BY <1>1 DEF Transaction
<1> HIDE DEF row
<1> QED BY <1>2, <1>3, <1>4 DEF TypeOK, Others

\* Committing the profile, and with it the lock of the campaign.
LEMMA MaterializeRow ==
    ASSUME TypeOK, NEW q \in Requests, MaterializeProfile(q)
    PROVE  /\ tx' \in [Requests -> Transaction]
           /\ Others(q)
           /\ tx'[q].pc = "find" /\ tx'[q].lost
           /\ tx'[q].campaign = tx[q].campaign /\ tx'[q].type = tx[q].type
           /\ tx'[q].read = tx[q].read
<1>1. tx[q] \in Transaction BY DEF TypeOK
<1> DEFINE row == [tx[q] EXCEPT !.pc = "find", !.lost = TRUE]
<1>2. tx' = [tx EXCEPT ![q] = row] BY DEF MaterializeProfile
<1>3. row \in Transaction BY <1>1 DEF Transaction, Running
<1>4. row.pc = "find" /\ row.lost /\ row.campaign = tx[q].campaign /\ row.type = tx[q].type
        /\ row.read = tx[q].read
  BY <1>1 DEF Transaction
<1> HIDE DEF row
<1> QED BY <1>2, <1>3, <1>4 DEF TypeOK, Others

\* Inserting a document.
LEMMA InsertRow ==
    ASSUME TypeOK, NEW q \in Requests, Insert(q)
    PROVE  /\ tx' \in [Requests -> Transaction]
           /\ Others(q)
           /\ tx'[q].pc = "commit" /\ tx'[q].previous = Previous(q)
           /\ tx'[q].campaign = tx[q].campaign /\ tx'[q].type = tx[q].type
           /\ tx'[q].read = tx[q].read /\ tx'[q].lost = tx[q].lost
           /\ Rendered(q)' = Rendered(q) /\ Number(q)' = Number(q)
<1>1. tx[q] \in Transaction BY DEF TypeOK
<1> DEFINE row == [tx[q] EXCEPT !.pc = "commit", !.previous = Previous(q)]
<1>2. tx' = [tx EXCEPT ![q] = row] BY DEF Insert
<1>3. Previous(q) \in SUBSET Row BY DEF Previous, Official, TypeOK
<1>4. row \in Transaction BY <1>1, <1>3 DEF Transaction, Running
<1>5. /\ row.pc = "commit" /\ row.previous = Previous(q) /\ row.campaign = tx[q].campaign
      /\ row.type = tx[q].type /\ row.read = tx[q].read /\ row.lost = tx[q].lost
      /\ row.version = tx[q].version /\ row.drawn = tx[q].drawn
  BY <1>1 DEF Transaction
<1> HIDE DEF row
<1>6. tx'[q] = row /\ tx' \in [Requests -> Transaction] /\ Others(q)
  BY <1>2, <1>4 DEF TypeOK, Others
<1> QED BY <1>5, <1>6 DEF Rendered, Number

\* Writing a logo.
LEMMA WriteLogoRow ==
    ASSUME TypeOK, NEW q \in Requests, NEW image \in Images, WriteLogo(q, image)
    PROVE  /\ tx' \in [Requests -> Transaction]
           /\ Others(q)
           /\ tx'[q].pc = "logo" /\ tx'[q].image = image
           /\ tx'[q].campaign = tx[q].campaign
<1>1. tx[q] \in Transaction BY DEF TypeOK
<1> DEFINE existed == image \in logos
           row == [tx[q] EXCEPT !.pc = "logo", !.image = image,
                                !.existed = existed, !.read = settings]
<1>2. tx' = [tx EXCEPT ![q] = row] BY DEF WriteLogo
<1>3. row \in Transaction
  <2>1. existed \in BOOLEAN OBVIOUS
  <2>2. settings \in Settings BY DEF TypeOK
  <2> HIDE DEF existed
  <2> QED BY <1>1, <2>1, <2>2 DEF Transaction, Running
<1>4. row.pc = "logo" /\ row.image = image /\ row.campaign = tx[q].campaign
  BY <1>1 DEF Transaction
<1> HIDE DEF row
<1> QED BY <1>2, <1>3, <1>4 DEF TypeOK, Others

\* Releasing takes locks from q, and from nobody else.
LEMMA Releasing ==
    ASSUME TypeOK, NEW q \in Requests, Release(q)
    PROVE  /\ campaignLock' \in [Campaigns -> Requests \cup {None}]
           /\ settingsLock' \in Requests \cup {None}
           /\ \A c \in Campaigns, p \in Requests : campaignLock'[c] = p <=>
                 campaignLock[c] = p /\ p # q
           /\ \A p \in Requests : settingsLock' = p <=> settingsLock = p /\ p # q
BY DEF Release, TypeOK

-----------------------------------------------------------------------------
(* Type correctness.                                                       *)

\* What a request renders, once it has a number, is a document, and the
\* counter it writes is one.
LEMMA RenderedType ==
    ASSUME TypeOK, Subjects, NEW q \in Requests, tx[q].pc \in Numbered
    PROVE  /\ Number(q) \in Numbers
           /\ Rendered(q) \in Content
           /\ Rendered(q).number = Number(q) /\ Rendered(q).by = q
           /\ Rendered(q).campaign = tx[q].campaign /\ Rendered(q).type = tx[q].type
           /\ Path(Rendered(q)) \in Paths
           /\ CounterWritten(q) \in Settings /\ CounterWritten(q).logo = settings.logo
<1>1. tx[q] \in Transaction /\ tx[q].read \in Settings BY DEF TypeOK, Transaction
<1>2. tx[q].campaign \in Campaigns /\ tx[q].type \in Types /\ tx[q].read.name \in Names
        /\ tx[q].read.next <= MaxNumber
  BY DEF Subjects, Numbered, Generating, Cleaning
<1>3. tx[q].read.next \in 1..MaxNumber BY <1>1, <1>2 DEF Settings
<1>4. Number(q) \in Numbers BY <1>1, <1>3 DEF Number, Numbers, Settings
<1>5. Rendered(q) \in Content
  BY <1>1, <1>2, <1>4 DEF Rendered, Content, Transaction, Settings
<1>6. /\ Rendered(q).number = Number(q) /\ Rendered(q).by = q
      /\ Rendered(q).campaign = tx[q].campaign /\ Rendered(q).type = tx[q].type
  BY DEF Rendered
<1>7. Path(Rendered(q)) \in Paths BY <1>2, <1>4, <1>6 DEF Path, Paths, Extensions
<1>8. tx[q].read.next + 1 \in 1..(MaxNumber + 1) BY <1>3
<1>9. CounterWritten(q) \in Settings /\ CounterWritten(q).logo = settings.logo
  BY <1>8 DEF CounterWritten, TypeOK, Settings
<1> QED BY <1>4, <1>5, <1>6, <1>7, <1>9

\* The victim of a deadlock goes where a lost connection or a crash leads it.
LEMMA VictimAborts ==
    ASSUME NEW q \in Requests, Victim(q) PROVE GenerationStep(q) \/ Crash(q)
<1>1. PICK p \in Requests : Waits(q, p) BY DEF Victim, Deadlocked
<1>2. tx[q].pc \in {"allocate", "insert", "record"} BY <1>1 DEF Waits, Inserting, At
<1>3. CASE tx[q].pc = "insert"
  BY <1>3 DEF Victim, GenerationStep, Rollback, At
<1>4. CASE tx[q].pc # "insert"
  BY <1>2, <1>4 DEF Victim, Crash, At, Running
<1> QED BY <1>3, <1>4

\* The initial states are well typed.
LEMMA InitType == ASSUME Init PROVE TypeOK
<1>1. Blank("idle") \in Transaction BY BlankRow
<1>2. tx \in [Requests -> Transaction] BY <1>1 DEF Init
<1>3. campaign \in [Campaigns -> [status: {"APPROVED", "CLOSED"}, version: 0..MaxVersion]]
  BY DEF Init
<1> QED BY <1>2, <1>3 DEF Init, TypeOK

\* So is what a generation leaves, ...
LEMMA GenerationType ==
    ASSUME TypeOK, Subjects, NEW q \in Requests, GenerationStep(q) PROVE TypeOK'
<1> DEFINE Ends == {"profile", "materialize", "find", "allocate", "render", "record",
                    "insert", "commit", "check", "unlink", "done"}
<1>1. Ends \subseteq Running \cup {"done"} BY DEF Running
<1>2. CASE ReadProfile(q) \/ FindNone(q) \/ RenderRaises(q) \/ LookBeforeRemoving(q)
  <2>1. PICK pc \in Running \cup {"done"} : Goto(q, pc)
    BY <1>1, <1>2 DEF ReadProfile, FindNone, RenderRaises, LookBeforeRemoving, Running
  <2>2. tx' \in [Requests -> Transaction] BY <2>1, GotoRow
  <2> QED BY <1>2, <2>2
          DEF ReadProfile, FindNone, RenderRaises, LookBeforeRemoving, TypeOK, database, locks
<1>3. CASE MaterializeProfile(q)
  BY <1>3, MaterializeRow, Releasing DEF MaterializeProfile, TypeOK
<1>4. CASE MaterializeConflict(q) \/ ReuseExisting(q) \/ Rollback(q)
  <2>1. PICK pc \in Running \cup {"done"} : Goto(q, pc)
    BY <1>1, <1>4 DEF MaterializeConflict, ReuseExisting, Rollback, Running
  <2>2. tx' \in [Requests -> Transaction] BY <2>1, GotoRow
  <2> QED BY <1>4, <2>2, Releasing
          DEF MaterializeConflict, ReuseExisting, Rollback, TypeOK, database
<1>5. CASE Allocate(q)
  <2>1. tx' \in [Requests -> Transaction] BY <1>5, GotoRow DEF Allocate, Running
  <2>2. handed' \in [Numbers \cup Images -> SUBSET Requests] BY <1>5 DEF Allocate, TypeOK
  <2> QED BY <1>5, <2>1, <2>2 DEF Allocate, TypeOK, database
<1>6. CASE RenderAndWrite(q)
  <2>1. tx' \in [Requests -> Transaction] BY <1>6, GotoRow DEF RenderAndWrite, Running
  <2>2. Rendered(q) \in Content BY <1>6, RenderedType DEF RenderAndWrite, At, Numbered
  <2>3. files' \in [Paths -> Content \cup {None}] BY <1>6, <2>2 DEF RenderAndWrite, TypeOK
  <2> QED BY <1>6, <2>1, <2>3 DEF RenderAndWrite, TypeOK, database, locks
<1>7. CASE RecordFailure(q)
  <2>1. tx' \in [Requests -> Transaction] BY <1>7, GotoRow DEF RecordFailure
  <2>2. Rendered(q) \in Content /\ CounterWritten(q) \in Settings
    BY <1>7, RenderedType DEF RecordFailure, At, Numbered
  <2>3. [content |-> Rendered(q), status |-> "FAILED"] \in Row BY <2>2 DEF Row
  <2>4. rows' \in SUBSET Row /\ settings' \in Settings
    BY <1>7, <2>2, <2>3 DEF RecordFailure, TypeOK
  <2> QED BY <1>7, <2>1, <2>4, Releasing DEF RecordFailure, TypeOK
<1>8. CASE Insert(q)
  <2>1. tx' \in [Requests -> Transaction] BY <1>8, InsertRow
  <2>2. campaignLock' \in [Campaigns -> Requests \cup {None}] BY <1>8 DEF Insert, TypeOK
  <2> QED BY <1>8, <2>1, <2>2 DEF Insert, TypeOK, database
<1>9. ASSUME NEW answered \in BOOLEAN, Commit(q, answered) PROVE TypeOK'
  <2>1. PICK pc \in Running \cup {"done"} : Goto(q, pc) BY <1>9 DEF Commit, Running
  <2>2. tx' \in [Requests -> Transaction] BY <2>1, GotoRow
  <2>3. Rendered(q) \in Content /\ CounterWritten(q) \in Settings
    BY <1>9, RenderedType DEF Commit, At, Numbered
  <2>4. [content |-> Rendered(q), status |-> "GENERATED"] \in Row BY <2>3 DEF Row
  <2>5. tx[q].previous \in SUBSET Row BY DEF TypeOK, Transaction
  <2>6. \A r \in tx[q].previous : Superseded(r) \in Row BY <2>5 DEF Superseded, Row
  <2>7. rows' \in SUBSET Row BY <1>9, <2>4, <2>6 DEF Commit, TypeOK
  <2> QED BY <1>9, <2>2, <2>3, <2>7, Releasing DEF Commit, TypeOK
<1>10. CASE RemoveFile(q)
  <2>1. tx' \in [Requests -> Transaction] BY <1>10, GotoRow DEF RemoveFile
  <2>2. files' \in [Paths -> Content \cup {None}] BY <1>10 DEF RemoveFile, TypeOK
  <2> QED BY <1>10, <2>1, <2>2 DEF RemoveFile, TypeOK, database, locks
<1> QED BY <1>2, <1>3, <1>4, <1>5, <1>6, <1>7, <1>8, <1>9, <1>10 DEF GenerationStep

\* ... and an upload of a logo, ...
LEMMA LogoType ==
    ASSUME TypeOK, Subjects, NEW q \in Requests, LogoStep(q) PROVE TypeOK'
<1>1. PICK pc \in Running \cup {"done"} : Goto(q, pc)
  BY DEF LogoStep, CommitLogo, RollbackLogo, LookBeforeRemovingLogo, RemoveLogo,
         AfterFailedUpload, Running
<1>2. tx' \in [Requests -> Transaction] BY <1>1, GotoRow
<1>3. ASSUME NEW answered \in BOOLEAN, CommitLogo(q, answered) PROVE TypeOK'
  <2>1. tx[q].image \in Images BY <1>3 DEF CommitLogo, At, Subjects, WithLogo
  <2>2. settings' \in Settings BY <1>3, <2>1 DEF CommitLogo, TypeOK, Settings
  <2> QED BY <1>2, <1>3, <2>2, Releasing DEF CommitLogo, TypeOK
<1>4. CASE RollbackLogo(q) BY <1>2, <1>4, Releasing DEF RollbackLogo, TypeOK, database
<1>5. CASE LookBeforeRemovingLogo(q)
  BY <1>2, <1>5 DEF LookBeforeRemovingLogo, TypeOK, database, locks
<1>6. CASE RemoveLogo(q) BY <1>2, <1>6 DEF RemoveLogo, TypeOK, database, locks
<1> QED BY <1>3, <1>4, <1>5, <1>6 DEF LogoStep

\* ... and every other step.
LEMMA StepType == ASSUME TypeOK, Subjects, [Next]_vars PROVE TypeOK'
<1>1. ASSUME NEW q \in Requests, NEW c \in Campaigns, NEW t \in Types, Open(q, c, t)
      PROVE  TypeOK'
  <2>1. tx' \in [Requests -> Transaction] BY <1>1, OpenRow
  <2>2. campaignLock' \in [Campaigns -> Requests \cup {None}] BY <1>1 DEF Open, TypeOK
  <2> QED BY <1>1, <2>1, <2>2 DEF Open, TypeOK, database
<1>2. ASSUME NEW q \in Requests, NEW image \in Images, WriteLogo(q, image) PROVE TypeOK'
  <2>1. tx' \in [Requests -> Transaction] BY <1>2, WriteLogoRow
  <2>2. handed' \in [Numbers \cup Images -> SUBSET Requests] BY <1>2 DEF WriteLogo, TypeOK
  <2>3. logos' \in SUBSET Images BY <1>2 DEF WriteLogo, TypeOK
  <2> QED BY <1>2, <2>1, <2>2, <2>3 DEF WriteLogo, TypeOK, database
<1>3. ASSUME NEW q \in Requests, Crash(q) PROVE TypeOK'
  <2>1. tx' \in [Requests -> Transaction] BY <1>3, GotoRow DEF Crash
  <2> QED BY <1>3, <2>1, Releasing DEF Crash, TypeOK, database
<1>4. ASSUME NEW name \in Names \cup {None}, NEW prefix \in Prefixes,
             UpdateSettings(name, prefix)
      PROVE  TypeOK'
  <2>1. settings' \in Settings BY <1>4 DEF UpdateSettings, TypeOK, Settings
  <2> QED BY <1>4, <2>1 DEF UpdateSettings, TypeOK, locks
<1>5. ASSUME NEW c \in Campaigns, Close(c) \/ Reapprove(c) PROVE TypeOK'
  <2>1. campaign' \in [Campaigns -> [status: {"APPROVED", "CLOSED"}, version: 0..MaxVersion]]
    <3>1. CASE Close(c) BY <3>1 DEF Close, TypeOK
    <3>2. CASE Reapprove(c)
      <4>1. campaign[c].version + 1 \in 0..MaxVersion BY <3>2 DEF Reapprove, TypeOK
      <4> QED BY <3>2, <4>1 DEF Reapprove, TypeOK
    <3> QED BY <1>5, <3>1, <3>2
  <2> QED BY <1>5, <2>1 DEF Close, Reapprove, TypeOK, locks
<1>6. CASE UNCHANGED vars BY <1>6 DEF vars, TypeOK, database, locks
<1> QED BY <1>1, <1>2, <1>3, <1>4, <1>5, <1>6, GenerationType, LogoType, VictimAborts DEF Next, Command

-----------------------------------------------------------------------------
(* Locks.                                                                  *)

\* At first nobody holds a lock.
LEMMA InitLocks == ASSUME Init PROVE LockInv
<1>1. \A q \in Requests : tx[q].pc = "idle" /\ tx[q].campaign = None BY DEF Init, Blank
<1>2. Subjects BY <1>1 DEF Subjects, Generating, Cleaning, Numbered, WithLogo
<1>3. SettingsHeld BY <1>1 DEF Init, SettingsHeld, InSettings
<1>4. CampaignHeld BY <1>1 DEF Init, CampaignHeld, Generating
<1> QED BY <1>2, <1>3, <1>4 DEF LockInv

\* Steps that take or leave no lock: the request stays among those that hold
\* what it holds, and knows what it has to know where it goes.
LEMMA MovingLocks ==
    ASSUME TypeOK, LockInv, NEW q \in Requests, NEW pc \in Running \cup {"done"}, Goto(q, pc),
           UNCHANGED <<campaign, locks>>,
           pc \in Generating <=> tx[q].pc \in Generating,
           pc \in InSettings <=> tx[q].pc \in InSettings,
           pc \in Cleaning => tx[q].pc \in Cleaning,
           pc \in Numbered => tx[q].pc \in Numbered,
           pc \in WithLogo => tx[q].pc \in WithLogo
    PROVE  LockInv'
<1> USE DEF LockInv
<1>1. /\ tx' \in [Requests -> Transaction] /\ Others(q) /\ tx'[q].pc = pc
      /\ pc # "done" => Same(q)
      /\ pc = "done" => tx'[q] = Blank("done")
  BY GotoRow
<1>2. pc = "done" => tx'[q].campaign = None BY <1>1 DEF Blank
<1>3. pc \notin Generating \cup Cleaning => tx'[q].campaign = None
  BY <1>1, <1>2 DEF Subjects, Same, Cleaning, Generating, Running, WithLogo, Numbered, InSettings
<1>4. Subjects'
  BY <1>1, <1>3 DEF Subjects, Same, Others, Generating, Cleaning, Numbered, WithLogo
<1>5. SettingsHeld' BY <1>1 DEF SettingsHeld, Others, locks
<1>6. CampaignHeld'
  BY <1>1 DEF CampaignHeld, Others, Same, locks, Generating
<1> QED BY <1>4, <1>5, <1>6

\* The end of a transaction.
LEMMA ReleasingLocks ==
    ASSUME TypeOK, LockInv, NEW q \in Requests, NEW pc \in {"done", "check", "logo_check"},
           Goto(q, pc), Release(q), UNCHANGED campaign,
           pc = "check" => tx[q].pc \in Numbered,
           pc = "logo_check" => tx[q].pc \in WithLogo
    PROVE  LockInv'
<1> USE DEF LockInv
<1>0. pc \in Running \cup {"done"} BY DEF Running
<1>1. /\ tx' \in [Requests -> Transaction] /\ Others(q) /\ tx'[q].pc = pc
      /\ pc # "done" => Same(q)
      /\ pc = "done" => tx'[q] = Blank("done")
  BY <1>0, GotoRow
<1>2. /\ \A c \in Campaigns, p \in Requests : campaignLock'[c] = p <=> campaignLock[c] = p /\ p # q
      /\ \A p \in Requests : settingsLock' = p <=> settingsLock = p /\ p # q
  BY Releasing
<1>3. pc = "done" => tx'[q].campaign = None BY <1>1 DEF Blank
<1>4. Subjects'
  BY <1>1, <1>3 DEF Subjects, Same, Others, Generating, Cleaning, Numbered, WithLogo
<1>5. SettingsHeld' BY <1>1, <1>2 DEF SettingsHeld, Others, InSettings
<1>6. CampaignHeld'
  <2>1. \A c \in Campaigns, p \in Requests :
           campaignLock'[c] = p => tx'[p].campaign = c /\ tx'[p].pc \in Generating
    BY <1>1, <1>2 DEF CampaignHeld, Others
  <2>2. ASSUME NEW p \in Requests, tx'[p].pc \in Generating, ~tx'[p].lost
        PROVE  campaignLock'[tx'[p].campaign] = p /\ campaign'[tx'[p].campaign].status = "APPROVED"
    <3>1. p # q BY <1>1, <2>2 DEF Generating
    <3>2. tx[p].campaign \in Campaigns BY <1>1, <2>2, <3>1 DEF Others, Subjects
    <3> QED BY <1>1, <1>2, <2>2, <3>1, <3>2 DEF CampaignHeld, Others
  <2> QED BY <2>1, <2>2 DEF CampaignHeld
<1> QED BY <1>4, <1>5, <1>6

\* A generation's steps keep who holds which lock, ...
LEMMA GenerationLocks ==
    ASSUME TypeOK, LockInv, NEW q \in Requests, GenerationStep(q) PROVE LockInv'
<1> USE DEF Generating, Cleaning, Numbered, WithLogo, InSettings, Running
<1>1. CASE ReadProfile(q) \/ FindNone(q) \/ RenderAndWrite(q) \/ RenderRaises(q)
           \/ LookBeforeRemoving(q) \/ RemoveFile(q)
  <2>1. PICK pc \in Running \cup {"done"} : Goto(q, pc)
           /\ (pc \in Generating <=> tx[q].pc \in Generating)
           /\ (pc \in InSettings <=> tx[q].pc \in InSettings)
           /\ (pc \in Cleaning => tx[q].pc \in Cleaning)
           /\ (pc \in Numbered => tx[q].pc \in Numbered)
           /\ (pc \in WithLogo => tx[q].pc \in WithLogo)
    BY <1>1 DEF ReadProfile, FindNone, RenderAndWrite, RenderRaises, LookBeforeRemoving,
                RemoveFile, At
  <2>2. UNCHANGED <<campaign, locks>>
    BY <1>1 DEF ReadProfile, FindNone, RenderAndWrite, RenderRaises, LookBeforeRemoving,
                RemoveFile, database
  <2> QED BY <2>1, <2>2, MovingLocks
<1>2. CASE MaterializeConflict(q) \/ ReuseExisting(q) \/ RecordFailure(q) \/ Rollback(q)
           \/ \E answered \in BOOLEAN : Commit(q, answered)
  <2>1. PICK pc \in {"done", "check"} :
           Goto(q, pc) /\ (pc = "check" => tx[q].pc \in Numbered)
    BY <1>2 DEF MaterializeConflict, ReuseExisting, RecordFailure, Rollback, Commit, At
  <2>2. Release(q) /\ UNCHANGED campaign
    BY <1>2 DEF MaterializeConflict, ReuseExisting, RecordFailure, Rollback, Commit, database
  <2> QED BY <2>1, <2>2, ReleasingLocks
<1>3. CASE MaterializeProfile(q)
  <2> USE DEF LockInv
  <2>1. /\ tx' \in [Requests -> Transaction] /\ Others(q)
        /\ tx'[q].pc = "find" /\ tx'[q].lost
        /\ tx'[q].campaign = tx[q].campaign /\ tx'[q].type = tx[q].type
        /\ tx'[q].read = tx[q].read
    BY <1>3, MaterializeRow
  <2>2. tx[q].pc = "materialize" /\ UNCHANGED campaign BY <1>3 DEF MaterializeProfile, At
  <2>3. /\ \A c \in Campaigns, p \in Requests :
              campaignLock'[c] = p <=> campaignLock[c] = p /\ p # q
        /\ \A p \in Requests : settingsLock' = p <=> settingsLock = p /\ p # q
    BY <1>3, Releasing DEF MaterializeProfile
  <2>4. Subjects' BY <2>1, <2>2 DEF Subjects, Others
  <2>5. SettingsHeld' BY <2>1, <2>2, <2>3 DEF SettingsHeld, Others
  <2>6. \A c \in Campaigns, p \in Requests :
           campaignLock'[c] = p => tx'[p].campaign = c /\ tx'[p].pc \in Generating
    BY <2>1, <2>3 DEF CampaignHeld, Others
  <2>7. ASSUME NEW p \in Requests, tx'[p].pc \in Generating, ~tx'[p].lost
        PROVE  campaignLock'[tx'[p].campaign] = p /\ campaign'[tx'[p].campaign].status = "APPROVED"
    <3>1. p # q BY <2>1, <2>7
    <3>2. tx[p].campaign \in Campaigns BY <2>1, <2>7, <3>1 DEF Others, Subjects
    <3> QED BY <2>1, <2>2, <2>3, <2>7, <3>1, <3>2 DEF CampaignHeld, Others
  <2>8. CampaignHeld' BY <2>6, <2>7 DEF CampaignHeld
  <2> QED BY <2>4, <2>5, <2>8
<1>4. CASE Allocate(q)
  <2> USE DEF LockInv
  <2>1. Others(q) /\ tx'[q].pc = "render" /\ Same(q) BY <1>4, GotoRow DEF Allocate
  <2>2. /\ tx[q].pc = "allocate" /\ settingsLock = None /\ settingsLock' = q
        /\ tx[q].read.next <= MaxNumber /\ UNCHANGED <<campaign, campaignLock>>
    BY <1>4 DEF Allocate, At, database
  <2>3. Subjects' BY <2>1, <2>2 DEF Subjects, Others, Same
  <2>4. SettingsHeld' BY <2>1, <2>2 DEF SettingsHeld, Others
  <2>5. CampaignHeld' BY <2>1, <2>2 DEF CampaignHeld, Others, Same
  <2> QED BY <2>3, <2>4, <2>5
<1>5. CASE Insert(q)
  <2> USE DEF LockInv
  <2>1. /\ Others(q) /\ tx'[q].pc = "commit" /\ tx'[q].campaign = tx[q].campaign
        /\ tx'[q].type = tx[q].type /\ tx'[q].read = tx[q].read /\ tx'[q].lost = tx[q].lost
    BY <1>5, InsertRow
  <2>2. tx[q].pc = "insert" /\ UNCHANGED <<campaign, settingsLock>>
    BY <1>5 DEF Insert, At, database
  <2>3. tx[q].campaign \in Campaigns BY <2>2 DEF Subjects
  <2>4. campaignLock[tx[q].campaign] \in {None, q} BY <1>5 DEF Insert, CampaignFree
  <2>5. \A c \in Campaigns :
           campaignLock'[c] = IF c = tx[q].campaign THEN q ELSE campaignLock[c]
    BY <1>5 DEF Insert, TypeOK
  <2>6. Subjects' BY <2>1, <2>2 DEF Subjects, Others
  <2>7. SettingsHeld' BY <2>1, <2>2 DEF SettingsHeld, Others
  <2>8. \A c \in Campaigns, p \in Requests :
           campaignLock'[c] = p => tx'[p].campaign = c /\ tx'[p].pc \in Generating
    BY <2>1, <2>2, <2>5 DEF CampaignHeld, Others
  <2>9. ASSUME NEW p \in Requests, tx'[p].pc \in Generating, ~tx'[p].lost
        PROVE  campaignLock'[tx'[p].campaign] = p /\ campaign'[tx'[p].campaign].status = "APPROVED"
    <3>1. CASE p = q BY <2>1, <2>2, <2>3, <2>5, <2>9, <3>1 DEF CampaignHeld
    <3>2. CASE p # q
      <4>1. tx[p].campaign \in Campaigns BY <2>1, <2>9, <3>2 DEF Others, Subjects
      <4>2. campaignLock[tx[p].campaign] = p /\ campaign[tx[p].campaign].status = "APPROVED"
        BY <2>1, <2>9, <3>2 DEF CampaignHeld, Others
      <4>3. tx[p].campaign # tx[q].campaign BY <2>4, <3>2, <4>2
      <4> QED BY <2>1, <2>2, <2>5, <3>2, <4>1, <4>2, <4>3 DEF Others
    <3> QED BY <3>1, <3>2
  <2>10. CampaignHeld' BY <2>8, <2>9 DEF CampaignHeld
  <2> QED BY <2>6, <2>7, <2>10
<1> QED BY <1>1, <1>2, <1>3, <1>4, <1>5 DEF GenerationStep

\* ... and so do those of an upload.
LEMMA LogoLocks ==
    ASSUME TypeOK, LockInv, NEW q \in Requests, LogoStep(q) PROVE LockInv'
<1> USE DEF Generating, Cleaning, Numbered, WithLogo, InSettings, Running
<1>1. CASE LookBeforeRemovingLogo(q) \/ RemoveLogo(q)
  <2>1. PICK pc \in {"logo_unlink", "done"} : Goto(q, pc)
    BY <1>1 DEF LookBeforeRemovingLogo, RemoveLogo
  <2>2. tx[q].pc \in {"logo_check", "logo_unlink"} /\ UNCHANGED <<campaign, locks>>
    BY <1>1 DEF LookBeforeRemovingLogo, RemoveLogo, At, database
  <2> QED BY <2>1, <2>2, MovingLocks
<1>2. CASE RollbackLogo(q) \/ \E answered \in BOOLEAN : CommitLogo(q, answered)
  <2>1. PICK pc \in {"logo_check", "done"} : Goto(q, pc)
    BY <1>2 DEF RollbackLogo, CommitLogo, AfterFailedUpload
  <2>2. tx[q].pc = "logo" /\ Release(q) /\ UNCHANGED campaign
    BY <1>2 DEF RollbackLogo, CommitLogo, At, database
  <2> QED BY <2>1, <2>2, ReleasingLocks
<1> QED BY <1>1, <1>2 DEF LogoStep

\* Every step keeps the locks.
LEMMA StepLocks == ASSUME TypeOK, LockInv, [Next]_vars PROVE LockInv'
<1> USE DEF LockInv, Generating, Cleaning, Numbered, WithLogo, InSettings
<1>1. ASSUME NEW q \in Requests, NEW c \in Campaigns, NEW t \in Types, Open(q, c, t)
      PROVE  LockInv'
  <2>1. /\ Others(q) /\ tx'[q].pc \in {"profile", "find"}
        /\ tx'[q].campaign = c /\ tx'[q].type = t /\ tx'[q].read = settings
    BY <1>1, OpenRow
  <2>2. /\ tx[q].pc = "idle" /\ campaignLock[c] = None /\ campaign[c].status = "APPROVED"
        /\ settings.name \in Names /\ UNCHANGED <<campaign, settingsLock>>
    BY <1>1 DEF Open, At, database, TypeOK, Settings
  <2>3. \A d \in Campaigns : campaignLock'[d] = IF d = c THEN q ELSE campaignLock[d]
    BY <1>1 DEF Open, TypeOK
  <2>4. Subjects' BY <2>1, <2>2 DEF Subjects, Others
  <2>5. SettingsHeld' BY <2>1, <2>2 DEF SettingsHeld, Others
  <2>6. \A d \in Campaigns, p \in Requests :
           campaignLock'[d] = p => tx'[p].campaign = d /\ tx'[p].pc \in Generating
    BY <2>1, <2>2, <2>3 DEF CampaignHeld, Others
  <2>7. ASSUME NEW p \in Requests, tx'[p].pc \in Generating, ~tx'[p].lost
        PROVE  campaignLock'[tx'[p].campaign] = p /\ campaign'[tx'[p].campaign].status = "APPROVED"
    <3>1. CASE p = q BY <2>1, <2>2, <2>3, <3>1
    <3>2. CASE p # q
      <4>1. tx[p].campaign \in Campaigns BY <2>1, <2>7, <3>2 DEF Others, Subjects
      <4>2. campaignLock[tx[p].campaign] = p /\ campaign[tx[p].campaign].status = "APPROVED"
        BY <2>1, <2>7, <3>2 DEF CampaignHeld, Others
      <4>3. tx[p].campaign # c BY <2>2, <4>2
      <4> QED BY <2>1, <2>2, <2>3, <3>2, <4>1, <4>2, <4>3 DEF Others
    <3> QED BY <3>1, <3>2
  <2>8. CampaignHeld' BY <2>6, <2>7 DEF CampaignHeld
  <2> QED BY <2>4, <2>5, <2>8
<1>2. ASSUME NEW q \in Requests, NEW image \in Images, WriteLogo(q, image) PROVE LockInv'
  <2>1. /\ Others(q) /\ tx'[q].pc = "logo" /\ tx'[q].image = image
        /\ tx'[q].campaign = tx[q].campaign
    BY <1>2, WriteLogoRow
  <2>2. /\ tx[q].pc = "idle" /\ settingsLock = None /\ settingsLock' = q
        /\ UNCHANGED <<campaign, campaignLock>>
    BY <1>2 DEF WriteLogo, At, database
  <2>3. Subjects' BY <2>1, <2>2 DEF Subjects, Others
  <2>4. SettingsHeld' BY <2>1, <2>2 DEF SettingsHeld, Others
  <2>5. CampaignHeld' BY <2>1, <2>2 DEF CampaignHeld, Others
  <2> QED BY <2>3, <2>4, <2>5
<1>3. ASSUME NEW q \in Requests, Crash(q) PROVE LockInv'
  <2>1. Goto(q, "done") /\ Release(q) /\ UNCHANGED campaign BY <1>3 DEF Crash, database
  <2> QED BY <2>1, ReleasingLocks
<1>4. ASSUME NEW name \in Names \cup {None}, NEW prefix \in Prefixes,
             UpdateSettings(name, prefix)
      PROVE  LockInv'
  BY <1>4 DEF UpdateSettings, locks, Subjects, SettingsHeld, CampaignHeld
<1>5. ASSUME NEW c \in Campaigns, Close(c) \/ Reapprove(c) PROVE LockInv'
  <2>1. campaignLock[c] = None /\ UNCHANGED <<tx, campaignLock, settingsLock>>
    BY <1>5 DEF Close, Reapprove, locks
  <2>2. \A d \in Campaigns : d # c => campaign'[d] = campaign[d]
    BY <1>5 DEF Close, Reapprove, TypeOK
  <2>3. Subjects' BY <2>1 DEF Subjects
  <2>4. SettingsHeld' BY <2>1 DEF SettingsHeld
  <2>5. CampaignHeld' BY <2>1, <2>2 DEF CampaignHeld, Subjects
  <2> QED BY <2>3, <2>4, <2>5
<1>6. CASE UNCHANGED vars
  BY <1>6 DEF vars, database, locks, Subjects, SettingsHeld, CampaignHeld
<1> QED BY <1>1, <1>2, <1>3, <1>4, <1>5, <1>6, GenerationLocks, LogoLocks, VictimAborts DEF Next, Command

-----------------------------------------------------------------------------
(* Rows.                                                                   *)

\* At first there is no document.
LEMMA InitRows == ASSUME Init PROVE RowInv
<1>1. \A q \in Requests : tx[q].pc = "idle" BY DEF Init, Blank
<1>2. \A c \in Campaigns : campaign[c].status = "APPROVED" BY DEF Init
<1> QED BY <1>1, <1>2
        DEF Init, RowInv, UniqueNumbers, Prepared, OneOfficial, ClosedIsDocumented

\* A step that leaves the rows alone, brings no request to its commit and
\* closes no campaign.
LEMMA RowFrame ==
    ASSUME RowInv, UNCHANGED rows, NEW q \in Requests, Others(q), tx'[q].pc # "commit",
           \A c \in Campaigns : campaign'[c].status = "CLOSED" => campaign[c].status = "CLOSED"
    PROVE  RowInv'
<1> USE DEF RowInv
<1>1. UniqueNumbers' BY DEF UniqueNumbers
<1>2. OneOfficial' BY DEF OneOfficial
<1>3. ClosedIsDocumented' BY DEF ClosedIsDocumented, Official
<1>4. Prepared'
  <2> SUFFICES ASSUME NEW p \in Requests, tx'[p].pc = "commit"
               PROVE  (tx[p].previous = Previous(p) /\ ~Taken(Number(p)))'
    BY DEF Prepared
  <2>1. p # q /\ tx'[p] = tx[p] BY DEF Others
  <2>2. tx[p].previous = Previous(p) /\ ~Taken(Number(p)) BY <2>1 DEF Prepared
  <2>3. Previous(p)' = Previous(p) BY <2>1 DEF Previous, Official
  <2>4. Taken(Number(p))' = Taken(Number(p)) BY <2>1 DEF Taken, Number
  <2> QED BY <2>1, <2>2, <2>3, <2>4
<1> QED BY <1>1, <1>2, <1>3, <1>4

\* What a commit does: the new row takes the place of the official one.
LEMMA CommitRows ==
    ASSUME TypeOK, LockInv, RowInv, NEW q \in Requests, NEW answered \in BOOLEAN,
           Commit(q, answered)
    PROVE  LET new == [content |-> Rendered(q), status |-> "GENERATED"]
           IN  /\ new \in Row /\ Number(q) \in Numbers /\ ~Taken(Number(q))
               /\ tx[q].campaign \in Campaigns /\ tx[q].type \in Types
               /\ rows' = (rows \ Previous(q)) \cup {Superseded(r) : r \in Previous(q)} \cup {new}
               /\ Previous(q) \subseteq rows
               /\ \A r \in Row : /\ Superseded(r).content = r.content
                                 /\ Superseded(r).status = "SUPERSEDED"
<1>1. tx[q].pc = "commit" BY DEF Commit, At
<1>2. tx[q].previous = Previous(q) /\ ~Taken(Number(q)) BY <1>1 DEF RowInv, Prepared
<1>3. Rendered(q) \in Content /\ Number(q) \in Numbers
  BY <1>1, RenderedType DEF LockInv, Numbered
<1>4. tx[q].campaign \in Campaigns /\ tx[q].type \in Types
  BY <1>1 DEF LockInv, Subjects, Generating
<1>5. Previous(q) \subseteq rows BY DEF Previous, Official
<1> QED BY <1>2, <1>3, <1>4, <1>5 DEF Commit, Row, Superseded

\* The official documents after a commit.
LEMMA CommitOfficial ==
    ASSUME TypeOK, LockInv, RowInv, NEW q \in Requests, NEW answered \in BOOLEAN,
           Commit(q, answered), NEW c \in Campaigns, NEW t \in Types
    PROVE  Official(c, t)' =
              IF c = tx[q].campaign /\ t = tx[q].type
              THEN {[content |-> Rendered(q), status |-> "GENERATED"]}
              ELSE Official(c, t)
<1> DEFINE new == [content |-> Rendered(q), status |-> "GENERATED"]
<1>1. /\ new \in Row
      /\ rows' = (rows \ Previous(q)) \cup {Superseded(r) : r \in Previous(q)} \cup {new}
      /\ \A r \in Row : Superseded(r).status = "SUPERSEDED"
      /\ Previous(q) \subseteq rows
  BY CommitRows
<1>2. new.status = "GENERATED" /\ new.content.campaign = tx[q].campaign
        /\ new.content.type = tx[q].type
  BY DEF Rendered
<1> HIDE DEF new
<1>3. \A r \in {Superseded(s) : s \in Previous(q)} : r.status # "GENERATED"
  BY <1>1 DEF TypeOK
<1>4. \A r : r \in Official(c, t)' <=>
          \/ r \in rows \ Previous(q) /\ r.status = "GENERATED" /\ r.content.campaign = c
                                      /\ r.content.type = t
          \/ r = new /\ c = tx[q].campaign /\ t = tx[q].type
  BY <1>1, <1>2, <1>3 DEF Official
<1>5. CASE c = tx[q].campaign /\ t = tx[q].type
  <2>1. Previous(q) = Official(c, t) BY <1>5 DEF Previous
  <2> QED BY <1>4, <1>5, <2>1 DEF Official, new
<1>6. CASE ~(c = tx[q].campaign /\ t = tx[q].type)
  <2>1. \A r \in Previous(q) : ~(r.content.campaign = c /\ r.content.type = t)
    BY <1>6 DEF Previous, Official
  <2> QED BY <1>4, <1>6, <2>1 DEF Official
<1> QED BY <1>5, <1>6

\* The document that is committed leaves one official document, and one of
\* each number.
LEMMA CommitKeepsRows ==
    ASSUME TypeOK, LockInv, RowInv, NEW q \in Requests, NEW answered \in BOOLEAN,
           Commit(q, answered)
    PROVE  RowInv'
<1> USE DEF RowInv
<1> DEFINE new == [content |-> Rendered(q), status |-> "GENERATED"]
<1>1. /\ new \in Row /\ ~Taken(Number(q))
      /\ rows' = (rows \ Previous(q)) \cup {Superseded(r) : r \in Previous(q)} \cup {new}
      /\ Previous(q) \subseteq rows /\ rows \subseteq Row
      /\ \A r \in Row : Superseded(r).content = r.content
  BY CommitRows DEF TypeOK
<1>2. new.content.number = Number(q) BY DEF Rendered
<1> HIDE DEF new
<1>3. UniqueNumbers'
  <2> SUFFICES ASSUME NEW r \in rows', NEW s \in rows', r.content.number = s.content.number
               PROVE  r = s
    BY DEF UniqueNumbers
  <2>1. \A x \in rows' : x # new => \E y \in rows :
            /\ y.content = x.content
            /\ x = (IF y \in Previous(q) THEN Superseded(y) ELSE y)
    BY <1>1
  <2>2. CASE r # new /\ s # new
    <3>1. PICK y \in rows : /\ y.content = r.content
                            /\ r = (IF y \in Previous(q) THEN Superseded(y) ELSE y)
      BY <2>1, <2>2
    <3>2. PICK z \in rows : /\ z.content = s.content
                            /\ s = (IF z \in Previous(q) THEN Superseded(z) ELSE z)
      BY <2>1, <2>2
    <3>3. y = z BY <3>1, <3>2 DEF UniqueNumbers
    <3> QED BY <3>1, <3>2, <3>3
  <2>3. CASE r = new \/ s = new
    <3>1. \A x \in rows' : x # new => x.content.number # Number(q)
      BY <1>1, <2>1 DEF Taken
    <3> QED BY <1>2, <2>3, <3>1
  <2> QED BY <2>2, <2>3
<1>4. OneOfficial'
  <2> SUFFICES ASSUME NEW r \in rows', NEW s \in rows',
                      r.status = "GENERATED", s.status = "GENERATED",
                      r.content.campaign = s.content.campaign, r.content.type = s.content.type
               PROVE  r = s
    BY DEF OneOfficial
  <2>1. r \in Row BY <1>1, CommitRows DEF Superseded, Row
  <2> DEFINE c == r.content.campaign
             t == r.content.type
  <2>2. c \in Campaigns /\ t \in Types BY <2>1 DEF Row, Content
  <2>3. r \in Official(c, t)' /\ s \in Official(c, t)' BY DEF Official
  <2> HIDE DEF c, t
  <2>4. \A x, y \in Official(c, t) : x = y BY DEF OneOfficial, Official
  <2> QED BY <2>2, <2>3, <2>4, CommitOfficial
<1>5. ClosedIsDocumented'
  <2>1. UNCHANGED campaign BY DEF Commit
  <2>2. \A c \in Campaigns, t \in Types : Official(c, t) # {} => Official(c, t)' # {}
    BY CommitOfficial
  <2> QED BY <2>1, <2>2 DEF ClosedIsDocumented
<1>6. Prepared'
  <2>1. PICK pc \in {"done", "check"} : Goto(q, pc) BY DEF Commit
  <2>2. Others(q) /\ tx'[q].pc # "commit" BY <2>1, GotoRow DEF Running
  <2>3. \A p \in Requests : p # q => tx[p].pc # "commit"
    BY DEF LockInv, SettingsHeld, InSettings, Commit, At
  <2> QED BY <2>2, <2>3 DEF Prepared, Others
<1> QED BY <1>3, <1>4, <1>5, <1>6

\* The document that records a failure is not official.
LEMMA FailureKeepsRows ==
    ASSUME TypeOK, LockInv, RowInv, NEW q \in Requests, RecordFailure(q) PROVE RowInv'
<1> USE DEF RowInv
<1>1. Others(q) /\ tx'[q].pc = "done" BY GotoRow DEF RecordFailure
<1>2. UNCHANGED campaign BY DEF RecordFailure
<1>3. CASE Taken(Number(q)) BY <1>1, <1>2, <1>3, RowFrame DEF RecordFailure
<1>4. CASE ~Taken(Number(q))
  <2> DEFINE new == [content |-> Rendered(q), status |-> "FAILED"]
  <2>1. rows' = rows \cup {new} BY <1>4 DEF RecordFailure
  <2>2. new.content.number = Number(q) /\ new.status = "FAILED" BY DEF Rendered
  <2> HIDE DEF new
  <2>3. UniqueNumbers' BY <1>4, <2>1, <2>2 DEF UniqueNumbers, Taken
  <2>4. OneOfficial' BY <2>1, <2>2 DEF OneOfficial
  <2>5. \A c \in Campaigns, t \in Types : Official(c, t) \subseteq Official(c, t)'
    BY <2>1 DEF Official
  <2>6. ClosedIsDocumented' BY <1>2, <2>5 DEF ClosedIsDocumented
  <2>7. \A p \in Requests : tx'[p].pc # "commit"
    BY <1>1 DEF Others, LockInv, SettingsHeld, InSettings, RecordFailure, At
  <2> QED BY <2>3, <2>4, <2>6, <2>7 DEF Prepared
<1> QED BY <1>3, <1>4

\* A generation's steps keep the documents.
LEMMA GenerationRows ==
    ASSUME TypeOK, LockInv, RowInv, NEW q \in Requests, GenerationStep(q) PROVE RowInv'
<1>1. CASE ReadProfile(q) \/ MaterializeConflict(q) \/ ReuseExisting(q) \/ FindNone(q)
           \/ Allocate(q) \/ RenderAndWrite(q) \/ RenderRaises(q) \/ Rollback(q)
           \/ LookBeforeRemoving(q) \/ RemoveFile(q)
  <2>1. PICK pc \in Running \cup {"done"} : Goto(q, pc) /\ pc # "commit"
    BY <1>1 DEF ReadProfile, MaterializeConflict, ReuseExisting, FindNone, Allocate,
                RenderAndWrite, RenderRaises, Rollback, LookBeforeRemoving, RemoveFile, Running
  <2>2. Others(q) /\ tx'[q].pc # "commit" BY <2>1, GotoRow
  <2>3. UNCHANGED <<rows, campaign>>
    BY <1>1 DEF ReadProfile, MaterializeConflict, ReuseExisting, FindNone, Allocate,
                RenderAndWrite, RenderRaises, Rollback, LookBeforeRemoving, RemoveFile, database
  <2> QED BY <2>2, <2>3, RowFrame
<1>2. CASE MaterializeProfile(q)
  <2>1. Others(q) /\ tx'[q].pc = "find" BY <1>2, MaterializeRow
  <2> QED BY <1>2, <2>1, RowFrame DEF MaterializeProfile
<1>3. CASE Insert(q)
  <2> USE DEF RowInv
  <2>1. /\ Others(q) /\ tx'[q].previous = Previous(q) /\ Number(q)' = Number(q)
        /\ tx'[q].campaign = tx[q].campaign /\ tx'[q].type = tx[q].type
    BY <1>3, InsertRow
  <2>2. ~Taken(Number(q)) /\ UNCHANGED <<rows, campaign>>
    BY <1>3 DEF Insert, Insertable, database
  <2>3. UniqueNumbers' /\ OneOfficial' BY <2>2 DEF UniqueNumbers, OneOfficial
  <2>4. ClosedIsDocumented' BY <2>2 DEF ClosedIsDocumented, Official
  <2>5. Previous(q)' = Previous(q) BY <2>1, <2>2 DEF Previous, Official
  <2>6. Taken(Number(q))' = Taken(Number(q)) BY <2>1, <2>2 DEF Taken
  <2>7. \A p \in Requests : p # q => tx'[p].pc # "commit"
    BY <1>3, <2>1 DEF Others, LockInv, SettingsHeld, InSettings, Insert, At
  <2>8. Prepared' BY <2>1, <2>2, <2>5, <2>6, <2>7 DEF Prepared
  <2> QED BY <2>3, <2>4, <2>8
<1> QED BY <1>1, <1>2, <1>3, CommitKeepsRows, FailureKeepsRows DEF GenerationStep

\* Every step keeps them.
LEMMA StepRows == ASSUME TypeOK, LockInv, RowInv, [Next]_vars PROVE RowInv'
<1>1. ASSUME NEW q \in Requests, NEW c \in Campaigns, NEW t \in Types, Open(q, c, t)
      PROVE  RowInv'
  <2>1. Others(q) /\ tx'[q].pc # "commit" BY <1>1, OpenRow
  <2> QED BY <1>1, <2>1, RowFrame DEF Open, database
<1>2. ASSUME NEW q \in Requests, NEW image \in Images, WriteLogo(q, image) PROVE RowInv'
  <2>1. Others(q) /\ tx'[q].pc # "commit" BY <1>2, WriteLogoRow
  <2> QED BY <1>2, <2>1, RowFrame DEF WriteLogo, database
<1>3. ASSUME NEW q \in Requests, LogoStep(q) \/ Crash(q) PROVE RowInv'
  <2>1. PICK pc \in {"logo_check", "logo_unlink", "done"} : Goto(q, pc)
    BY <1>3 DEF Crash, LogoStep, CommitLogo, RollbackLogo, LookBeforeRemovingLogo, RemoveLogo,
                AfterFailedUpload
  <2>2. Others(q) /\ tx'[q].pc # "commit" BY <2>1, GotoRow DEF Running
  <2>3. UNCHANGED <<rows, campaign>>
    BY <1>3 DEF Crash, LogoStep, CommitLogo, RollbackLogo, LookBeforeRemovingLogo, RemoveLogo,
                database
  <2> QED BY <2>2, <2>3, RowFrame
<1>4. ASSUME UNCHANGED <<rows, tx>>,
             \A c \in Campaigns : campaign'[c].status = "CLOSED" =>
                campaign[c].status = "CLOSED" \/ DocumentedAll(c)
      PROVE  RowInv'
  <2> USE DEF RowInv
  <2>1. UniqueNumbers' /\ OneOfficial' BY <1>4 DEF UniqueNumbers, OneOfficial
  <2>2. ClosedIsDocumented' BY <1>4 DEF ClosedIsDocumented, DocumentedAll, Official
  <2>3. Prepared' BY <1>4 DEF Prepared, Previous, Official, Taken, Number
  <2> QED BY <2>1, <2>2, <2>3
<1>5. ASSUME NEW c \in Campaigns, Close(c) \/ Reapprove(c) PROVE RowInv'
  <2>1. \A d \in Campaigns : campaign'[d].status = "CLOSED" =>
            campaign[d].status = "CLOSED" \/ DocumentedAll(d)
    BY <1>5 DEF Close, Reapprove, TypeOK
  <2> QED BY <1>4, <1>5, <2>1 DEF Close, Reapprove
<1>6. ASSUME NEW name \in Names \cup {None}, NEW prefix \in Prefixes,
             UpdateSettings(name, prefix)
      PROVE  RowInv'
  BY <1>4, <1>6 DEF UpdateSettings
<1>7. CASE UNCHANGED vars BY <1>4, <1>7 DEF vars, database
<1> QED BY <1>1, <1>2, <1>3, <1>5, <1>6, <1>7, GenerationRows, VictimAborts DEF Next, Command

-----------------------------------------------------------------------------
(* Files.                                                                  *)

\* At first there is no file.
LEMMA InitFiles == ASSUME Init PROVE FileInv
<1>1. \A q \in Requests : tx[q].pc = "idle" BY DEF Init, Blank
<1> QED BY <1>1 DEF Init, FileInv, RowOfRequest, HoldsNumber, Numbered, FileWritten,
                    SoleHolderKeepsFile

Written(q) == tx[q].pc \in {"insert", "commit"}

\* A step of q that leaves rows and files alone.
LEMMA FileFrame ==
    ASSUME TypeOK, LockInv, FileInv, UNCHANGED <<rows, files>>, NEW q \in Requests, Others(q),
           \A n \in Numbers : handed[n] \subseteq handed'[n],
           tx'[q].pc \in Numbered => q \in (handed[Number(q)])',
           Written(q)' => Written(q) /\ Rendered(q)' = Rendered(q) /\ Number(q)' = Number(q),
           \A r \in rows : r.status # "FAILED" /\ r.content.by = q => tx'[q].pc = "done"
    PROVE  FileInv'
<1> USE DEF FileInv
<1>1. \A r \in rows : r.content.number \in Numbers /\ r.content.by \in Requests
  BY DEF TypeOK, Row, Content
<1>2. \A p \in Requests : tx[p].pc \in Numbered => Number(p) \in Numbers
  BY RenderedType DEF LockInv
<1>3. \A p \in Requests : p # q => Number(p)' = Number(p) /\ Rendered(p)' = Rendered(p)
  BY DEF Others, Number, Rendered
<1>4. RowOfRequest'
  <2> SUFFICES ASSUME NEW r \in rows, r.status # "FAILED"
               PROVE  /\ r.content.by \in handed'[r.content.number]
                      /\ \/ tx'[r.content.by].pc = "done"
                         \/ tx'[r.content.by].pc = "check" /\ r.content = Rendered(r.content.by)'
    BY DEF RowOfRequest
  <2>1. r.content.by \in handed'[r.content.number] BY <1>1 DEF RowOfRequest
  <2>2. CASE r.content.by = q BY <2>1, <2>2
  <2>3. CASE r.content.by # q BY <1>1, <1>3, <2>1, <2>3 DEF RowOfRequest, Others
  <2> QED BY <2>2, <2>3
<1>5. HoldsNumber'
  <2> SUFFICES ASSUME NEW p \in Requests, tx'[p].pc \in Numbered
               PROVE  p \in (handed[Number(p)])'
    BY DEF HoldsNumber
  <2>1. CASE p = q BY <2>1
  <2>2. CASE p # q BY <1>2, <1>3, <2>2 DEF HoldsNumber, Others
  <2> QED BY <2>1, <2>2
<1>6. FileWritten'
  <2> SUFFICES ASSUME NEW p \in Requests, Written(p)', (handed[Number(p)])' = {p}
               PROVE  (files[Path(Rendered(p))] = Rendered(p))'
    BY DEF FileWritten, Written
  <2>1. Written(p) /\ Number(p)' = Number(p) /\ Rendered(p)' = Rendered(p)
    BY <1>3 DEF Written, Others
  <2>2. p \in handed[Number(p)] /\ Number(p) \in Numbers
    BY <1>2, <2>1 DEF HoldsNumber, Written, Numbered
  <2>3. handed[Number(p)] = {p} BY <2>1, <2>2
  <2>4. files[Path(Rendered(p))] = Rendered(p) BY <2>1, <2>3 DEF FileWritten, Written
  <2> QED BY <2>1, <2>4 DEF Path
<1>7. SoleHolderKeepsFile'
  <2> SUFFICES ASSUME NEW r \in rows, r.status # "FAILED",
                      handed'[r.content.number] = {r.content.by}
               PROVE  files[Path(r.content)] = r.content
    BY DEF SoleHolderKeepsFile, Path
  <2>1. r.content.by \in handed[r.content.number] BY DEF RowOfRequest
  <2>2. handed[r.content.number] = {r.content.by} BY <1>1, <2>1
  <2> QED BY <2>2 DEF SoleHolderKeepsFile
<1> QED BY <1>4, <1>5, <1>6, <1>7

\* A request that has not been at its commit has no row but failed ones.
LEMMA NoRowYet ==
    ASSUME FileInv, NEW q \in Requests, tx[q].pc \notin {"done", "check"}
    PROVE  \A r \in rows : r.status # "FAILED" => r.content.by # q
BY DEF FileInv, RowOfRequest

\* A step to a place where no document is written or committed.
LEMMA MovingFiles ==
    ASSUME TypeOK, LockInv, FileInv, UNCHANGED <<rows, files, handed>>, NEW q \in Requests,
           NEW pc \in Running \cup {"done"}, Goto(q, pc), pc \notin {"render", "insert", "commit"},
           pc \in Numbered => tx[q].pc \in Numbered,
           \A r \in rows : r.status # "FAILED" /\ r.content.by = q => pc = "done"
    PROVE  FileInv'
<1>1. /\ Others(q) /\ tx'[q].pc = pc /\ pc # "done" => Same(q)
  BY GotoRow
<1>2. Others(q) /\ tx'[q].pc = pc BY GotoRow
<1>3. tx'[q].pc \in Numbered => q \in (handed[Number(q)])'
  BY <1>1, <1>2 DEF FileInv, HoldsNumber, Numbered, Number, Same
<1>4. ~Written(q)' BY <1>2 DEF Written
<1> QED BY <1>2, <1>3, <1>4, FileFrame

\* Writing or removing the file of a number that q shares with nobody harms
\* nobody else's.
LEMMA OthersFiles ==
    ASSUME TypeOK, LockInv, FileInv, NEW q \in Requests, tx[q].pc \in Numbered \ {"check"},
           NEW content, files' = [files EXCEPT ![Path(Rendered(q))] = content],
           UNCHANGED <<rows, handed>>, Others(q)
    PROVE  /\ SoleHolderKeepsFile'
           /\ \A p \in Requests : p # q /\ Written(p)' /\ (handed[Number(p)])' = {p} =>
                 (files[Path(Rendered(p))] = Rendered(p))'
<1> USE DEF FileInv
<1>1. /\ q \in handed[Number(q)] /\ Path(Rendered(q)) \in Paths
      /\ Rendered(q).number = Number(q)
  BY RenderedType DEF LockInv, HoldsNumber
<1>2. \A x \in Paths : files'[x] = IF x = Path(Rendered(q)) THEN content ELSE files[x]
  BY DEF TypeOK
<1>3. SoleHolderKeepsFile'
  <2> SUFFICES ASSUME NEW r \in rows, r.status # "FAILED",
                      handed[r.content.number] = {r.content.by}
               PROVE  files'[Path(r.content)] = r.content
    BY DEF SoleHolderKeepsFile, Path
  <2>1. r.content.by # q BY NoRowYet DEF Numbered
  <2>2. r.content.number # Number(q) BY <1>1, <2>1
  <2>3. Path(r.content) # Path(Rendered(q)) BY <1>1, <2>2 DEF Path
  <2>4. Path(r.content) \in Paths BY DEF TypeOK, Row, Content, Path, Paths, Extensions
  <2>5. files[Path(r.content)] = r.content BY DEF SoleHolderKeepsFile
  <2> QED BY <1>2, <2>3, <2>4, <2>5
<1>4. ASSUME NEW p \in Requests, p # q, Written(p)', (handed[Number(p)])' = {p}
      PROVE  (files[Path(Rendered(p))] = Rendered(p))'
  <2>1. Written(p) /\ Number(p)' = Number(p) /\ Rendered(p)' = Rendered(p)
    BY <1>4 DEF Others, Written, Number, Rendered
  <2>2. Rendered(p).number = Number(p) /\ Path(Rendered(p)) \in Paths
    BY <2>1, RenderedType DEF LockInv, Written, Numbered
  <2>3. Number(p) # Number(q) BY <1>1, <1>4, <2>1
  <2>4. Path(Rendered(p)) # Path(Rendered(q)) BY <1>1, <2>2, <2>3 DEF Path
  <2>5. files[Path(Rendered(p))] = Rendered(p) BY <1>4, <2>1 DEF FileWritten, Written
  <2>6. files'[Path(Rendered(p))] = Rendered(p) BY <1>2, <2>2, <2>4, <2>5
  <2> QED BY <2>1, <2>6 DEF Path
<1> QED BY <1>3, <1>4

\* A file is written over that of somebody handed the same number at most, ...
LEMMA WriteKeepsFiles ==
    ASSUME TypeOK, LockInv, FileInv, NEW q \in Requests, RenderAndWrite(q) PROVE FileInv'
<1> USE DEF FileInv
<1>1. tx[q].pc = "render" /\ UNCHANGED <<rows, handed>>
        /\ files' = [files EXCEPT ![Path(Rendered(q))] = Rendered(q)]
  BY DEF RenderAndWrite, At, database
<1>2. Others(q) /\ tx'[q].pc = "insert" /\ Same(q) BY GotoRow DEF RenderAndWrite, Running
<1>3. /\ Rendered(q)' = Rendered(q) /\ Number(q)' = Number(q)
      /\ \A p \in Requests : p # q => Number(p)' = Number(p) /\ Rendered(p)' = Rendered(p)
  BY <1>2 DEF Same, Others, Rendered, Number
<1>4. RowOfRequest'
  <2>1. \A r \in rows : r.status # "FAILED" => r.content.by # q BY <1>1, NoRowYet
  <2>2. \A r \in rows : r.content.by \in Requests BY DEF TypeOK, Row, Content
  <2> QED BY <1>1, <1>2, <1>3, <2>1, <2>2 DEF RowOfRequest, Others
<1>5. HoldsNumber' BY <1>1, <1>2, <1>3 DEF HoldsNumber, Others, Numbered
<1>6. SoleHolderKeepsFile' /\ \A p \in Requests :
          p # q /\ Written(p)' /\ (handed[Number(p)])' = {p} =>
              (files[Path(Rendered(p))] = Rendered(p))'
  BY <1>1, <1>2, OthersFiles DEF Numbered
<1>7. (files[Path(Rendered(q))] = Rendered(q))'
  <2>1. Path(Rendered(q)) \in Paths BY <1>1, RenderedType DEF LockInv, Numbered
  <2>2. files'[Path(Rendered(q))] = Rendered(q) BY <1>1, <2>1 DEF TypeOK
  <2> QED BY <1>3, <2>2 DEF Path
<1>8. FileWritten' BY <1>6, <1>7 DEF FileWritten, Written
<1> QED BY <1>4, <1>5, <1>6, <1>8

\* ... and so is one removed.
LEMMA RemoveKeepsFiles ==
    ASSUME TypeOK, LockInv, FileInv, NEW q \in Requests, RemoveFile(q) PROVE FileInv'
<1> USE DEF FileInv
<1>1. tx[q].pc = "unlink" /\ UNCHANGED <<rows, handed>>
        /\ files' = [files EXCEPT ![Path(Rendered(q))] = None]
  BY DEF RemoveFile, At, database
<1>2. Others(q) /\ tx'[q].pc = "done" BY GotoRow DEF RemoveFile
<1>3. \A p \in Requests : p # q => Number(p)' = Number(p) /\ Rendered(p)' = Rendered(p)
  BY <1>2 DEF Others, Rendered, Number
<1>4. RowOfRequest'
  <2>1. \A r \in rows : r.content.by \in Requests BY DEF TypeOK, Row, Content
  <2> QED BY <1>1, <1>2, <1>3, <2>1 DEF RowOfRequest, Others
<1>5. HoldsNumber' BY <1>1, <1>2, <1>3 DEF HoldsNumber, Others, Numbered
<1>6. SoleHolderKeepsFile' /\ \A p \in Requests :
          p # q /\ Written(p)' /\ (handed[Number(p)])' = {p} =>
              (files[Path(Rendered(p))] = Rendered(p))'
  BY <1>1, <1>2, OthersFiles DEF Numbered
<1>7. FileWritten' BY <1>2, <1>6 DEF FileWritten, Written
<1> QED BY <1>4, <1>5, <1>6, <1>7

\* The committed row is its author's, and its file is there.
LEMMA CommitKeepsFiles ==
    ASSUME TypeOK, LockInv, RowInv, FileInv, NEW q \in Requests, NEW answered \in BOOLEAN,
           Commit(q, answered)
    PROVE  FileInv'
<1> USE DEF FileInv
<1> DEFINE new == [content |-> Rendered(q), status |-> "GENERATED"]
<1>1. /\ new \in Row
      /\ rows' = (rows \ Previous(q)) \cup {Superseded(r) : r \in Previous(q)} \cup {new}
      /\ Previous(q) \subseteq rows /\ rows \subseteq Row
      /\ \A r \in Row : Superseded(r).content = r.content
  BY CommitRows DEF TypeOK
<1>2. /\ new.content = Rendered(q) /\ new.content.by = q /\ new.content.number = Number(q)
  BY DEF Rendered
<1> HIDE DEF new
<1>3. tx[q].pc = "commit" /\ UNCHANGED <<files, handed>> BY DEF Commit, At
<1>4. PICK pc \in {"done", "check"} : Goto(q, pc) BY DEF Commit
<1>5. Others(q) /\ tx'[q].pc = pc /\ (pc = "check" => Same(q)) BY <1>4, GotoRow DEF Running
<1>6. pc = "check" => Rendered(q)' = Rendered(q) /\ Number(q)' = Number(q)
  BY <1>5 DEF Same, Rendered, Number
<1>7. \A p \in Requests : p # q => Number(p)' = Number(p) /\ Rendered(p)' = Rendered(p)
  BY <1>5 DEF Others, Rendered, Number
<1>8. q \in handed[Number(q)] BY <1>3 DEF HoldsNumber, Numbered
<1>9. ASSUME NEW r \in rows', r # new, r.status # "FAILED"
      PROVE  \E y \in rows : y.content = r.content /\ y.status # "FAILED"
  <2>1. CASE r \in rows BY <1>9, <2>1
  <2>2. CASE r \notin rows
    <3>1. PICK y \in Previous(q) : r = Superseded(y) BY <1>1, <1>9, <2>2
    <3>2. y \in rows /\ y.status = "GENERATED" BY <3>1 DEF Previous, Official
    <3> QED BY <1>1, <3>1, <3>2
  <2> QED BY <2>1, <2>2
<1>10. RowOfRequest'
  <2> SUFFICES ASSUME NEW r \in rows', r.status # "FAILED"
               PROVE  /\ r.content.by \in handed[r.content.number]
                      /\ \/ tx'[r.content.by].pc = "done"
                         \/ tx'[r.content.by].pc = "check" /\ r.content = Rendered(r.content.by)'
    BY <1>3 DEF RowOfRequest
  <2>1. CASE r = new BY <1>2, <1>5, <1>6, <1>8, <2>1
  <2>2. CASE r # new
    <3>1. PICK y \in rows : y.content = r.content /\ y.status # "FAILED" BY <1>9, <2>2
    <3>2. y.content.by \in Requests BY DEF TypeOK, Row, Content
    <3>3. y.content.by # q BY <1>3, <3>1, NoRowYet
    <3> QED BY <1>5, <1>7, <3>1, <3>2, <3>3 DEF RowOfRequest, Others
  <2> QED BY <2>1, <2>2
<1>11. HoldsNumber' BY <1>3, <1>5, <1>6, <1>7, <1>8 DEF HoldsNumber, Others, Numbered
<1>12. FileWritten'
  <2>1. \A p \in Requests : Written(p)' => p # q /\ Written(p) BY <1>5 DEF Others, Written
  <2> QED BY <1>3, <1>7, <2>1 DEF FileWritten, Written, Path
<1>13. SoleHolderKeepsFile'
  <2> SUFFICES ASSUME NEW r \in rows', r.status # "FAILED",
                      handed[r.content.number] = {r.content.by}
               PROVE  files[Path(r.content)] = r.content
    BY <1>3 DEF SoleHolderKeepsFile, Path
  <2>1. CASE r = new BY <1>2, <1>3, <2>1 DEF FileWritten
  <2>2. CASE r # new
    <3>1. PICK y \in rows : y.content = r.content /\ y.status # "FAILED" BY <1>9, <2>2
    <3>2. files[Path(y.content)] = y.content BY <3>1 DEF SoleHolderKeepsFile
    <3> QED BY <3>1, <3>2
  <2> QED BY <2>1, <2>2
<1> QED BY <1>10, <1>11, <1>12, <1>13

\* A failed document has no file.
LEMMA FailureKeepsFiles ==
    ASSUME TypeOK, LockInv, FileInv, NEW q \in Requests, RecordFailure(q) PROVE FileInv'
<1> USE DEF FileInv
<1>1. Others(q) /\ tx'[q].pc = "done" BY GotoRow DEF RecordFailure
<1>2. tx[q].pc = "record" /\ UNCHANGED <<files, handed>> BY DEF RecordFailure, At
<1>3. \A r \in rows' : r.status # "FAILED" => r \in rows BY DEF RecordFailure
<1>4. \A p \in Requests : p # q => Number(p)' = Number(p) /\ Rendered(p)' = Rendered(p)
  BY <1>1 DEF Others, Rendered, Number
<1>5. RowOfRequest'
  <2>1. \A r \in rows : r.status # "FAILED" => r.content.by # q BY <1>2, NoRowYet
  <2>2. \A r \in rows : r.content.by \in Requests BY DEF TypeOK, Row, Content
  <2> QED BY <1>1, <1>2, <1>3, <1>4, <2>1, <2>2 DEF RowOfRequest, Others
<1>6. HoldsNumber' BY <1>1, <1>2, <1>4 DEF HoldsNumber, Others, Numbered
<1>7. FileWritten' BY <1>1, <1>2, <1>4 DEF FileWritten, Others, Path
<1>8. SoleHolderKeepsFile' BY <1>2, <1>3 DEF SoleHolderKeepsFile, Path
<1> QED BY <1>5, <1>6, <1>7, <1>8

\* A generation's steps keep files with their documents.
LEMMA GenerationFiles ==
    ASSUME TypeOK, LockInv, RowInv, FileInv, NEW q \in Requests, GenerationStep(q)
    PROVE  FileInv'
<1>1. CASE ReadProfile(q) \/ MaterializeConflict(q) \/ ReuseExisting(q) \/ FindNone(q)
           \/ RenderRaises(q) \/ Rollback(q)
  <2>1. PICK pc \in Running \cup {"done"} :
           /\ Goto(q, pc) /\ pc \notin {"render", "insert", "commit"}
           /\ pc \in Numbered => tx[q].pc \in Numbered
    BY <1>1 DEF ReadProfile, MaterializeConflict, ReuseExisting, FindNone, RenderRaises,
                Rollback, At, Running, Numbered
  <2>2. tx[q].pc \notin {"done", "check"} /\ UNCHANGED <<rows, files, handed>>
    BY <1>1 DEF ReadProfile, MaterializeConflict, ReuseExisting, FindNone, RenderRaises,
                Rollback, At, database
  <2>3. \A r \in rows : r.status # "FAILED" => r.content.by # q BY <2>2, NoRowYet
  <2> QED BY <2>1, <2>2, <2>3, MovingFiles
<1>2. CASE LookBeforeRemoving(q)
  <2>1. PICK readable \in BOOLEAN :
           Goto(q, IF readable /\ ~Referenced(Path(Rendered(q))) THEN "unlink" ELSE "done")
    BY <1>2 DEF LookBeforeRemoving
  <2>2. tx[q].pc = "check" /\ UNCHANGED <<rows, files, handed>>
    BY <1>2 DEF LookBeforeRemoving, At, database
  <2>3. CASE readable /\ ~Referenced(Path(Rendered(q)))
    <3>1. \A r \in rows : r.status # "FAILED" => r.content.by # q
      BY <2>2, <2>3 DEF FileInv, RowOfRequest, Referenced
    <3> QED BY <2>1, <2>2, <2>3, <3>1, MovingFiles DEF Running, Numbered
  <2>4. CASE ~(readable /\ ~Referenced(Path(Rendered(q))))
    BY <2>1, <2>2, <2>4, MovingFiles DEF Numbered
  <2> QED BY <2>3, <2>4
<1>3. CASE MaterializeProfile(q)
  <2>1. Others(q) /\ tx'[q].pc = "find" BY <1>3, MaterializeRow
  <2>2. tx[q].pc = "materialize" /\ UNCHANGED <<rows, files, handed>>
    BY <1>3 DEF MaterializeProfile, At
  <2>3. \A r \in rows : r.status # "FAILED" => r.content.by # q BY <2>2, NoRowYet
  <2> QED BY <2>1, <2>2, <2>3, FileFrame DEF Written, Numbered
<1>4. CASE Allocate(q)
  <2>1. Others(q) /\ tx'[q].pc = "render" /\ Same(q) BY <1>4, GotoRow DEF Allocate, Running
  <2>2. tx[q].pc = "allocate" /\ UNCHANGED <<rows, files>> BY <1>4 DEF Allocate, At, database
  <2>3. handed' = [handed EXCEPT ![Number(q)] = @ \cup {q}] BY <1>4 DEF Allocate
  <2>4. /\ tx[q].read \in Settings /\ tx[q].read.next <= MaxNumber
    BY <1>4 DEF Allocate, TypeOK, Transaction
  <2>5. Number(q) \in Numbers BY <2>4 DEF Number, Numbers, Settings
  <2>6. Number(q)' = Number(q) BY <2>1 DEF Number, Same
  <2>7. /\ \A n \in Numbers : handed[n] \subseteq handed'[n]
        /\ q \in handed'[Number(q)]
    BY <2>3, <2>5 DEF TypeOK
  <2>8. \A r \in rows : r.status # "FAILED" => r.content.by # q BY <2>2, NoRowYet
  <2> QED BY <2>1, <2>2, <2>6, <2>7, <2>8, FileFrame DEF Written
<1>5. CASE Insert(q)
  <2>1. Others(q) /\ tx'[q].pc = "commit" /\ Rendered(q)' = Rendered(q) /\ Number(q)' = Number(q)
    BY <1>5, InsertRow
  <2>2. tx[q].pc = "insert" /\ UNCHANGED <<rows, files, handed>>
    BY <1>5 DEF Insert, At, database
  <2>3. \A r \in rows : r.status # "FAILED" => r.content.by # q BY <2>2, NoRowYet
  <2>4. q \in (handed[Number(q)])' BY <2>1, <2>2 DEF FileInv, HoldsNumber, Numbered
  <2>5. Written(q) BY <2>2 DEF Written
  <2> QED BY <2>1, <2>2, <2>3, <2>4, <2>5, FileFrame
<1> QED BY <1>1, <1>2, <1>3, <1>4, <1>5, WriteKeepsFiles, FailureKeepsFiles, CommitKeepsFiles,
           RemoveKeepsFiles DEF GenerationStep

\* Every step keeps them.
LEMMA StepFiles == ASSUME TypeOK, LockInv, RowInv, FileInv, [Next]_vars PROVE FileInv'
<1>1. ASSUME NEW q \in Requests, NEW c \in Campaigns, NEW t \in Types, Open(q, c, t)
      PROVE  FileInv'
  <2>1. Others(q) /\ tx'[q].pc \in {"profile", "find"} BY <1>1, OpenRow
  <2>2. tx[q].pc = "idle" /\ UNCHANGED <<rows, files, handed>> BY <1>1 DEF Open, At, database
  <2>3. \A r \in rows : r.status # "FAILED" => r.content.by # q BY <2>2, NoRowYet
  <2> QED BY <2>1, <2>2, <2>3, FileFrame DEF Written, Numbered
<1>2. ASSUME NEW q \in Requests, NEW image \in Images, WriteLogo(q, image) PROVE FileInv'
  <2>1. Others(q) /\ tx'[q].pc = "logo" BY <1>2, WriteLogoRow
  <2>2. /\ tx[q].pc = "idle" /\ UNCHANGED <<rows, files>>
        /\ handed' = [handed EXCEPT ![image] = @ \cup {q}]
    BY <1>2 DEF WriteLogo, At, database
  <2>3. \A n \in Numbers : handed[n] \subseteq handed'[n] BY <2>2 DEF TypeOK
  <2>4. \A r \in rows : r.status # "FAILED" => r.content.by # q BY <2>2, NoRowYet
  <2> QED BY <2>1, <2>2, <2>3, <2>4, FileFrame DEF Written, Numbered
<1>3. ASSUME NEW q \in Requests, LogoStep(q) PROVE FileInv'
  <2>1. PICK pc \in {"logo_check", "logo_unlink", "done"} : Goto(q, pc)
    BY <1>3 DEF LogoStep, CommitLogo, RollbackLogo, LookBeforeRemovingLogo, RemoveLogo,
                AfterFailedUpload
  <2>2. tx[q].pc \in WithLogo /\ UNCHANGED <<rows, files, handed>>
    BY <1>3 DEF LogoStep, CommitLogo, RollbackLogo, LookBeforeRemovingLogo, RemoveLogo, At,
                WithLogo, database
  <2>3. \A r \in rows : r.status # "FAILED" => r.content.by # q BY <2>2, NoRowYet DEF WithLogo
  <2> QED BY <2>1, <2>2, <2>3, MovingFiles DEF Running, Numbered
<1>4. ASSUME NEW q \in Requests, Crash(q) PROVE FileInv'
  BY <1>4, MovingFiles DEF Crash, database, Numbered
<1>5. ASSUME UNCHANGED <<rows, files, handed, tx>> PROVE FileInv'
  BY <1>5 DEF FileInv, RowOfRequest, HoldsNumber, FileWritten, SoleHolderKeepsFile, Rendered,
              Number, Path
<1>6. CASE Command \/ UNCHANGED vars
  BY <1>5, <1>6 DEF Command, UpdateSettings, Close, Reapprove, vars, database
<1> QED BY <1>1, <1>2, <1>3, <1>4, <1>6, GenerationFiles, VictimAborts DEF Next

-----------------------------------------------------------------------------
(* Logos.                                                                  *)

\* At first there is no logo.
LEMMA InitLogos == ASSUME Init PROVE LogoInv
<1>1. \A q \in Requests : tx[q].pc = "idle" BY DEF Init, Blank
<1>2. settings.logo = None BY DEF Init
<1> QED BY <1>1, <1>2 DEF LogoInv, HoldsImage, LogoWritten, WithLogo, LogoIsThere

\* A step of q that keeps the logo and its files.
LEMMA LogoFrame ==
    ASSUME TypeOK, LockInv, LogoInv, NEW q \in Requests, Others(q),
           settings'.logo = settings.logo, logos \subseteq logos',
           \A image \in Images : handed[image] \subseteq handed'[image],
           tx'[q].pc \in WithLogo => q \in handed'[tx'[q].image],
           tx'[q].pc = "logo" => tx'[q].image \in logos',
           tx'[q].pc = "logo_unlink" => settings.logo # tx'[q].image
    PROVE  LogoInv'
<1> USE DEF LogoInv
<1>1. HoldsImage'
  BY DEF HoldsImage, Others, LockInv, Subjects
<1>2. LogoWritten'
  <2> SUFFICES ASSUME NEW p \in Requests, tx'[p].pc \in WithLogo, handed'[tx'[p].image] = {p}
               PROVE  /\ tx'[p].pc = "logo" => tx'[p].image \in logos'
                      /\ tx'[p].pc = "logo_unlink" => settings'.logo # tx'[p].image
    BY DEF LogoWritten
  <2>1. CASE p = q BY <2>1
  <2>2. CASE p # q
    <3>1. tx'[p] = tx[p] /\ tx[p].image \in Images BY <2>2 DEF Others, LockInv, Subjects
    <3>2. p \in handed[tx[p].image] BY <3>1 DEF HoldsImage
    <3>3. handed[tx[p].image] = {p} BY <3>1, <3>2
    <3> QED BY <3>1, <3>3 DEF LogoWritten
  <2> QED BY <2>1, <2>2
<1>3. LogoIsThere'
  <2> SUFFICES ASSUME NEW image \in Images, settings'.logo = image,
                      NEW p \in Requests, handed'[image] = {p}
               PROVE  image \in logos'
    BY DEF LogoIsThere
  <2>1. handed[image] # {} BY DEF HoldsImage
  <2>2. handed[image] = {p} BY <2>1
  <2> QED BY <2>2 DEF LogoIsThere
<1> QED BY <1>1, <1>2, <1>3

\* An upload's steps keep the logo that the settings name, ...
LEMMA LogoLogos == ASSUME TypeOK, LockInv, LogoInv, NEW q \in Requests, LogoStep(q) PROVE LogoInv'
<1> USE DEF LogoInv
<1>1. PICK pc \in {"logo_check", "logo_unlink", "done"} : Goto(q, pc)
  BY DEF LogoStep, CommitLogo, RollbackLogo, LookBeforeRemovingLogo, RemoveLogo,
         AfterFailedUpload
<1>2. Others(q) /\ tx'[q].pc = pc /\ (pc # "done" => Same(q)) BY <1>1, GotoRow DEF Running
<1>3. tx[q].pc \in WithLogo /\ UNCHANGED handed
  BY DEF LogoStep, CommitLogo, RollbackLogo, LookBeforeRemovingLogo, RemoveLogo, At, WithLogo
<1>4. tx[q].image \in Images /\ q \in handed[tx[q].image]
  BY <1>3 DEF LockInv, Subjects, HoldsImage
<1>5. tx'[q].pc \in WithLogo => q \in handed'[tx'[q].image]
  BY <1>2, <1>3, <1>4 DEF Same, WithLogo
<1>6. CASE RollbackLogo(q)
  <2>1. pc # "logo_unlink" /\ UNCHANGED <<settings, logos>>
    BY <1>1, <1>2, <1>6, GotoRow DEF RollbackLogo, AfterFailedUpload, database, Running
  <2> QED BY <1>2, <1>3, <1>5, <2>1, LogoFrame
<1>7. CASE LookBeforeRemovingLogo(q)
  <2>1. UNCHANGED <<settings, logos>> BY <1>7 DEF LookBeforeRemovingLogo, database
  <2>2. tx'[q].pc = "logo_unlink" => settings.logo # tx[q].image
    BY <1>7, GotoRow DEF LookBeforeRemovingLogo, IsLogo, Running
  <2>3. tx'[q].pc = "logo_unlink" => settings.logo # tx'[q].image BY <1>2, <2>2 DEF Same
  <2> QED BY <1>2, <1>3, <1>5, <2>1, <2>3, LogoFrame
<1>8. CASE RemoveLogo(q)
  <2>1. /\ tx[q].pc = "logo_unlink" /\ UNCHANGED settings
        /\ logos' = logos \ {tx[q].image}
    BY <1>8 DEF RemoveLogo, At, database
  <2>2. tx'[q].pc = "done" BY <1>8, GotoRow DEF RemoveLogo
  <2>3. HoldsImage' BY <1>2, <1>3, <2>1, <2>2 DEF HoldsImage, Others, WithLogo
  <2>4. LogoWritten'
    BY <1>2, <1>3, <1>4, <2>1, <2>2 DEF LogoWritten, Others, WithLogo
  <2>5. LogoIsThere'
    BY <1>3, <1>4, <2>1 DEF LogoIsThere, LogoWritten, WithLogo
  <2> QED BY <2>3, <2>4, <2>5
<1>9. ASSUME NEW answered \in BOOLEAN, CommitLogo(q, answered) PROVE LogoInv'
  <2>1. /\ tx[q].pc = "logo" /\ settings' = [settings EXCEPT !.logo = tx[q].image]
        /\ UNCHANGED logos
    BY <1>9 DEF CommitLogo, At
  <2>2. settings'.logo = tx[q].image BY <2>1 DEF TypeOK, Settings
  <2>3. tx'[q].pc \in {"done", "logo_check"}
    BY <1>9, GotoRow DEF CommitLogo, AfterFailedUpload, Running
  <2>4. HoldsImage'
    BY <1>2, <1>3, <1>4, <1>5, <2>2 DEF HoldsImage, Others
  <2>5. LogoWritten'
    BY <1>2, <1>3, <1>4, <2>1, <2>2, <2>3 DEF LogoWritten, Others, WithLogo
  <2>6. LogoIsThere'
    BY <1>3, <1>4, <2>1, <2>2 DEF LogoIsThere, LogoWritten, WithLogo
  <2> QED BY <2>4, <2>5, <2>6
<1> QED BY <1>6, <1>7, <1>8, <1>9 DEF LogoStep

\* ... and so do those of a generation.
LEMMA GenerationLogos ==
    ASSUME TypeOK, LockInv, LogoInv, NEW q \in Requests, GenerationStep(q) PROVE LogoInv'
<1>1. UNCHANGED logos
  BY DEF GenerationStep, ReadProfile, MaterializeProfile, MaterializeConflict, ReuseExisting,
         FindNone, Allocate, RenderAndWrite, RenderRaises, RecordFailure, Insert, Commit, Rollback,
         LookBeforeRemoving, RemoveFile
<1>2. settings'.logo = settings.logo
  <2>1. CASE UNCHANGED settings BY <2>1
  <2>2. CASE ~UNCHANGED settings
    <3>1. settings' = CounterWritten(q) /\ tx[q].pc \in Numbered
      BY <2>2 DEF GenerationStep, ReadProfile, MaterializeProfile, MaterializeConflict,
         ReuseExisting, FindNone, Allocate, RenderAndWrite, RenderRaises, RecordFailure, Insert, Commit,
         Rollback, LookBeforeRemoving, RemoveFile, database, At, Numbered
    <3> QED BY <3>1, RenderedType DEF LockInv
  <2> QED BY <2>1, <2>2
<1>3. \A image \in Images : handed[image] \subseteq handed'[image]
  <2>1. CASE UNCHANGED handed BY <2>1
  <2>2. CASE Allocate(q) BY <2>2 DEF Allocate, TypeOK
  <2> QED BY <2>1, <2>2
    DEF GenerationStep, ReadProfile, MaterializeProfile, MaterializeConflict, ReuseExisting,
         FindNone, RenderAndWrite, RenderRaises, RecordFailure, Insert, Commit, Rollback, LookBeforeRemoving,
         RemoveFile
<1>4. Others(q) /\ tx'[q].pc \notin WithLogo
  <2>1. CASE MaterializeProfile(q) \/ Insert(q)
    BY <2>1, MaterializeRow, InsertRow DEF WithLogo
  <2>2. CASE ~(MaterializeProfile(q) \/ Insert(q))
    <3>1. PICK pc \in Running \cup {"done"} : Goto(q, pc) /\ pc \notin WithLogo
      BY <2>2 DEF GenerationStep, ReadProfile, MaterializeConflict, ReuseExisting, FindNone,
         Allocate, RenderAndWrite, RenderRaises, RecordFailure, Commit, Rollback, LookBeforeRemoving,
         RemoveFile, Running, WithLogo
    <3> QED BY <3>1, GotoRow
  <2> QED BY <2>1, <2>2
<1> QED BY <1>1, <1>2, <1>3, <1>4, LogoFrame DEF WithLogo

\* Every step keeps it.
LEMMA StepLogos == ASSUME TypeOK, LockInv, LogoInv, [Next]_vars PROVE LogoInv'
<1>1. ASSUME NEW q \in Requests, NEW c \in Campaigns, NEW t \in Types, Open(q, c, t)
      PROVE  LogoInv'
  <2>1. Others(q) /\ tx'[q].pc \notin WithLogo BY <1>1, OpenRow DEF WithLogo
  <2>2. UNCHANGED <<settings, logos, handed>> BY <1>1 DEF Open, database
  <2> QED BY <2>1, <2>2, LogoFrame DEF WithLogo
<1>2. ASSUME NEW q \in Requests, NEW image \in Images, WriteLogo(q, image) PROVE LogoInv'
  <2>1. Others(q) /\ tx'[q].pc = "logo" /\ tx'[q].image = image BY <1>2, WriteLogoRow
  <2>2. /\ UNCHANGED settings /\ logos' = logos \cup {image}
        /\ handed' = [handed EXCEPT ![image] = @ \cup {q}]
    BY <1>2 DEF WriteLogo, database
  <2>3. /\ \A i \in Images : handed[i] \subseteq handed'[i]
        /\ q \in handed'[image]
    BY <2>2 DEF TypeOK
  <2> QED BY <2>1, <2>2, <2>3, LogoFrame
<1>3. ASSUME NEW q \in Requests, Crash(q) PROVE LogoInv'
  <2>1. Others(q) /\ tx'[q].pc = "done" BY <1>3, GotoRow DEF Crash
  <2>2. UNCHANGED <<settings, logos, handed>> BY <1>3 DEF Crash, database
  <2> QED BY <2>1, <2>2, LogoFrame DEF WithLogo
<1>4. ASSUME settings'.logo = settings.logo, UNCHANGED <<logos, handed, tx>> PROVE LogoInv'
  BY <1>4 DEF LogoInv, HoldsImage, LogoWritten, LogoIsThere
<1>5. ASSUME NEW name \in Names \cup {None}, NEW prefix \in Prefixes,
             UpdateSettings(name, prefix)
      PROVE  LogoInv'
  <2>1. settings'.logo = settings.logo BY <1>5 DEF UpdateSettings, TypeOK, Settings
  <2> QED BY <1>4, <1>5, <2>1 DEF UpdateSettings
<1>6. ASSUME NEW c \in Campaigns, Close(c) \/ Reapprove(c) PROVE LogoInv'
  BY <1>4, <1>6 DEF Close, Reapprove
<1>7. CASE UNCHANGED vars BY <1>4, <1>7 DEF vars, database
<1> QED BY <1>1, <1>2, <1>3, <1>5, <1>6, <1>7, GenerationLogos, LogoLogos, VictimAborts DEF Next, Command

-----------------------------------------------------------------------------
(* The theorems.                                                           *)

DocumentInv == TypeOK /\ LockInv /\ RowInv /\ FileInv /\ LogoInv

\* The invariant is inductive.
LEMMA Inductive == Spec => []DocumentInv
<1>1. Init => DocumentInv
  BY InitType, InitLocks, InitRows, InitFiles, InitLogos DEF DocumentInv
<1>2. DocumentInv /\ [Next]_vars => DocumentInv'
  BY StepType, StepLocks, StepRows, StepFiles, StepLogos DEF DocumentInv, LockInv
<1> QED BY <1>1, <1>2, PTL DEF Spec

\* Campaigns, settings, documents, files and requests stay of their types.
THEOREM TypeCorrect == Spec => []TypeOK
<1>1. DocumentInv => TypeOK BY DEF DocumentInv
<1> QED BY <1>1, Inductive, PTL

\* Of all the generations of a campaign, also those whose lock get_profile
\* committed away, one document of a type is official: Insert and Commit
\* supersede what they find under the settings row's lock.
THEOREM OneIsOfficial == Spec => []OneOfficial
<1>1. DocumentInv => OneOfficial BY DEF DocumentInv, RowInv
<1> QED BY <1>1, Inductive, PTL

\* close_campaign asks for the required documents once, and they stay.
THEOREM ClosedStaysDocumented == Spec => []ClosedIsDocumented
<1>1. DocumentInv => ClosedIsDocumented BY DEF DocumentInv, RowInv
<1> QED BY <1>1, Inductive, PTL

\* No cleanup, crash or other request harms the file of a document whose
\* number nobody else was handed.
THEOREM FileOfSoleHolder == Spec => []SoleHolderKeepsFile
<1>1. DocumentInv => SoleHolderKeepsFile BY DEF DocumentInv, FileInv
<1> QED BY <1>1, Inductive, PTL

\* Nor the logo that one upload alone has written.
THEOREM LogoOfSoleUpload == Spec => []LogoIsThere
<1>1. DocumentInv => LogoIsThere BY DEF DocumentInv, LogoInv
<1> QED BY <1>1, Inductive, PTL

\* Requests each of which waits for another of them.
Circle(S) == S # {} /\ \A q \in S : \E p \in S : Waits(q, p)

\* In every circle of waits two generations of one campaign wait for each
\* other, and the one that has the settings row had committed its lock of the
\* campaign away.
CirclesAreOfLostLocks ==
    \A S \in SUBSET Requests : Circle(S) => \E q, p \in S :
        /\ Waits(q, p) /\ Waits(p, q) /\ tx[q].campaign = tx[p].campaign
        /\ settingsLock = q /\ tx[q].lost

\* So a deadlock of any number of requests is one of two, which Deadlocked
\* sees and PostgreSQL ends, and only a generation that created the export
\* profile brings one about.
THEOREM CirclesAreOfTwo == Spec => []CirclesAreOfLostLocks
<1>1. DocumentInv => CirclesAreOfLostLocks
  <2> SUFFICES ASSUME DocumentInv, NEW S \in SUBSET Requests, Circle(S)
               PROVE  \E q, p \in S :
                         /\ Waits(q, p) /\ Waits(p, q) /\ tx[q].campaign = tx[p].campaign
                         /\ settingsLock = q /\ tx[q].lost
    BY DEF CirclesAreOfLostLocks
  <2> USE DEF DocumentInv, LockInv
  <2>1. ASSUME NEW q \in Requests, Inserting(q) PROVE settingsLock = q
    BY <2>1 DEF Inserting, At, SettingsHeld, InSettings
  <2>2. ASSUME NEW q \in S, settingsLock # q
        PROVE  At(q, "allocate") /\ settingsLock \in S
    <3>1. PICK p \in S : Waits(q, p) BY DEF Circle
    <3>2. ~Inserting(q) BY <2>1, <2>2
    <3> QED BY <3>1, <3>2 DEF Waits
  <2>3. PICK q \in S : settingsLock = q BY <2>2 DEF Circle
  <2>4. PICK p \in S : Waits(q, p) BY DEF Circle
  <2>5. ~At(q, "allocate") BY <2>3 DEF At, SettingsHeld, InSettings
  <2>6. Inserting(q) /\ p # q /\ campaignLock[tx[q].campaign] = p BY <2>4, <2>5 DEF Waits
  <2>7. tx[q].pc \in Generating BY <2>6 DEF Inserting, At, Generating
  <2>8. tx[q].campaign \in Campaigns BY <2>7 DEF Subjects
  <2>9. tx[p].campaign = tx[q].campaign BY <2>6, <2>8 DEF CampaignHeld
  <2>10. tx[q].lost BY <2>6, <2>7 DEF CampaignHeld
  <2>11. Waits(p, q) BY <2>2, <2>3, <2>6 DEF Waits
  <2> QED BY <2>3, <2>4, <2>9, <2>10, <2>11
<1> QED BY <1>1, Inductive, PTL

\* A closed campaign gets no document, and none of its documents changes, but
\* by a generation that committed its lock away.
THEOREM ClosedStaysFrozen == Spec => ClosedIsFrozen
<1> DEFINE Frozen == \A c \in Campaigns :
              campaign[c].status = "CLOSED" /\ DocumentsOf(c)' # DocumentsOf(c) =>
                  \E q \in Requests : tx[q].campaign = c /\ tx[q].lost
<1>1. DocumentInv /\ [Next]_vars => [Frozen]_vars
  <2> SUFFICES ASSUME DocumentInv, Next, NEW c \in Campaigns,
                      campaign[c].status = "CLOSED", DocumentsOf(c)' # DocumentsOf(c)
               PROVE  \E q \in Requests : tx[q].campaign = c /\ tx[q].lost
    OBVIOUS
  <2>0. TypeOK /\ LockInv /\ RowInv BY DEF DocumentInv
  <2>1. rows' # rows BY DEF DocumentsOf
  <2>2. PICK q \in Requests : RecordFailure(q) \/ \E answered \in BOOLEAN : Commit(q, answered)
    BY <2>1, VictimAborts DEF Next, Command, GenerationStep, LogoStep, Open, WriteLogo, ReadProfile,
         MaterializeProfile, MaterializeConflict, ReuseExisting, FindNone, Allocate,
         RenderAndWrite, RenderRaises, Insert, Rollback, LookBeforeRemoving, RemoveFile, CommitLogo,
         RollbackLogo, LookBeforeRemovingLogo, RemoveLogo, UpdateSettings, Close, Reapprove,
         Crash, database
  <2>3. tx[q].pc \in {"record", "commit"} BY <2>2 DEF RecordFailure, Commit, At
  <2>4. tx[q].campaign = c
    <3>1. CASE RecordFailure(q)
      <4> DEFINE new == [content |-> Rendered(q), status |-> "FAILED"]
      <4>1. rows' = rows \cup {new} BY <2>1, <3>1 DEF RecordFailure
      <4>2. new.content.campaign = tx[q].campaign BY DEF Rendered
      <4> HIDE DEF new
      <4>3. CASE new.content.campaign # c BY <4>1, <4>3 DEF DocumentsOf
      <4> QED BY <4>2, <4>3
    <3>2. ASSUME NEW answered \in BOOLEAN, Commit(q, answered) PROVE tx[q].campaign = c
      <4> DEFINE new == [content |-> Rendered(q), status |-> "GENERATED"]
      <4>1. /\ rows' = (rows \ Previous(q)) \cup {Superseded(r) : r \in Previous(q)} \cup {new}
            /\ Previous(q) \subseteq rows /\ rows \subseteq Row
            /\ \A r \in Row : Superseded(r).content = r.content
        <5>1. rows \subseteq Row BY <2>0 DEF TypeOK
        <5> QED BY <2>0, <3>2, <5>1, CommitRows
      <4>2. new.content.campaign = tx[q].campaign BY DEF Rendered
      <4> HIDE DEF new
      <4>3. \A r \in Previous(q) : /\ r.content.campaign = tx[q].campaign
                                   /\ Superseded(r).content.campaign = tx[q].campaign
        BY <4>1 DEF Previous, Official
      <4>4. CASE tx[q].campaign # c
        <5>1. \A r : r \in DocumentsOf(c)' <=> r \in DocumentsOf(c)
          BY <4>1, <4>2, <4>3, <4>4 DEF DocumentsOf
        <5> QED BY <5>1
      <4> QED BY <4>4
    <3> QED BY <2>2, <3>1, <3>2
  <2>5. tx[q].lost
    <3>1. ~tx[q].lost => campaign[tx[q].campaign].status = "APPROVED"
      BY <2>0, <2>3 DEF LockInv, CampaignHeld, Generating
    <3> QED BY <2>4, <3>1
  <2> QED BY <2>4, <2>5
<1> QED BY <1>1, Inductive, PTL DEF Spec, ClosedIsFrozen

-----------------------------------------------------------------------------
(* The documents implement the register.                                   *)

Current == [c \in Campaigns |-> [t \in Types |-> {r.content.number : r \in Official(c, t)}]]
Used == {r.content.number : r \in rows}
Closed == {c \in Campaigns : campaign[c].status = "CLOSED"}

\* A commit publishes.
LEMMA CommitPublishes ==
    ASSUME DocumentInv, NEW q \in Requests, NEW answered \in BOOLEAN, Commit(q, answered),
           NEW c \in Campaigns, c = tx[q].campaign, NEW t \in Types, t = tx[q].type,
           NEW n \in Numbers, n = Number(q)
    PROVE  Register!Publish(c, t, n)
<1>0. TypeOK /\ LockInv /\ RowInv BY DEF DocumentInv
<1> DEFINE new == [content |-> Rendered(q), status |-> "GENERATED"]
<1>1. /\ ~Taken(Number(q))
      /\ rows' = (rows \ Previous(q)) \cup {Superseded(r) : r \in Previous(q)} \cup {new}
      /\ Previous(q) \subseteq rows /\ rows \subseteq Row
      /\ \A r \in Row : Superseded(r).content = r.content
  <2>1. rows \subseteq Row BY <1>0 DEF TypeOK
  <2> QED BY <1>0, <2>1, CommitRows
<1>2. \A d \in Campaigns, u \in Types :
         Official(d, u)' = IF d = c /\ u = t THEN {new} ELSE Official(d, u)
  BY <1>0, CommitOfficial
<1>3. new.content.number = n BY DEF Rendered
<1> HIDE DEF new
<1>4. n \notin Used BY <1>1 DEF Taken, Used
<1>5. Used' = Used \cup {n}
  <2>1. \A m : m \in Used' <=> m \in Used \/ m = n
    <3>1. ASSUME NEW r \in rows PROVE \E s \in rows' : s.content.number = r.content.number
      <4>1. CASE r \in Previous(q)
        <5>1. Superseded(r) \in rows' /\ Superseded(r).content = r.content BY <1>1, <4>1
        <5> QED BY <5>1
      <4>2. CASE r \notin Previous(q) BY <1>1, <4>2
      <4> QED BY <4>1, <4>2
    <3>2. ASSUME NEW s \in rows', s # new
          PROVE  \E r \in rows : r.content.number = s.content.number
      BY <1>1, <3>2
    <3>3. new \in rows' BY <1>1
    <3> QED BY <1>3, <3>1, <3>2, <3>3 DEF Used
  <2> QED BY <2>1
<1>6. Current' = [Current EXCEPT ![c][t] = {n}]
  <2>1. \A d \in Campaigns, u \in Types : {r.content.number : r \in Official(d, u)'} =
            IF d = c /\ u = t THEN {n} ELSE {r.content.number : r \in Official(d, u)}
    BY <1>2, <1>3
  <2>2. \A d \in Campaigns, u \in Types :
            Current'[d][u] = IF d = c /\ u = t THEN {n} ELSE Current[d][u]
    BY <2>1 DEF Current
  <2>3. Current' = [d \in Campaigns |-> [u \in Types |->
                       IF d = c /\ u = t THEN {n} ELSE Current[d][u]]]
    BY <2>1 DEF Current
  <2>4. [Current EXCEPT ![c][t] = {n}] =
            [d \in Campaigns |-> [u \in Types |->
                IF d = c /\ u = t THEN {n} ELSE Current[d][u]]]
    BY <1>1 DEF Current
  <2> QED BY <2>3, <2>4
<1>7. UNCHANGED Closed BY DEF Commit, Closed
<1> QED BY <1>4, <1>5, <1>6, <1>7 DEF Register!Publish, Current, Used, Closed

\* A document that failed keeps its number.
LEMMA FailureSpoils ==
    ASSUME DocumentInv, NEW q \in Requests, RecordFailure(q), ~Taken(Number(q)),
           NEW n \in Numbers, n = Number(q)
    PROVE  Register!Spoil(n)
<1> DEFINE new == [content |-> Rendered(q), status |-> "FAILED"]
<1>1. rows' = rows \cup {new} /\ UNCHANGED campaign BY DEF RecordFailure
<1>2. new.content.number = n /\ new.status = "FAILED" BY DEF Rendered
<1> HIDE DEF new
<1>3. n \notin Used BY DEF Taken, Used
<1>4. Used' = Used \cup {n} BY <1>1, <1>2 DEF Used
<1>5. \A c \in Campaigns, t \in Types : Official(c, t)' = Official(c, t)
  BY <1>1, <1>2 DEF Official
<1>6. UNCHANGED <<Current, Closed>> BY <1>1, <1>5 DEF Current, Closed
<1> QED BY <1>3, <1>4, <1>6 DEF Register!Spoil, Current, Used, Closed

\* Every step of the documents is one of the register, or none.
LEMMA StepOfRegister ==
    ASSUME DocumentInv, [Next]_vars PROVE [Register!RegisterNext]_(Register!rvars)
<1>1. ASSUME UNCHANGED <<rows, campaign>> PROVE UNCHANGED Register!rvars
  BY <1>1 DEF Register!rvars, Official
<1>2. ASSUME NEW q \in Requests, NEW answered \in BOOLEAN, Commit(q, answered)
      PROVE  Register!RegisterNext
  <2>1. tx[q].pc = "commit" BY <1>2 DEF Commit, At
  <2>2. Number(q) \in Numbers /\ tx[q].campaign \in Campaigns /\ tx[q].type \in Types
    BY <2>1, RenderedType DEF DocumentInv, LockInv, Subjects, Numbered, Generating
  <2>3. PICK n \in Numbers, c \in Campaigns, t \in Types :
           n = Number(q) /\ c = tx[q].campaign /\ t = tx[q].type
    BY <2>2
  <2>4. Register!Publish(c, t, n) BY <1>2, <2>3, CommitPublishes
  <2> QED BY <2>4 DEF Register!RegisterNext
<1>3. ASSUME NEW q \in Requests, RecordFailure(q) PROVE [Register!RegisterNext]_(Register!rvars)
  <2>1. CASE Taken(Number(q)) BY <1>1, <1>3, <2>1 DEF RecordFailure
  <2>2. CASE ~Taken(Number(q))
    <3>1. tx[q].pc = "record" BY <1>3 DEF RecordFailure, At
    <3>2. Number(q) \in Numbers BY <3>1, RenderedType DEF DocumentInv, LockInv, Numbered
    <3>3. PICK n \in Numbers : n = Number(q) BY <3>2
    <3>4. Register!Spoil(n) BY <1>3, <2>2, <3>3, FailureSpoils
    <3> QED BY <3>4 DEF Register!RegisterNext
  <2> QED BY <2>1, <2>2
<1>4. ASSUME NEW c \in Campaigns, Close(c) PROVE Register!RegisterNext
  <2>1. \A t \in Types : Official(c, t) # {} BY <1>4 DEF Close, DocumentedAll
  <2>2. \A t \in Types : Current[c][t] # {} BY <2>1 DEF Current
  <2>3. Closed' = Closed \cup {c} BY <1>4 DEF Close, Closed, DocumentInv, TypeOK
  <2>4. UNCHANGED <<Current, Used>> BY <1>4 DEF Close, Current, Used, Official
  <2>5. Register!Conclude(c)
    BY <2>2, <2>3, <2>4 DEF Register!Conclude, Current, Used, Closed
  <2> QED BY <2>5 DEF Register!RegisterNext
<1>5. ASSUME NEW c \in Campaigns, Reapprove(c) PROVE Register!RegisterNext
  <2>1. Closed' = Closed \ {c} BY <1>5 DEF Reapprove, Closed, DocumentInv, TypeOK
  <2>2. UNCHANGED <<Current, Used>> BY <1>5 DEF Reapprove, Current, Used, Official
  <2>3. Register!Reopen(c) BY <2>1, <2>2 DEF Register!Reopen, Current, Used, Closed
  <2> QED BY <2>3 DEF Register!RegisterNext
<1>6. CASE \E q \in Requests : GenerationStep(q)
  <2>1. PICK q \in Requests : GenerationStep(q) BY <1>6
  <2>2. CASE UNCHANGED <<rows, campaign>> BY <1>1, <2>2
  <2>3. CASE RecordFailure(q) \/ \E answered \in BOOLEAN : Commit(q, answered)
    BY <1>2, <1>3, <2>3
  <2> QED BY <2>1, <2>2, <2>3
    DEF GenerationStep, ReadProfile, MaterializeProfile, MaterializeConflict, ReuseExisting,
        FindNone, Allocate, RenderAndWrite, RenderRaises, Insert, Rollback, LookBeforeRemoving, RemoveFile,
        database
<1>7. CASE \E q \in Requests : \/ \E c \in Campaigns, t \in Types : Open(q, c, t)
                               \/ \E image \in Images : WriteLogo(q, image)
                               \/ LogoStep(q) \/ Crash(q)
  BY <1>1, <1>7 DEF Open, WriteLogo, LogoStep, CommitLogo, RollbackLogo,
        LookBeforeRemovingLogo, RemoveLogo, Crash, database
<1>8. CASE \E name \in Names \cup {None}, prefix \in Prefixes : UpdateSettings(name, prefix)
  BY <1>1, <1>8 DEF UpdateSettings
<1>9. CASE UNCHANGED vars BY <1>1, <1>9 DEF vars, database
<1> QED BY <1>4, <1>5, <1>6, <1>7, <1>8, <1>9, VictimAborts DEF Next, Command

\* Whatever fails, dies, overlaps or is replaced, the documents keep what a
\* reader of the register is promised.
THEOREM RegisterImplemented == Spec => ImplementsRegister
<1>1. Init => Register!RegisterInit
  BY DEF Init, Register!RegisterInit, Official
<1>2. DocumentInv /\ [Next]_vars => [Register!RegisterNext]_(Register!rvars) BY StepOfRegister
<1> QED BY <1>1, <1>2, Inductive, PTL DEF Spec, ImplementsRegister, Register!RegisterSpec
=============================================================================
