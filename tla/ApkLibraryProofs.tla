-------------------------- MODULE ApkLibraryProofs --------------------------
(***************************************************************************)
(* Proofs about ApkLibrary, for any set of ids, handlers and contents and  *)
(* any of the failures.                                                    *)
(***************************************************************************)
EXTENDS ApkLibrary, TLAPS

(* What the phases of save have established: the strengthening that makes  *)
(* the invariants below inductive.                                         *)
PhasesEarned ==
    \A h \in Handlers : up[h] # Idle =>
        /\ up[h].info # Absent => up[h].info \in Apks
        /\ up[h].pc = "mkdir" => up[h].info = Absent
        /\ up[h].pc \in {"manifest", "writing", "rename", "reply"} => up[h].info # Absent
        /\ up[h].pc = "rename" =>
               staging[up[h].id].meta = [id |-> up[h].id, sha |-> up[h].info]
        /\ up[h].pc = "reply" => /\ published[up[h].id] # Absent
                                 /\ published[up[h].id].apk = up[h].info

IInv == /\ TypeOK
        /\ OneOwner
        /\ StagedAsReceived
        /\ PhasesEarned
        /\ PublishedComplete
        /\ PromisesKept
        /\ DownloadMatches
        /\ ListingReadable

-----------------------------------------------------------------------------
(* Initial state, and two facts about one state.                           *)

LEMMA InitIInv == Init => IInv
  BY DEF Init, IInv, TypeOK, OneOwner, Owns, Idle, StagedAsReceived, PhasesEarned,
         PublishedComplete, PromisesKept, DownloadMatches, ListingReadable

\* A visible release has a release.json that parses.
LEMMA PublishedReadable ==
    ASSUME TypeOK, PublishedComplete, NEW id \in Ids, published[id] # Absent
    PROVE  /\ Readable(id)
           /\ published[id].meta.sha = published[id].apk
           /\ published[id].apk \in Contents
<1>1. published[id].apk \in Contents
  BY ApksAssumption DEF PublishedComplete
<1>2. published[id].meta = [id |-> id, sha |-> published[id].apk]
  BY DEF PublishedComplete
<1> QED BY <1>1, <1>2 DEF Readable, Meta

\* The handler of a running upload is a full record.
LEMMA RunningUpload ==
    ASSUME TypeOK, NEW h \in Handlers, up[h] # Idle
    PROVE  up[h] \in Upload
  BY DEF TypeOK

-----------------------------------------------------------------------------
(* Each step preserves IInv.                                               *)

\* What the server does by itself.
LEMMA FileOperationStep ==
    ASSUME IInv, NEW h \in Handlers, FileOperation(h)
    PROVE  IInv'
<1> USE AbsentAssumption DEF TypeOK, Upload, Idle, Phases, Reading, InFlight, Dir, EmptyDir, Meta,
         disk, readers, Stop, GoOn, Owns,
         IInv, OneOwner, StagedAsReceived, PhasesEarned, PublishedComplete,
         PromisesKept, DownloadMatches, ListingReadable, Readable
<1>1. CASE CreateStaging(h)
  <2>1. up[h] \in Upload /\ up[h].info = Absent
    <3>1. up[h].pc = "mkdir" /\ up[h] # Idle
      BY <1>1 DEF CreateStaging
    <3> QED BY <3>1, RunningUpload
  <2>2. TypeOK' /\ OneOwner' /\ PhasesEarned'
    BY <1>1, <2>1 DEF CreateStaging, StagingFree
  <2>3. StagedAsReceived'
    BY <1>1, <2>1 DEF CreateStaging, StagingFree
  <2> QED BY <1>1, <2>2, <2>3 DEF CreateStaging
<1>2. CASE StagingTaken(h)
  BY <1>2, ApksAssumption, SMTT(30) DEF StagingTaken, StagingFree
<1>3. CASE MkdirFails(h)
  BY <1>3, ApksAssumption, SMTT(30) DEF MkdirFails
<1>4. CASE StartManifest(h)
  BY <1>4, ApksAssumption, SMTT(30) DEF StartManifest
<1>5. CASE FinishManifest(h)
  BY <1>5, ApksAssumption, SMTT(30) DEF FinishManifest
<1>6. CASE Publish(h)
  <2>1. /\ up[h] \in Upload
        /\ staging[up[h].id] # Absent
        /\ staging[up[h].id].apk = up[h].info
        /\ up[h].info \in Apks
        /\ staging[up[h].id].meta = [id |-> up[h].id, sha |-> up[h].info]
    BY <1>6, RunningUpload DEF Publish
  <2>2. TypeOK' /\ OneOwner' /\ StagedAsReceived' /\ PhasesEarned'
    BY <1>6 DEF Publish, Vacant
  <2>3. PublishedComplete'
    <3> SUFFICES ASSUME NEW id \in Ids, published'[id] # Absent
                 PROVE  /\ published'[id].apk \in Apks
                        /\ published'[id].meta = [id |-> id, sha |-> published'[id].apk]
      OBVIOUS
    <3>1. CASE id = up[h].id
      <4>1. published'[id] = staging[id]
        BY <1>6, <3>1 DEF Publish
      <4> QED BY <2>1, <3>1, <4>1
    <3>2. CASE id # up[h].id
      <4>1. published'[id] = published[id]
        BY <1>6, <3>2 DEF Publish
      <4> QED BY <4>1
    <3> QED BY <3>1, <3>2
  <2>4. PromisesKept' /\ DownloadMatches' /\ ListingReadable'
    BY <1>6 DEF Publish, Vacant
  <2> QED BY <2>2, <2>3, <2>4
<1>7. CASE AlreadyPublished(h)
  BY <1>7, ApksAssumption, SMTT(30) DEF AlreadyPublished, Vacant
<1>8. CASE RemoveStaging(h)
  BY <1>8, ApksAssumption, SMTT(30) DEF RemoveStaging, RemoveDir
<1>9. CASE RemoveFails(h)
  BY <1>9, ApksAssumption, SMTT(30) DEF RemoveFails
<1>10. CASE ReplyCreated(h)
  <2>1. /\ up[h] \in Upload
        /\ up[h].info \in Contents
        /\ published[up[h].id] # Absent
        /\ published[up[h].id].apk = up[h].info
    <3>1. up[h].pc = "reply" /\ up[h] # Idle
      BY <1>10 DEF ReplyCreated
    <3>2. up[h] \in Upload
      BY <3>1, RunningUpload
    <3>3. up[h].info \in Apks
      BY <3>1, <3>2
    <3> QED BY <3>1, <3>2, <3>3, ApksAssumption
  <2>2. promised' \subseteq Ids \X Contents
    BY <1>10, <2>1 DEF ReplyCreated
  <2>3. up' \in [Handlers -> Upload \cup {Idle}]
    BY <1>10 DEF ReplyCreated
  <2>4. TypeOK'
    BY <1>10, <2>2, <2>3 DEF ReplyCreated
  <2>5. PromisesKept'
    <3> SUFFICES ASSUME NEW p \in promised'
                 PROVE  published'[p[1]] # Absent /\ published'[p[1]].apk = p[2]
      OBVIOUS
    <3>1. CASE p \in promised
      BY <1>10, <3>1 DEF ReplyCreated
    <3>2. CASE p = <<up[h].id, up[h].info>>
      BY <1>10, <2>1, <3>2 DEF ReplyCreated
    <3> QED BY <1>10, <3>1, <3>2 DEF ReplyCreated
  <2>6. OneOwner' /\ StagedAsReceived' /\ PhasesEarned'
    BY <1>10 DEF ReplyCreated
  <2>7. PublishedComplete' /\ DownloadMatches' /\ ListingReadable'
    BY <1>10 DEF ReplyCreated
  <2> QED BY <2>4, <2>5, <2>6, <2>7
<1> QED BY <1>1, <1>2, <1>3, <1>4, <1>5, <1>6, <1>7, <1>8, <1>9, <1>10 DEF FileOperation

\* What comes from the upload's client.
LEMMA BodyStepStep ==
    ASSUME IInv, NEW h \in Handlers, BodyStep(h)
    PROVE  IInv'
<1> USE AbsentAssumption DEF TypeOK, Upload, Idle, Phases, Reading, InFlight, Dir, EmptyDir, Meta,
         disk, readers, Stop, GoOn, Owns,
         IInv, OneOwner, StagedAsReceived, PhasesEarned, PublishedComplete,
         PromisesKept, DownloadMatches, ListingReadable, Readable
<1>1. CASE \E id \in Ids : RequestUpload(h, id)
  BY <1>1, ApksAssumption, SMTT(30) DEF RequestUpload
<1>2. CASE \E f \in Required : ReceiveField(h, f)
  BY <1>2, ApksAssumption, SMTT(30) DEF ReceiveField
<1>3. CASE StartApk(h)
  BY <1>3, ApksAssumption, SMTT(30) DEF StartApk, FirstApk
<1>4. CASE EndForm(h)
  BY <1>4, ApksAssumption, SMTT(30) DEF EndForm, FormComplete
<1>5. CASE RejectBody(h)
  BY <1>5, ApksAssumption, SMTT(30) DEF RejectBody
<1>6. CASE \E c \in Contents : FinishApk(h, c)
  <2> PICK c \in Contents : FinishApk(h, c)
    BY <1>6
  <2>1. up[h] \in Upload /\ c \in Apks /\ staging[up[h].id] \in Dir
    BY RunningUpload DEF FinishApk, Accepts
  <2>2. [up[h] EXCEPT !.pc = "body", !.info = c] \in Upload
    BY <2>1
  <2>3. up' \in [Handlers -> Upload \cup {Idle}]
    BY <2>2 DEF FinishApk
  <2>4. TypeOK'
    BY <2>1, <2>3 DEF FinishApk
  <2>5. OneOwner' /\ StagedAsReceived' /\ PhasesEarned'
    BY <2>1 DEF FinishApk
  <2>6. PublishedComplete' /\ PromisesKept' /\ DownloadMatches' /\ ListingReadable'
    BY DEF FinishApk
  <2> QED BY <2>4, <2>5, <2>6
<1> QED BY <1>1, <1>2, <1>3, <1>4, <1>5, <1>6 DEF BodyStep

\* Failures of the disk, the client and the server.
LEMMA FailureStep ==
    ASSUME IInv,
           (\E h \in Handlers : SaveFails(h) \/ Hangup(h)) \/ Crash
    PROVE  IInv'
<1> USE AbsentAssumption DEF TypeOK, Upload, Idle, Phases, Reading, InFlight, Dir, EmptyDir, Meta,
         disk, readers, Stop, GoOn, Owns,
         IInv, OneOwner, StagedAsReceived, PhasesEarned, PublishedComplete,
         PromisesKept, DownloadMatches, ListingReadable, Readable
<1>1. ASSUME NEW h \in Handlers, SaveFails(h) PROVE IInv'
  BY <1>1, ApksAssumption, SMTT(30) DEF SaveFails
<1>2. ASSUME NEW h \in Handlers, Hangup(h) PROVE IInv'
  <2>1. up' \in [Handlers -> Upload \cup {Idle}]
    <3>1. CASE up' = [up EXCEPT ![h].dropped = TRUE]
      <4>1. up[h] \in Upload
        BY <1>2, RunningUpload DEF Hangup
      <4>2. [up[h] EXCEPT !.dropped = TRUE] \in Upload
        BY <4>1
      <4> QED BY <3>1, <4>2
    <3>2. CASE up' = [up EXCEPT ![h] = Idle]
      BY <3>2
    <3> QED BY <1>2, <3>1, <3>2 DEF Hangup
  <2>2. TypeOK'
    BY <1>2, <2>1 DEF Hangup
  <2>3. OneOwner' /\ StagedAsReceived' /\ PhasesEarned'
    BY <1>2 DEF Hangup
  <2>4. PublishedComplete' /\ PromisesKept' /\ DownloadMatches' /\ ListingReadable'
    BY <1>2 DEF Hangup
  <2> QED BY <2>2, <2>3, <2>4
<1>3. CASE Crash
  BY <1>3 DEF Crash
<1> QED BY <1>1, <1>2, <1>3

\* Tickets change nothing the invariant is about.
LEMMA TicketStepStep ==
    ASSUME IInv, TicketStep
    PROVE  IInv'
<1> USE AbsentAssumption DEF TypeOK, Upload, Idle, Phases, Reading, InFlight, Dir, EmptyDir, Meta,
         disk, readers, Stop, GoOn, Owns,
         IInv, OneOwner, StagedAsReceived, PhasesEarned, PublishedComplete,
         PromisesKept, DownloadMatches, ListingReadable, Readable
<1>1. ASSUME NEW id \in Ids, IssueUpload(id) PROVE IInv'
  BY <1>1 DEF IssueUpload
<1>2. ASSUME NEW id \in Ids, IssueDownload(id) PROVE IInv'
  BY <1>2 DEF IssueDownload
<1>3. ASSUME NEW t \in tickets, Expire(t) PROVE IInv'
  BY <1>3 DEF Expire
<1> QED BY <1>1, <1>2, <1>3 DEF TicketStep

\* Downloads and the listing only read the releases.
LEMMA ReaderStepStep ==
    ASSUME IInv, ReaderStep
    PROVE  IInv'
<1> USE AbsentAssumption DEF TypeOK, Idle, disk, readers, IInv
<1> DEFINE Rest == /\ OneOwner /\ StagedAsReceived /\ PhasesEarned /\ PublishedComplete
<1>0. ASSUME UNCHANGED <<staging, published, up>> PROVE Rest'
  BY <1>0 DEF OneOwner, Owns, StagedAsReceived, PhasesEarned, PublishedComplete
<1> HIDE DEF Rest
<1>1. ASSUME NEW id \in Ids, StartDownload(id) PROVE IInv'
  <2>1. Rest' /\ PromisesKept' /\ ListingReadable'
    BY <1>0, <1>1 DEF StartDownload, PromisesKept, ListingReadable, Readable
  <2>2. /\ published[id].meta.sha = published[id].apk
        /\ published[id].apk \in Contents
        /\ published[id] # Absent
    BY <1>1, PublishedReadable DEF StartDownload, Readable
  <2>3. DownloadMatches'
    BY <1>1, <2>2 DEF StartDownload, DownloadMatches
  <2>4. TypeOK'
    BY <1>1, <2>2 DEF StartDownload, Meta
  <2> QED BY <2>1, <2>3, <2>4 DEF Rest
<1>2. ASSUME NEW id \in Ids, SeeEntry(id) PROVE IInv'
  <2>1. Rest' /\ PromisesKept' /\ DownloadMatches' /\ TypeOK'
    BY <1>0, <1>2 DEF SeeEntry, PromisesKept, DownloadMatches
  <2>2. ListingReadable'
    BY <1>2, PublishedReadable DEF SeeEntry, Entries, ListingReadable, Readable
  <2> QED BY <2>1, <2>2 DEF Rest
<1>3. ASSUME NEW id \in Ids, ReadEntry(id) PROVE IInv'
  <2>1. Rest' /\ PromisesKept' /\ DownloadMatches' /\ TypeOK'
    BY <1>0, <1>3 DEF ReadEntry, PromisesKept, DownloadMatches
  <2>2. ListingReadable'
    BY <1>3 DEF ReadEntry, ListingReadable, Readable
  <2> QED BY <2>1, <2>2 DEF Rest
<1>4. CASE StartListing
  <2>1. Rest' /\ PromisesKept' /\ DownloadMatches' /\ TypeOK'
    BY <1>0, <1>4 DEF StartListing, Entries, PromisesKept, DownloadMatches
  <2>2. ListingReadable'
    BY <1>4, PublishedReadable DEF StartListing, Entries, ListingReadable, Readable
  <2> QED BY <2>1, <2>2 DEF Rest
<1>5. ASSUME NEW d \in downloads, Serve(d) PROVE IInv'
  <2>1. d \in Meta /\ published[d.id].apk \in Contents /\ published[d.id] # Absent
    BY <1>5, PublishedReadable DEF Serve, Meta
  <2>2. Rest' /\ DownloadMatches' /\ ListingReadable'
    BY <1>0, <1>5 DEF Serve, DownloadMatches, ListingReadable, Readable
  <2>3. PromisesKept'
    BY <1>5, <2>1 DEF Serve, PromisesKept
  <2>4. TypeOK'
    BY <1>5, <2>1 DEF Serve, Meta
  <2> QED BY <2>2, <2>3, <2>4 DEF Rest
<1>6. ASSUME NEW d \in downloads, DropDownload(d) PROVE IInv'
  <2>1. Rest' /\ PromisesKept' /\ ListingReadable' /\ DownloadMatches' /\ TypeOK'
    BY <1>0, <1>6 DEF DropDownload, PromisesKept, ListingReadable, Readable, DownloadMatches
  <2> QED BY <2>1 DEF Rest
<1> QED BY <1>1, <1>2, <1>3, <1>4, <1>5, <1>6 DEF ReaderStep

LEMMA StutterStep ==
    ASSUME IInv, UNCHANGED vars
    PROVE  IInv'
  BY DEF vars, IInv, TypeOK, OneOwner, Owns, StagedAsReceived, PhasesEarned,
         PublishedComplete, PromisesKept, DownloadMatches, ListingReadable, Readable

LEMMA NextIInv == IInv /\ [Next]_vars => IInv'
<1> SUFFICES ASSUME IInv, [Next]_vars PROVE IInv'
  OBVIOUS
<1>1. ASSUME NEW h \in Handlers, FileOperation(h) PROVE IInv'
  BY <1>1, FileOperationStep
<1>2. ASSUME NEW h \in Handlers, BodyStep(h) PROVE IInv'
  BY <1>2, BodyStepStep
<1>3. CASE (\E h \in Handlers : SaveFails(h) \/ Hangup(h)) \/ Crash
  BY <1>3, FailureStep
<1>4. CASE TicketStep
  BY <1>4, TicketStepStep
<1>5. CASE ReaderStep
  BY <1>5, ReaderStepStep
<1>6. CASE UNCHANGED vars
  BY <1>6, StutterStep
<1> QED BY <1>1, <1>2, <1>3, <1>4, <1>5, <1>6 DEF Next

\* The strengthened invariant holds in every reachable state.
THEOREM Inductive == Spec => []IInv
<1>1. Init => IInv
  BY InitIInv
<1>2. IInv /\ [Next]_vars => IInv'
  BY NextIInv
<1> QED BY <1>1, <1>2, PTL DEF Spec

-----------------------------------------------------------------------------
(* The results.                                                            *)

\* Every variable keeps its type.
THEOREM TypeCorrect == Spec => []TypeOK
<1>1. IInv => TypeOK
  BY DEF IInv
<1> QED BY <1>1, Inductive, PTL

\* Whatever crashes, hangs up or fails, a release that can be seen is whole.
THEOREM ReleasesComplete == Spec => []PublishedComplete
<1>1. IInv => PublishedComplete
  BY DEF IInv
<1> QED BY <1>1, Inductive, PTL

\* No replay of a ticket and no restart ever takes back what a 201 or a
\* download told a client.
THEOREM PromisesHold == Spec => []PromisesKept
<1>1. IInv => PromisesKept
  BY DEF IInv
<1> QED BY <1>1, Inductive, PTL

\* create_dir gives each staging directory one owner.
THEOREM StagingExclusive == Spec => []OneOwner
<1>1. IInv => OneOwner
  BY DEF IInv
<1> QED BY <1>1, Inductive, PTL

\* Nobody but the owner touches what the owner has written: a running upload
\* has its staging directory, with the APK whose hash it has worked out.
THEOREM StagingUntouched == Spec => []StagedAsReceived
<1>1. IInv => StagedAsReceived
  BY DEF IInv
<1> QED BY <1>1, Inductive, PTL

\* A download sends the APK its release.json describes.
THEOREM DownloadsServed == Spec => []DownloadMatches
<1>1. IInv => DownloadMatches
  BY DEF IInv
<1> QED BY <1>1, Inductive, PTL

\* The listing finds every release.json it looks for whole, so it has no
\* reason to answer 500.
THEOREM ListingServed == Spec => []ListingReadable
<1>1. IInv => ListingReadable
  BY DEF IInv
<1> QED BY <1>1, Inductive, PTL

-----------------------------------------------------------------------------
(* The library implements the write-once catalogue: a rename that publishes *)
(* stores, a 201 and a download promise, and every other step stutters.     *)

LEMMA RefineInit == Init => Registry!RegistryInit
  BY DEF Init, Registry!RegistryInit, Catalog

\* A step that leaves the releases and the promises alone stutters.
LEMMA QuietRefines ==
    ASSUME UNCHANGED <<published, promised>>
    PROVE  UNCHANGED Registry!registryVars
  BY DEF Registry!registryVars, Catalog

LEMMA PublishRefines ==
    ASSUME IInv, NEW h \in Handlers, Publish(h)
    PROVE  Registry!RegistryNext
<1>1. /\ up[h].pc = "rename" /\ up[h] # Idle
      /\ published[up[h].id] = Absent
      /\ promised' = promised
  BY DEF Publish, Vacant, Idle
<1>2. up[h].id \in Ids /\ up[h].info \in Apks
  BY <1>1, RunningUpload DEF IInv, PhasesEarned, Upload
<1>3. staging[up[h].id] # Absent /\ staging[up[h].id].apk = up[h].info
  BY <1>1, <1>2, AbsentAssumption, ApksAssumption DEF IInv, StagedAsReceived, Owns
<1>4. published' = [published EXCEPT ![up[h].id] = staging[up[h].id]]
  BY DEF Publish
<1>5. Catalog' = [Catalog EXCEPT ![up[h].id] = up[h].info]
  <2>1. published \in [Ids -> Dir \cup {Absent}]
    BY DEF IInv, TypeOK
  <2> QED BY <1>2, <1>3, <1>4, <2>1 DEF Catalog
<1>6. Catalog[up[h].id] = Absent
  BY <1>1, <1>2 DEF Catalog
<1>7. Registry!Store(up[h].id, up[h].info)
  BY <1>1, <1>5, <1>6 DEF Registry!Store
<1> QED BY <1>2, <1>7 DEF Registry!RegistryNext

LEMMA ReplyRefines ==
    ASSUME IInv, NEW h \in Handlers, ReplyCreated(h)
    PROVE  Registry!RegistryNext
<1>1. /\ up[h].pc = "reply" /\ up[h] # Idle
      /\ promised' = promised \cup {<<up[h].id, up[h].info>>}
      /\ published' = published
  BY DEF ReplyCreated, Idle, disk
<1>2. /\ up[h].id \in Ids /\ up[h].info \in Apks
      /\ published[up[h].id] # Absent
      /\ published[up[h].id].apk = up[h].info
  BY <1>1, RunningUpload, ApksAssumption, AbsentAssumption DEF IInv, PhasesEarned, Upload
<1>3. Catalog' = Catalog /\ Catalog[up[h].id] = up[h].info
  BY <1>1, <1>2 DEF Catalog
<1>4. Registry!Promise(up[h].id, up[h].info)
  BY <1>1, <1>3 DEF Registry!Promise
<1> QED BY <1>2, <1>4 DEF Registry!RegistryNext

LEMMA ServeRefines ==
    ASSUME IInv, NEW d \in downloads, Serve(d)
    PROVE  Registry!RegistryNext
<1>1. d.id \in Ids
  BY DEF IInv, TypeOK, Meta
<1>2. /\ published[d.id] # Absent
      /\ published[d.id].apk \in Apks
      /\ published' = published
      /\ promised' = promised \cup {<<d.id, published[d.id].apk>>}
  BY <1>1 DEF Serve, IInv, PublishedComplete, disk
<1>3. Catalog' = Catalog /\ Catalog[d.id] = published[d.id].apk
  BY <1>1, <1>2 DEF Catalog
<1>4. Registry!Promise(d.id, published[d.id].apk)
  BY <1>2, <1>3 DEF Registry!Promise
<1> QED BY <1>1, <1>2, <1>4 DEF Registry!RegistryNext

LEMMA RefineStep == IInv /\ [Next]_vars => [Registry!RegistryNext]_(Registry!registryVars)
<1> SUFFICES ASSUME IInv, [Next]_vars
             PROVE  [Registry!RegistryNext]_(Registry!registryVars)
  OBVIOUS
<1>1. ASSUME NEW h \in Handlers, FileOperation(h)
      PROVE  [Registry!RegistryNext]_(Registry!registryVars)
  <2>1. CASE Publish(h)
    BY <2>1, PublishRefines
  <2>2. CASE ReplyCreated(h)
    BY <2>2, ReplyRefines
  <2>3. CASE \/ CreateStaging(h) \/ StagingTaken(h) \/ MkdirFails(h)
             \/ StartManifest(h) \/ FinishManifest(h)
    BY <2>3, QuietRefines DEF CreateStaging, StagingTaken, MkdirFails,
       StartManifest, FinishManifest, disk
  <2>4. CASE AlreadyPublished(h) \/ RemoveStaging(h) \/ RemoveFails(h)
    BY <2>4, QuietRefines DEF AlreadyPublished, RemoveStaging, RemoveFails, disk
  <2> QED BY <1>1, <2>1, <2>2, <2>3, <2>4 DEF FileOperation
<1>2. ASSUME NEW h \in Handlers, BodyStep(h)
      PROVE  [Registry!RegistryNext]_(Registry!registryVars)
  BY <1>2, QuietRefines DEF BodyStep, RequestUpload, ReceiveField, StartApk, EndForm,
     RejectBody, FinishApk, disk
<1>3. CASE (\E h \in Handlers : SaveFails(h) \/ Hangup(h)) \/ Crash
  BY <1>3, QuietRefines DEF SaveFails, Hangup, Crash, disk
<1>4. CASE TicketStep
  BY <1>4, QuietRefines DEF TicketStep, IssueUpload, IssueDownload, Expire, disk
<1>5. CASE ReaderStep
  <2>1. ASSUME NEW d \in downloads, Serve(d)
        PROVE  [Registry!RegistryNext]_(Registry!registryVars)
    BY <2>1, ServeRefines
  <2>2. CASE \/ \E id \in Ids : StartDownload(id) \/ SeeEntry(id) \/ ReadEntry(id)
             \/ \E d \in downloads : DropDownload(d)
             \/ StartListing
    BY <2>2, QuietRefines DEF StartDownload, SeeEntry, ReadEntry, DropDownload,
       StartListing, disk
  <2> QED BY <1>5, <2>1, <2>2 DEF ReaderStep
<1>6. CASE UNCHANGED vars
  BY <1>6, QuietRefines DEF vars
<1> QED BY <1>1, <1>2, <1>3, <1>4, <1>5, <1>6 DEF Next

\* Seen from its clients the library is a write-once catalogue.
THEOREM Refinement == Spec => ImplementsRegistry
<1>1. Init => Registry!RegistryInit
  BY RefineInit
<1>2. IInv /\ [Next]_vars => [Registry!RegistryNext]_(Registry!registryVars)
  BY RefineStep
<1> QED BY <1>1, <1>2, Inductive, PTL DEF Spec, ImplementsRegistry, Registry!RegistrySpec

-----------------------------------------------------------------------------
(* Without failures every staging directory has a running owner.           *)

NoneDropped == \A h \in Handlers : up[h] # Idle => ~up[h].dropped
QuietInv == IInv /\ StagingOwned /\ NoneDropped

LEMMA QuietStep ==
    ASSUME Failures = {}, QuietInv, [Next]_vars
    PROVE  StagingOwned' /\ NoneDropped'
<1> USE DEF QuietInv, StagingOwned, NoneDropped, IInv, Owns, TypeOK, Upload, Idle,
            Phases, Reading, InFlight, Stop, GoOn, disk, readers
<1>1. ASSUME NEW h \in Handlers, FileOperation(h)
      PROVE  StagingOwned' /\ NoneDropped'
  <2>1. CASE CreateStaging(h)
    BY <2>1, SMTT(30) DEF CreateStaging, StagingFree
  <2>2. CASE StagingTaken(h) \/ MkdirFails(h)
    BY <2>2, SMTT(30) DEF StagingTaken, StagingFree, MkdirFails
  <2>3. CASE StartManifest(h) \/ FinishManifest(h)
    BY <2>3, SMTT(30) DEF StartManifest, FinishManifest
  <2>4. CASE Publish(h)
    BY <2>4, SMTT(30) DEF Publish, Vacant
  <2>5. CASE AlreadyPublished(h)
    BY <2>5, SMTT(30) DEF AlreadyPublished, Vacant
  <2>6. CASE RemoveStaging(h) \/ RemoveFails(h)
    BY <2>6, SMTT(30) DEF RemoveStaging, RemoveDir, RemoveFails
  <2>7. CASE ReplyCreated(h)
    BY <2>7, SMTT(30) DEF ReplyCreated
  <2> QED BY <1>1, <2>1, <2>2, <2>3, <2>4, <2>5, <2>6, <2>7 DEF FileOperation
<1>2. ASSUME NEW h \in Handlers, BodyStep(h)
      PROVE  StagingOwned' /\ NoneDropped'
  <2>1. CASE \E id \in Ids : RequestUpload(h, id)
    BY <2>1, SMTT(30) DEF RequestUpload
  <2>2. CASE \E f \in Required : ReceiveField(h, f)
    BY <2>2, SMTT(30) DEF ReceiveField
  <2>3. CASE StartApk(h) \/ EndForm(h) \/ RejectBody(h)
    BY <2>3, SMTT(30) DEF StartApk, FirstApk, EndForm, FormComplete, RejectBody
  <2>4. CASE \E c \in Contents : FinishApk(h, c)
    BY <2>4, SMTT(30) DEF FinishApk, Accepts
  <2> QED BY <1>2, <2>1, <2>2, <2>3, <2>4 DEF BodyStep
<1>3. CASE (\E h \in Handlers : SaveFails(h) \/ Hangup(h)) \/ Crash
  BY <1>3 DEF SaveFails, Hangup, Crash
<1>4. CASE TicketStep
  BY <1>4 DEF TicketStep, IssueUpload, IssueDownload, Expire
<1>5. CASE ReaderStep
  BY <1>5 DEF ReaderStep, StartDownload, SeeEntry, ReadEntry, Serve, DropDownload, StartListing
<1>6. CASE UNCHANGED vars
  BY <1>6 DEF vars
<1> QED BY <1>1, <1>2, <1>3, <1>4, <1>5, <1>6 DEF Next

LEMMA QuietInductive == ASSUME Failures = {} PROVE Spec => []QuietInv
<1>1. Init => QuietInv
  BY InitIInv DEF Init, QuietInv, StagingOwned, NoneDropped, Idle
<1>2. QuietInv /\ [Next]_vars => QuietInv'
  BY NextIInv, QuietStep DEF QuietInv
<1> QED BY <1>1, <1>2, PTL DEF Spec

\* No crash, no hang-up, no failing file operation: no directory is left
\* behind by any upload, accepted or turned down.
THEOREM NothingLeftBehind == ASSUME Failures = {} PROVE Spec => []StagingOwned
<1>1. QuietInv => StagingOwned
  BY DEF QuietInv
<1>2. Spec => []QuietInv
  BY QuietInductive
<1> QED BY <1>1, <1>2, PTL

\* And then 409 "This upload is already running." is true when it is said.
THEOREM ConflictTruthful == ASSUME Failures = {} PROVE Spec => ConflictMeansRunning
<1>1. ASSUME QuietInv, NEW h \in Handlers, StagingTaken(h)
      PROVE  \E g \in Handlers \ {h} : Owns(g) /\ up[g].id = up[h].id
  <2>1. up[h].pc = "mkdir" /\ up[h] # Idle /\ staging[up[h].id] # Absent
    BY <1>1 DEF StagingTaken, StagingFree, Idle
  <2>2. up[h].id \in Ids
    BY <1>1, <2>1, RunningUpload DEF QuietInv, IInv, Upload
  <2>3. PICK g \in Handlers : Owns(g) /\ up[g].id = up[h].id
    BY <1>1, <2>1, <2>2 DEF QuietInv, StagingOwned
  <2>4. g # h
    BY <2>1, <2>3 DEF Owns
  <2> QED BY <2>3, <2>4
<1>2. QuietInv /\ [Next]_vars =>
        [\A h \in Handlers : StagingTaken(h) =>
           \E g \in Handlers \ {h} : Owns(g) /\ up[g].id = up[h].id]_vars
  BY <1>1 DEF QuietInv
<1>3. Spec => []QuietInv
  BY QuietInductive
<1> QED BY <1>2, <1>3, PTL DEF Spec, ConflictMeansRunning
=============================================================================
