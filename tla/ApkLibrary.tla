----------------------------- MODULE ApkLibrary -----------------------------
(***************************************************************************)
(* The APK library (src/apk_library.rs): tickets, multipart uploads staged  *)
(* in a directory of their own and published by a rename, downloads and    *)
(* the listing, over a disk that outlives the server.  Upload handlers run *)
(* concurrently; the same upload ticket may be presented many times.  The  *)
(* server may crash, a client may hang up (its handler is dropped, but the *)
(* file operation it was waiting for still runs) and file operations fail. *)
(***************************************************************************)
EXTENDS Naturals, FiniteSets

CONSTANTS Ids,        \* release ids (UUIDs)
          Handlers,   \* upload requests served at the same time
          Contents,   \* what an "apk" field can carry
          Apks,       \* the contents save accepts: a ZIP signature, 250 MB at most
          Required,   \* the text fields a release must have
          Failures,   \* the failures that happen: "crash", "hangup", "io"
          Absent,     \* no directory, or no file
          Torn        \* a file that is not written to its end

ASSUME ApksAssumption == Apks \subseteq Contents
ASSUME FailuresAssumption == Failures \subseteq {"crash", "hangup", "io"}

VARIABLES staging,    \* staging[id]: the directory .upload-<id>
          published,  \* published[id]: the directory <id>
          issued,     \* the ids of the upload tickets made so far
          tickets,    \* <<purpose, id>>: the tickets that have not expired
          up,         \* up[h]: the progress of upload handler h
          downloads,  \* downloads that have read release.json, not the APK
          listing,    \* the entries a running listing still has to read
          promised    \* history: the <<id, apk>> a 201 or a download told

vars == <<staging, published, issued, tickets, up, downloads, listing, promised>>
disk == <<staging, published>>
readers == <<downloads, listing>>

-----------------------------------------------------------------------------
(* Data.                                                                   *)

\* What release.json says of its APK: the id and the sha256.
Meta == [id : Ids, sha : Contents]

\* A directory: app.apk and release.json, either of which may be missing.
Dir == [apk : Contents \cup {Torn, Absent}, meta : Meta \cup {Torn, Absent}]
EmptyDir == [apk |-> Absent, meta |-> Absent]

ASSUME AbsentAssumption == Absent \notin Contents \cup Dir

\* A handler is waiting for a file operation (InFlight) or for the body.
InFlight == {"mkdir", "manifest", "writing", "rename", "cleanup"}
Reading == {"body", "apk"}
Phases == InFlight \cup Reading \cup {"reply"}

\* fields: the text fields received; info: save's file_info; dropped: the
\* client has gone and only the operation in flight is left of the handler.
Upload == [pc : Phases, id : Ids, fields : SUBSET Required,
           info : Contents \cup {Absent}, dropped : BOOLEAN]
Idle == [pc |-> "idle"]

TypeOK == /\ staging \in [Ids -> Dir \cup {Absent}]
          /\ published \in [Ids -> Dir \cup {Absent}]
          /\ issued \subseteq Ids
          /\ tickets \subseteq {"upload", "download"} \X Ids
          /\ up \in [Handlers -> Upload \cup {Idle}]
          /\ downloads \subseteq Meta
          /\ listing \subseteq Ids
          /\ promised \subseteq Ids \X Contents

Init == /\ staging = [id \in Ids |-> Absent]
        /\ published = [id \in Ids |-> Absent]
        /\ issued = {}
        /\ tickets = {}
        /\ up = [h \in Handlers |-> Idle]
        /\ downloads = {}
        /\ listing = {}
        /\ promised = {}

-----------------------------------------------------------------------------
(* Tickets.                                                                *)

\* metadata(id) returns the release: the directory is there and its
\* release.json parses.
Readable(id) == published[id] # Absent /\ published[id].meta \in Meta

IssueUpload(id) ==
    /\ id \notin issued
    /\ issued' = issued \cup {id}
    /\ tickets' = tickets \cup {<<"upload", id>>}
    /\ UNCHANGED <<disk, up, readers, promised>>

IssueDownload(id) ==
    /\ Readable(id)
    /\ tickets' = tickets \cup {<<"download", id>>}
    /\ UNCHANGED <<disk, issued, up, readers, promised>>

Expire(t) ==
    /\ t \in tickets
    /\ tickets' = tickets \ {t}
    /\ UNCHANGED <<disk, issued, up, readers, promised>>

-----------------------------------------------------------------------------
(* Uploads.  A handler whose client has gone ends with the operation it    *)
(* was waiting for; any other one goes on to the next phase.               *)

GoOn(h, phase) ==
    up' = [up EXCEPT ![h] = IF up[h].dropped THEN Idle
                            ELSE [up[h] EXCEPT !.pc = phase]]
Stop(h) == up' = [up EXCEPT ![h] = Idle]
Owns(h) == up[h].pc \in {"body", "apk", "manifest", "writing", "rename", "cleanup"}

RequestUpload(h, id) ==
    /\ up[h] = Idle
    /\ <<"upload", id>> \in tickets
    /\ up' = [up EXCEPT ![h] = [pc |-> "mkdir", id |-> id, fields |-> {},
                                info |-> Absent, dropped |-> FALSE]]
    /\ UNCHANGED <<disk, issued, tickets, readers, promised>>

\* Mutants: create_dir_all for create_dir; a 409 that also tidies up.
AlwaysFree(id) == TRUE
StagingTakenTidiesUp(h) ==
    /\ up[h].pc = "mkdir"
    /\ staging[up[h].id] # Absent
    /\ staging' = [staging EXCEPT ![up[h].id] = Absent]
    /\ Stop(h)
    /\ UNCHANGED <<published, issued, tickets, readers, promised>>

\* create_dir succeeds only when there is no such directory.
StagingFree(id) == staging[id] = Absent

CreateStaging(h) ==
    /\ up[h].pc = "mkdir"
    /\ StagingFree(up[h].id)
    /\ staging' = [staging EXCEPT ![up[h].id] = EmptyDir]
    /\ GoOn(h, "body")
    /\ UNCHANGED <<published, issued, tickets, readers, promised>>

\* 409 "This upload is already running.": the handler returns before save.
StagingTaken(h) ==
    /\ up[h].pc = "mkdir"
    /\ ~StagingFree(up[h].id)
    /\ Stop(h)
    /\ UNCHANGED <<disk, issued, tickets, readers, promised>>

ReceiveField(h, f) ==
    /\ up[h].pc = "body"
    /\ f \notin up[h].fields
    /\ up' = [up EXCEPT ![h].fields = @ \cup {f}]
    /\ UNCHANGED <<disk, issued, tickets, readers, promised>>

FirstApk(h) == up[h].info = Absent

\* File::create truncates app.apk; the chunks follow.
StartApk(h) ==
    /\ up[h].pc = "body"
    /\ FirstApk(h)
    /\ staging' = [staging EXCEPT ![up[h].id].apk = Torn]
    /\ up' = [up EXCEPT ![h].pc = "apk"]
    /\ UNCHANGED <<published, issued, tickets, readers, promised>>

\* Mutant: the signature is not looked at.
AnyContent(c) == c \in Contents
Accepts(c) == c \in Apks

\* The last chunk, the signature check, sync_all and file_info.
FinishApk(h, c) ==
    /\ up[h].pc = "apk"
    /\ Accepts(c)
    /\ staging' = [staging EXCEPT ![up[h].id].apk = c]
    /\ up' = [up EXCEPT ![h].pc = "body", ![h].info = c]
    /\ UNCHANGED <<published, issued, tickets, readers, promised>>

\* Mutants: an upload without an APK, or without its text, goes through;
\* the directory is renamed before release.json is written.
NothingMissing(h) == TRUE
FormComplete(h) == up[h].fields = Required /\ up[h].info # Absent
EndFormRenamesFirst(h) ==
    /\ up[h].pc = "body"
    /\ FormComplete(h)
    /\ up' = [up EXCEPT ![h].pc = "rename"]
    /\ UNCHANGED <<disk, issued, tickets, readers, promised>>

\* The form ends with every text field and one accepted APK.
EndForm(h) ==
    /\ up[h].pc = "body"
    /\ FormComplete(h)
    /\ up' = [up EXCEPT ![h].pc = "manifest"]
    /\ UNCHANGED <<disk, issued, tickets, readers, promised>>

\* fs::write creates release.json, then fills it.
StartManifest(h) ==
    /\ up[h].pc = "manifest"
    /\ staging' = [staging EXCEPT ![up[h].id].meta = Torn]
    /\ up' = [up EXCEPT ![h].pc = "writing"]
    /\ UNCHANGED <<published, issued, tickets, readers, promised>>

FinishManifest(h) ==
    /\ up[h].pc = "writing"
    /\ staging' = [staging EXCEPT ![up[h].id].meta = [id |-> up[h].id, sha |-> up[h].info]]
    /\ GoOn(h, "rename")
    /\ UNCHANGED <<published, issued, tickets, readers, promised>>

\* Mutants: a rename that replaces the release already there; an existence
\* test that looks at the staging directory.
AlwaysVacant(id) == TRUE
NothingStaged(id) == staging[id] = Absent
Vacant(id) == published[id] = Absent

Publish(h) ==
    /\ up[h].pc = "rename"
    /\ Vacant(up[h].id)
    /\ published' = [published EXCEPT ![up[h].id] = staging[up[h].id]]
    /\ staging' = [staging EXCEPT ![up[h].id] = Absent]
    /\ GoOn(h, "reply")
    /\ UNCHANGED <<issued, tickets, readers, promised>>

\* 409 "Release already published.": the target directory is not empty.
AlreadyPublished(h) ==
    /\ up[h].pc = "rename"
    /\ ~Vacant(up[h].id)
    /\ GoOn(h, "cleanup")
    /\ UNCHANGED <<disk, issued, tickets, readers, promised>>

\* 201 with the release.
ReplyCreated(h) ==
    /\ up[h].pc = "reply"
    /\ promised' = promised \cup {<<up[h].id, up[h].info>>}
    /\ Stop(h)
    /\ UNCHANGED <<disk, issued, tickets, readers>>

\* save returns an error for something in the body: an unknown, duplicate or
\* overlong field, a second or oversized APK, a bad signature, a wrong
\* architecture, a form that ends early or does not parse.
RejectBody(h) ==
    /\ up[h].pc \in Reading
    /\ up' = [up EXCEPT ![h].pc = "cleanup"]
    /\ UNCHANGED <<disk, issued, tickets, readers, promised>>

\* A file operation of save fails.
SaveFails(h) ==
    /\ "io" \in Failures
    /\ up[h].pc \in Reading \cup {"manifest", "writing", "rename"}
    /\ GoOn(h, "cleanup")
    /\ UNCHANGED <<disk, issued, tickets, readers, promised>>

\* create_dir fails for another reason than an existing directory.
MkdirFails(h) ==
    /\ "io" \in Failures
    /\ up[h].pc = "mkdir"
    /\ Stop(h)
    /\ UNCHANGED <<disk, issued, tickets, readers, promised>>

\* Mutant: the result of save is returned without the clean-up.
RemoveNothing(id) == staging
RemoveDir(id) == [staging EXCEPT ![id] = Absent]

\* remove_dir_all(staging), and the error goes to the client.
RemoveStaging(h) ==
    /\ up[h].pc = "cleanup"
    /\ staging' = RemoveDir(up[h].id)
    /\ Stop(h)
    /\ UNCHANGED <<published, issued, tickets, readers, promised>>

\* "let _ =": a clean-up that fails is not noticed.
RemoveFails(h) ==
    /\ "io" \in Failures
    /\ up[h].pc = "cleanup"
    /\ Stop(h)
    /\ UNCHANGED <<disk, issued, tickets, readers, promised>>

-----------------------------------------------------------------------------
(* Downloads and the listing.                                              *)

\* The ticket is for this release and metadata(id) reads its release.json.
StartDownload(id) ==
    /\ <<"download", id>> \in tickets
    /\ Readable(id)
    /\ downloads' = downloads \cup {[id |-> id, sha |-> published[id].meta.sha]}
    /\ UNCHANGED <<disk, issued, tickets, up, listing, promised>>

\* File::open and the stream: the client gets the bytes of app.apk.
Serve(d) ==
    /\ d \in downloads
    /\ published[d.id] # Absent
    /\ promised' = promised \cup {<<d.id, published[d.id].apk>>}
    /\ downloads' = downloads \ {d}
    /\ UNCHANGED <<disk, issued, tickets, up, listing>>

DropDownload(d) ==
    /\ d \in downloads
    /\ downloads' = downloads \ {d}
    /\ UNCHANGED <<disk, issued, tickets, up, listing, promised>>

\* Mutant: ".upload-<id>" is taken for a release as well.
AnyEntry == {id \in Ids : published[id] # Absent \/ staging[id] # Absent}
\* The entries of the library whose name is a UUID.
Entries == {id \in Ids : published[id] # Absent}

\* read_dir may or may not see an entry made while it runs.
StartListing ==
    /\ listing = {}
    /\ listing' = Entries
    /\ UNCHANGED <<disk, issued, tickets, up, downloads, promised>>

SeeEntry(id) ==
    /\ listing # {}
    /\ id \in Entries
    /\ listing' = listing \cup {id}
    /\ UNCHANGED <<disk, issued, tickets, up, downloads, promised>>

ReadEntry(id) ==
    /\ id \in listing
    /\ listing' = IF Readable(id) THEN listing \ {id} ELSE {}
    /\ UNCHANGED <<disk, issued, tickets, up, downloads, promised>>

-----------------------------------------------------------------------------
(* Failures.                                                               *)

\* The client goes away and the handler's future is dropped: while a file
\* operation is in flight that operation still completes, otherwise nothing
\* is left of the handler.  (In "mkdir" it may be create_dir_all(root()).)
Hangup(h) ==
    /\ "hangup" \in Failures
    /\ up[h] # Idle
    /\ \/ /\ up[h].pc \in InFlight
          /\ ~up[h].dropped
          /\ up' = [up EXCEPT ![h].dropped = TRUE]
       \/ /\ up[h].pc \in Reading \cup {"mkdir", "reply"}
          /\ Stop(h)
    /\ UNCHANGED <<disk, issued, tickets, readers, promised>>

\* The server process dies and starts again: the disk and the clients'
\* tickets (signed with a secret from the environment) are what is left.
Crash ==
    /\ "crash" \in Failures
    /\ up' = [h \in Handlers |-> Idle]
    /\ downloads' = {}
    /\ listing' = {}
    /\ UNCHANGED <<disk, issued, tickets, promised>>

-----------------------------------------------------------------------------
(* What the server does by itself once the body has ended.                 *)
FileOperation(h) ==
    \/ CreateStaging(h) \/ StagingTaken(h) \/ MkdirFails(h)
    \/ StartManifest(h) \/ FinishManifest(h)
    \/ Publish(h) \/ AlreadyPublished(h)
    \/ RemoveStaging(h) \/ RemoveFails(h)
    \/ ReplyCreated(h)

\* What comes from the upload's client.
BodyStep(h) ==
    \/ \E id \in Ids : RequestUpload(h, id)
    \/ \E f \in Required : ReceiveField(h, f)
    \/ StartApk(h) \/ EndForm(h) \/ RejectBody(h)
    \/ \E c \in Contents : FinishApk(h, c)

TicketStep ==
    \/ \E id \in Ids : IssueUpload(id) \/ IssueDownload(id)
    \/ \E t \in tickets : Expire(t)

ReaderStep ==
    \/ \E id \in Ids : StartDownload(id) \/ SeeEntry(id) \/ ReadEntry(id)
    \/ \E d \in downloads : Serve(d) \/ DropDownload(d)
    \/ StartListing

Next == \/ \E h \in Handlers : \/ FileOperation(h) \/ BodyStep(h)
                               \/ SaveFails(h) \/ Hangup(h)
        \/ TicketStep \/ ReaderStep \/ Crash

Spec == Init /\ [][Next]_vars

\* The runtime runs a file operation that has been submitted and polls the
\* handler waiting for it; it cannot make a client send or a crash happen.
Fairness == \A h \in Handlers : WF_vars(FileOperation(h))

FairSpec == Spec /\ Fairness

-----------------------------------------------------------------------------
(* Properties.                                                             *)

\* A release that is visible is whole: its APK is one save accepted and its
\* release.json describes that APK under that id, whatever crashed, failed
\* or raced before (save writes release.json last and renames, 297-314).
PublishedComplete ==
    \A id \in Ids : published[id] # Absent =>
        /\ published[id].apk \in Apks
        /\ published[id].meta = [id |-> id, sha |-> published[id].apk]

\* What a client was told stays true: after a 201 or a download the id holds
\* that APK for ever, through crashes and replays of the upload's ticket.
PromisesKept ==
    \A p \in promised : published[p[1]] # Absent /\ published[p[1]].apk = p[2]

\* create_dir is a lock: two handlers never write to one staging directory,
\* not even a handler and the left-over operation of a dropped one.
OneOwner ==
    \A g, h \in Handlers :
        Owns(g) /\ Owns(h) /\ up[g].id = up[h].id => g = h

\* Nobody touches the staging directory of a running upload: it is there
\* and holds exactly the APK whose hash the handler has in file_info.
StagedAsReceived ==
    \A h \in Handlers : Owns(h) =>
        /\ staging[up[h].id] # Absent
        /\ up[h].info # Absent => staging[up[h].id].apk = up[h].info

\* A download that has read release.json goes on to send the APK that
\* release.json describes, though the two files are read at different times.
DownloadMatches ==
    \A d \in downloads : published[d.id] # Absent /\ published[d.id].apk = d.sha

\* The listing never answers 500: list gives up at the first entry whose
\* release.json is missing or cut short (line 143), so there must be none.
ListingReadable == \A id \in listing : Readable(id)

\* When no client goes away, nothing crashes and no file operation fails, a
\* staging directory always belongs to an upload that is still running.
StagingOwned ==
    \A id \in Ids : staging[id] # Absent =>
        \E h \in Handlers : Owns(h) /\ up[h].id = id

\* What the 409 of line 166 tells the client, "This upload is already
\* running.", is so: another handler is at work on that upload.
ConflictMeansRunning ==
    [][\A h \in Handlers : StagingTaken(h) =>
         \E g \in Handlers \ {h} : Owns(g) /\ up[g].id = up[h].id]_vars

\* An upload that is being turned down frees its id for another try, with or
\* without its client (172-174); the file operations must not fail for it.
CleanupFrees ==
    \A h \in Handlers, id \in Ids :
        (up[h].pc = "cleanup" /\ up[h].id = id) ~> staging[id] = Absent

\* An upload whose form was complete ends with the id published, unless the
\* client goes away before the rename is submitted.
ValidUploadSettles ==
    \A h \in Handlers, id \in Ids :
        (up[h].pc = "manifest" /\ up[h].id = id)
            ~> (published[id] # Absent \/ (up[h] # Idle /\ up[h].dropped))

\* The library implements the write-once catalogue.
Catalog == [id \in Ids |-> IF published[id] = Absent THEN Absent ELSE published[id].apk]
Registry == INSTANCE ApkRegistry WITH catalog <- Catalog
ImplementsRegistry == Registry!RegistrySpec
=============================================================================
