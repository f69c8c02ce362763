---------------------------- MODULE SessionCleanup ----------------------------
(***************************************************************************)
(* Getting rid of sessions: the DELETE handlers of internal/interfaces/web *)
(* (server.go, server_chat_runtime.go), the daily maintenance run          *)
(* (maintenance.go) and the attachments that are being stored meanwhile    *)
(* (session_attachment_store.go).                                          *)
(*                                                                         *)
(* A session of the history has records, tasks and a directory; a chat has *)
(* its registry entry and, for its attachments, a directory of the same    *)
(* kind.  The stores are the other modules' subject: here each call of     *)
(* theirs is one step that succeeds or fails, and the question is what is  *)
(* left when requests, runs and uploads go on at the same time.            *)
(***************************************************************************)
EXTENDS Naturals, FiniteSets

CONSTANTS
  HistorySession, Chat,  \* the sessions of either kind
  Upload,                \* attachments: uploaded images, or those of an answer
  Previewed,             \* those with a preview image
  CleanupRun,            \* maintenance runs, which may overlap
  MaxStirs,              \* bound: messages, inputs, touches and pins
  MaxCleanupFaults       \* bound: failing calls

Owned == HistorySession \cup Chat

ASSUME CleanupAssumption ==
  /\ HistorySession \cap Chat = {} /\ Previewed \subseteq Upload
  /\ Owned \cap CleanupRun = {} /\ "none" \notin Owned
  /\ MaxStirs \in Nat /\ MaxCleanupFaults \in Nat

VARIABLES
  recorded,    \* the sessions of the history
  tasked,      \* the sessions with tasks
  registered,  \* the chats of the chat runtime
  pinnedSessions, inactive, inUse,
  dirThere, dirFiles,  \* workspaces/sessions/<id> and the files under it
  uploading,           \* an attachment being stored: its session and how far it is
  deleting,            \* the DELETE request of a session: what it does next
  run,                 \* a maintenance run
  stirs, cleanupFaults,
           \* history of the run, read by the properties only
  since,   \* per deletion and run: the sessions that changed since it began
  cleared  \* the sessions whose files a removal has begun to take

cleanupVars == <<recorded, tasked, registered, pinnedSessions, inactive, inUse, dirThere,
                 dirFiles, uploading, deleting, run, stirs, cleanupFaults, since, cleared>>

sessionState == <<recorded, tasked, registered, pinnedSessions, inactive, inUse>>
directories == <<dirThere, dirFiles, cleared>>
requestState == <<uploading, deleting, run>>

FilesOf(u) == {<<u, "original">>, <<u, "manifest">>}
              \cup (IF u \in Previewed THEN {<<u, "preview">>} ELSE {})
AllFiles == UNION {FilesOf(u) : u \in Upload}
NoRun == [at |-> "idle", gone |-> {}, left |-> {}, next |-> "none", failed |-> FALSE]

MayFail == cleanupFaults < MaxCleanupFaults /\ cleanupFaults' = cleanupFaults + 1

(***************************************************************************)
(* What happens to sessions meanwhile                                      *)
(***************************************************************************)

Changed(s) == [a \in Owned \cup CleanupRun |-> since[a] \cup {s}]

Stir(s) ==
  /\ stirs < MaxStirs /\ stirs' = stirs + 1
  /\ since' = Changed(s)
  /\ UNCHANGED <<tasked, directories, requestState, cleanupFaults>>

\* A handler appends a record, even to a session deleted since it began.
RecordMessage(s) ==
  /\ Stir(s)
  /\ recorded' = recorded \cup {s} /\ inactive' = inactive \ {s}
  /\ UNCHANGED <<registered, pinnedSessions, inUse>>

ChatInput(c) ==
  /\ c \in registered \ inUse /\ Stir(c)
  /\ inUse' = inUse \cup {c} /\ inactive' = inactive \ {c}
  /\ UNCHANGED <<recorded, registered, pinnedSessions>>

ChatTurnEnds(c) ==
  /\ c \in inUse
  /\ inUse' = inUse \ {c}
  /\ since' = Changed(c)
  /\ UNCHANGED <<recorded, tasked, registered, pinnedSessions, inactive, directories,
                 requestState, stirs, cleanupFaults>>

PinSession(s) ==
  /\ s \in recorded \cup registered /\ s \notin pinnedSessions /\ Stir(s)
  /\ pinnedSessions' = pinnedSessions \cup {s}
  /\ UNCHANGED <<recorded, registered, inactive, inUse>>

GrowInactive(s) ==
  /\ s \in recorded \cup registered /\ s \notin inUse \cup inactive
  /\ inactive' = inactive \cup {s}
  /\ UNCHANGED <<recorded, tasked, registered, pinnedSessions, inUse, directories, requestState,
                 stirs, cleanupFaults, since>>

(***************************************************************************)
(* Attachments: storeConversationAttachment for a chat, and                *)
(* localizeAssistantImageURL for a session of the history                  *)
(***************************************************************************)

Advance(u, to) == uploading' = [uploading EXCEPT ![u].at = to]
AfterUpload == <<sessionState, deleting, run, stirs, cleanupFaults>>

PrepareAttachmentDir(u, s) ==
  /\ uploading[u].at = "new"
  /\ uploading' = [uploading EXCEPT ![u] = [at |-> "original", sess |-> s]]
  /\ dirThere' = dirThere \cup {s} /\ since' = Changed(s)
  /\ UNCHANGED <<AfterUpload, dirFiles, cleared>>

\* An image whose manifest is there is not fetched again.
LocalizeImage(u, s) ==
  IF <<u, "manifest">> \in dirFiles[s]
  THEN /\ uploading[u].at = "new"
       /\ uploading' = [uploading EXCEPT ![u] = [at |-> "stored", sess |-> s]]
       /\ UNCHANGED <<AfterUpload, directories, since>>
  ELSE PrepareAttachmentDir(u, s)

\* The next file; a directory that was removed meanwhile fails the request.
WriteAttachment(u, file, to) ==
  LET s == uploading[u].sess
  IN /\ uploading[u].at = file
     /\ IF s \in dirThere
        THEN /\ dirFiles' = [dirFiles EXCEPT ![s] = @ \cup {<<u, file>>}]
             /\ Advance(u, to) /\ since' = Changed(s)
        ELSE Advance(u, "failed") /\ UNCHANGED <<dirFiles, since>>
     /\ UNCHANGED <<AfterUpload, dirThere, cleared>>

AfterOriginal(u) == IF u \in Previewed THEN "preview" ELSE "manifest"

\* The manifest, which a reader looks for first, is written last.
StoreAttachment(u) ==
  \/ WriteAttachment(u, "original", AfterOriginal(u))
  \/ WriteAttachment(u, "preview", "manifest")
  \/ WriteAttachment(u, "manifest", "stored")

(***************************************************************************)
(* Removing a directory: removeConversationSessionWorkspace                *)
(***************************************************************************)

\* Removing takes the files one by one, then the directory.
RemoveOneFile(s) ==
  /\ s \in dirThere
  /\ \E f \in dirFiles[s] : dirFiles' = [dirFiles EXCEPT ![s] = @ \ {f}]
  /\ cleared' = cleared \cup {s} /\ UNCHANGED dirThere

RemoveEmptyDir(s) ==
  /\ dirFiles[s] = {} /\ dirThere' = dirThere \ {s} /\ UNCHANGED <<dirFiles, cleared>>

(***************************************************************************)
(* DELETE of a session: sessionMessageListHandler; DELETE of a chat:       *)
(* chatRuntimeSessionItemHandler                                           *)
(***************************************************************************)

After(s, to) == deleting' = [deleting EXCEPT ![s] = to]
AfterDeleting == <<pinnedSessions, inactive, uploading, run, stirs>>

RequestDelete(s) ==
  /\ deleting[s] \in {"none", "failed"}
  /\ After(s, IF s \in Chat THEN "chat" ELSE "tasks")
  /\ since' = [since EXCEPT ![s] = {}]
  /\ UNCHANGED <<sessionState, directories, uploading, run, stirs, cleanupFaults>>

DeleteTasks(s) ==
  /\ deleting[s] = "tasks"
  /\ \/ tasked' = tasked \ {s} /\ After(s, "history") /\ UNCHANGED cleanupFaults
     \/ MayFail /\ After(s, "failed") /\ UNCHANGED tasked
  /\ UNCHANGED <<recorded, registered, inUse, directories, AfterDeleting, since>>

ToleratesAll(s) == After(s, "workspace")
\* Any error but "session not found" ends the request.
HistoryError(s) == After(s, "failed")

DeleteHistory(s) ==
  /\ deleting[s] = "history"
  /\ \/ recorded' = recorded \ {s} /\ After(s, "workspace") /\ UNCHANGED cleanupFaults
     \/ MayFail /\ HistoryError(s) /\ UNCHANGED recorded
  /\ UNCHANGED <<tasked, registered, inUse, directories, AfterDeleting, since>>

DeleteWorkspace(s) ==
  /\ deleting[s] = "workspace"
  /\ \/ RemoveOneFile(s) /\ UNCHANGED <<deleting, cleanupFaults>>
     \/ RemoveEmptyDir(s) /\ After(s, "deleted") /\ UNCHANGED cleanupFaults
     \/ MayFail /\ After(s, "failed") /\ UNCHANGED directories
  /\ UNCHANGED <<sessionState, uploading, run, stirs, since>>

\* Service.Delete of the chat runtime: the turn is stopped with the chat.
Unregister(c) == registered' = registered \ {c} /\ inUse' = inUse \ {c}

\* A chat that the chat runtime does not know is refused.
DeleteChat(s) ==
  /\ deleting[s] = "chat"
  /\ \/ /\ s \in registered
        /\ Unregister(s)
        /\ After(s, "deleted") /\ UNCHANGED cleanupFaults
     \/ s \notin registered /\ After(s, "failed") /\ UNCHANGED <<registered, inUse, cleanupFaults>>
     \/ MayFail /\ After(s, "failed") /\ UNCHANGED <<registered, inUse>>
  /\ UNCHANGED <<recorded, tasked, directories, AfterDeleting, since>>

(***************************************************************************)
(* The maintenance run: RunSessionCleanup                                  *)
(***************************************************************************)

InRun(r, what) == run[r].at = what
AfterRun == <<pinnedSessions, inactive, uploading, deleting, stirs>>

\* CleanupInactiveSessions decides and removes under the history's lock.  No
\* task is ever queued or running, so that no session is protected.
Expired == {s \in recorded : s \in inactive /\ s \notin pinnedSessions}

CleanHistory(r) ==
  /\ InRun(r, "idle")
  /\ \/ /\ recorded' = recorded \ Expired /\ since' = [since EXCEPT ![r] = {}]
        /\ run' = [run EXCEPT ![r] = [NoRun EXCEPT !.at = "sessions", !.gone = Expired,
                                                   !.left = Expired]]
        /\ UNCHANGED cleanupFaults
     \/ /\ MayFail /\ UNCHANGED <<recorded, since>>
        /\ run' = [run EXCEPT ![r] = [NoRun EXCEPT !.at = "done", !.failed = TRUE]]
  /\ UNCHANGED <<tasked, registered, inUse, directories, AfterRun>>

\* For each removed session its tasks and then its directory; an error is
\* noted and the loop goes on.
CleanTasks(r, s) ==
  /\ InRun(r, "sessions") /\ run[r].next = "none" /\ s \in run[r].left
  /\ \/ /\ tasked' = tasked \ {s} /\ UNCHANGED cleanupFaults
        /\ run' = [run EXCEPT ![r].left = @ \ {s}, ![r].next = s]
     \/ /\ MayFail /\ UNCHANGED tasked
        /\ run' = [run EXCEPT ![r].left = @ \ {s}, ![r].next = s, ![r].failed = TRUE]
  /\ UNCHANGED <<recorded, registered, inUse, directories, AfterRun, since>>

WorkspaceFailed(r) == [run EXCEPT ![r].next = "none", ![r].failed = TRUE]

CleanWorkspace(r, s) ==
  /\ InRun(r, "sessions") /\ run[r].next = s
  /\ \/ RemoveOneFile(s) /\ UNCHANGED <<run, cleanupFaults>>
     \/ /\ RemoveEmptyDir(s) /\ UNCHANGED cleanupFaults
        /\ run' = [run EXCEPT ![r].next = "none"]
     \/ MayFail /\ UNCHANGED directories /\ run' = WorkspaceFailed(r)
  /\ UNCHANGED <<sessionState, uploading, deleting, stirs, since>>

\* The chats to delete are chosen from a listing; each is deleted later.
ExpiredChats == {c \in registered : c \in inactive /\ c \notin pinnedSessions /\ c \notin inUse}

ListChats(r) ==
  /\ InRun(r, "sessions") /\ run[r].next = "none" /\ run[r].left = {}
  /\ run' = [run EXCEPT ![r].at = "chats", ![r].left = ExpiredChats]
  /\ since' = [since EXCEPT ![r] = @ \ Chat]
  /\ UNCHANGED <<sessionState, directories, uploading, deleting, stirs, cleanupFaults>>

CleanChat(r, c) ==
  /\ InRun(r, "chats") /\ c \in run[r].left
  /\ \/ /\ c \in registered
        /\ Unregister(c) /\ UNCHANGED cleanupFaults
        /\ run' = [run EXCEPT ![r].left = @ \ {c}]
     \/ /\ c \notin registered /\ UNCHANGED <<registered, inUse, cleanupFaults>>
        /\ run' = [run EXCEPT ![r].left = @ \ {c}, ![r].failed = TRUE]
     \/ /\ MayFail /\ UNCHANGED <<registered, inUse>>
        /\ run' = [run EXCEPT ![r].left = @ \ {c}, ![r].failed = TRUE]
  /\ UNCHANGED <<recorded, tasked, directories, AfterRun, since>>

\* storeRun: "failed" when anything did, "success" otherwise.
FinishRun(r) ==
  /\ InRun(r, "chats") /\ run[r].left = {}
  /\ run' = [run EXCEPT ![r].at = "done"]
  /\ UNCHANGED <<sessionState, directories, uploading, deleting, stirs, cleanupFaults, since>>

CleanupInit ==
  /\ recorded = HistorySession /\ tasked \in SUBSET HistorySession /\ registered = Chat
  /\ pinnedSessions = {} /\ inactive \in SUBSET Owned /\ inUse = {}
  /\ dirThere = HistorySession /\ dirFiles = [s \in Owned |-> {}]
  /\ uploading = [u \in Upload |-> [at |-> "new", sess |-> "none"]]
  /\ deleting = [s \in Owned |-> "none"]
  /\ run = [r \in CleanupRun |-> NoRun]
  /\ stirs = 0 /\ cleanupFaults = 0
  /\ since = [a \in Owned \cup CleanupRun |-> {}] /\ cleared = {}

CleanupNext ==
  \/ \E s \in HistorySession :
       \/ RecordMessage(s) \/ DeleteTasks(s) \/ DeleteHistory(s) \/ DeleteWorkspace(s)
       \/ \E u \in Upload : LocalizeImage(u, s)
  \/ \E c \in Chat :
       \/ ChatInput(c) \/ ChatTurnEnds(c) \/ DeleteChat(c)
       \/ \E u \in Upload : PrepareAttachmentDir(u, c)
  \/ \E s \in Owned : PinSession(s) \/ GrowInactive(s) \/ RequestDelete(s)
  \/ \E u \in Upload : StoreAttachment(u)
  \/ \E r \in CleanupRun :
       \/ CleanHistory(r) \/ ListChats(r) \/ FinishRun(r)
       \/ \E s \in Owned : CleanTasks(r, s) \/ CleanWorkspace(r, s) \/ CleanChat(r, s)

CleanupSpec == CleanupInit /\ [][CleanupNext]_cleanupVars

(***************************************************************************)
(* Properties                                                              *)
(***************************************************************************)

\* Everything has its type.
CleanupTypeOK ==
  /\ recorded \subseteq HistorySession /\ tasked \subseteq HistorySession
  /\ registered \subseteq Chat /\ inUse \subseteq registered
  /\ {pinnedSessions, inactive, dirThere, cleared} \subseteq SUBSET Owned
  /\ dirFiles \in [Owned -> SUBSET AllFiles]
  /\ uploading \in [Upload -> [at : {"new", "original", "preview", "manifest", "stored", "failed"},
                               sess : Owned \cup {"none"}]]
  /\ deleting \in [Owned -> {"none", "tasks", "history", "workspace", "chat", "deleted", "failed"}]
  /\ run \in [CleanupRun -> [at : {"idle", "sessions", "chats", "done"}, gone : SUBSET Owned,
                             left : SUBSET Owned, next : Owned \cup {"none"}, failed : BOOLEAN]]
  /\ stirs \in 0 .. MaxStirs /\ cleanupFaults \in 0 .. MaxCleanupFaults
  /\ since \in [Owned \cup CleanupRun -> SUBSET Owned]

\* A DELETE that is answered with success, after any number of failed ones,
\* leaves neither records nor tasks nor files of the session, unless a message
\* of the session was being handled meanwhile.
DeletedEverywhere ==
  [][\A s \in HistorySession :
       deleting[s] # "deleted" /\ deleting'[s] = "deleted" /\ s \notin since[s] =>
         s \notin recorded' \cup tasked' \cup dirThere']_cleanupVars

\* A run that reports success has removed the tasks and the directory of every
\* session it took out of the history, and nothing but a new message or upload
\* put any of it back.
SuccessIsComplete ==
  \A r \in CleanupRun :
    run[r].at = "done" /\ ~run[r].failed =>
      \A s \in run[r].gone : s \notin since[r] => s \notin tasked \cup dirThere

\* The run deletes a chat only when it is inactive, not pinned and not in use,
\* or when it became so between the listing and the deletion: that window is
\* the only one in which a chat that is used again may be lost.
OnlyExpiredChats ==
  [][\A r \in CleanupRun : \A c \in Chat :
       CleanChat(r, c) /\ c \in registered /\ c \notin registered' =>
         \/ c \in inactive /\ c \notin pinnedSessions /\ c \notin inUse
         \/ c \in since[r]]_cleanupVars

\* An attachment that a reader can resolve (its manifest is there) has its
\* image, whatever uploads and deletions overlap: only the removal of its
\* session's directory takes the files apart.
AttachmentIsWhole ==
  \A s \in Owned, u \in Upload :
    <<u, "manifest">> \in dirFiles[s] =>
      FilesOf(u) \subseteq dirFiles[s] \/ s \in cleared

\* Deletions and cleanups that overlap, fail and are repeated take all of a
\* session, and of no other.
DeletionsAreComplete ==
  DeletedEverywhere /\ OnlyExpiredChats /\ []SuccessIsComplete /\ []AttachmentIsWhole

=============================================================================
