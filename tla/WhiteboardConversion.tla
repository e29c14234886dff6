-------------------------- MODULE WhiteboardConversion --------------------------
(***************************************************************************)
(* Documents become whiteboard pages: a request brings the document, a     *)
(* goroutine converts it to a PDF and hands ranges of its pages to a pool, *)
(* and the handler stops waiting when its time is over.  The requests of   *)
(* the API (a link, a file) take a lock of five minutes; one of a client,  *)
(* for a file it has uploaded, takes none.  Without storage hooks.         *)
(*                                                                         *)
(* Pages are counted by range: a range is "part" drawn when mutool was     *)
(* stopped in it.                                                          *)
(***************************************************************************)
EXTENDS Naturals, FiniteSets

CONSTANTS
    Request,
    NoRequest,
    Ranges,     \* of MutoolPageChunkSize pages in each document
    PoolSize    \* MaxMutoolWorkers

Range == 1..Ranges
Blank == [c \in Range |-> "none"]

VARIABLES
    kind,      \* link, file or client
    handler,   \* of each request: where it is
    job,       \* of each request: where its goroutine is
    failed,    \* requests whose job has an error
    office,    \* requests whose document is not a PDF
    source,    \* requests whose document is there
    pool,      \* of each request: what the pool does with each range
    dir,       \* requests whose output directory is there
    page,      \* of each request: what is drawn in it
    found,     \* of each request: the ranges that were counted and got meta files
    list,      \* of each request: the ranges the bucket says it has
    lock,      \* the request that holds whiteboardUploadLock
    overran,   \* requests whose lock expired
    room       \* open, cleaned (its directory is removed) or gone

convertVars == <<kind, handler, job, failed, office, source, pool, dir, page, found, list, lock,
                 overran, room>>
documents == <<source, pool, dir, page, found, list>>

ConvertInit ==
    /\ kind \in [Request -> {"link", "file", "client"}]
    /\ handler = [r \in Request |-> "idle"]
    /\ job = [r \in Request |-> "none"]
    /\ failed = {} /\ office = {} /\ source = {} /\ dir = {} /\ overran = {}
    /\ pool = [r \in Request |-> Blank]
    /\ page = [r \in Request |-> Blank]
    /\ found = [r \in Request |-> {}]
    /\ list = [r \in Request |-> {}]
    /\ lock = NoRequest
    /\ room = "open"

HandlerGoto(r, at) == handler' = [handler EXCEPT ![r] = at]
JobGoto(r, at) == job' = [job EXCEPT ![r] = at]

(* Only what the request itself has set is deleted.                        *)
Unlock(r) == lock' = IF lock = r THEN NoRequest ELSE lock

-----------------------------------------------------------------------------
(* The handlers: HandleUploadWhiteboardFile with                           *)
(* UploadWhiteboardFileFromAuthApi, and HandleConvertWhiteboardFile.       *)

TryLock(r) ==
    /\ room = "open"
    /\ kind[r] # "client"
    /\ handler[r] = "idle"
    /\ IF lock = NoRequest THEN lock' = r /\ HandlerGoto(r, "locked")
       ELSE HandlerGoto(r, "answered") /\ UNCHANGED lock   \* StatusConflict
    /\ UNCHANGED <<kind, job, failed, office, documents, overran, room>>

HandleConvertWhiteboardFile(r) ==
    /\ room = "open"
    /\ kind[r] = "client"
    /\ handler[r] = "idle"
    /\ HandlerGoto(r, "waiting")
    /\ JobGoto(r, "open")
    /\ source' = source \cup {r}
    /\ office' \in {office, office \cup {r}}
    /\ UNCHANGED <<kind, failed, pool, dir, page, found, list, lock, overran, room>>

(* A document that is refused: the deferred Unlock.                        *)
Refuse(r) ==
    /\ handler[r] = "locked"
    /\ HandlerGoto(r, "unlock")
    /\ UNCHANGED <<kind, job, failed, office, documents, lock, overran, room>>

StartDownload(r) ==
    /\ handler[r] = "locked"
    /\ kind[r] = "link"
    /\ HandlerGoto(r, "waiting")
    /\ JobGoto(r, "download")
    /\ UNCHANGED <<kind, failed, office, documents, lock, overran, room>>

(* MkdirAll and SaveFile, then ConvertAndBroadcastWhiteboardFile.          *)
SaveDocument(r) ==
    /\ handler[r] = "locked"
    /\ kind[r] = "file"
    /\ HandlerGoto(r, "waiting")
    /\ JobGoto(r, "open")
    /\ source' = source \cup {r}
    /\ office' \in {office, office \cup {r}}
    /\ UNCHANGED <<kind, failed, pool, dir, page, found, list, lock, overran, room>>

(* The result is sent before the goroutine's deferred Unlock.              *)
HandleResult(r) ==
    /\ handler[r] = "waiting"
    /\ job[r] \in {"unlock", "done"}
    /\ HandlerGoto(r, IF kind[r] # "client" /\ r \in failed THEN "unlock" ELSE "answered")
    /\ UNCHANGED <<kind, job, failed, office, documents, lock, overran, room>>

(* ErrConversionTimeout, or the end of RequestCtx: the lock is left to the *)
(* goroutine.                                                              *)
HandlerTimeout(r) ==
    /\ handler[r] = "waiting"
    /\ HandlerGoto(r, "answered")
    /\ UNCHANGED <<kind, job, failed, office, documents, lock, overran, room>>

HandlerUnlock(r) ==
    /\ handler[r] = "unlock"
    /\ Unlock(r)
    /\ HandlerGoto(r, "answered")
    /\ UNCHANGED <<kind, job, failed, office, documents, overran, room>>

-----------------------------------------------------------------------------
(* DownloadAndProcessWhiteboardFile.                                       *)

Download(r) ==
    /\ job[r] = "download"
    /\ JobGoto(r, "open")
    /\ source' = source \cup {r}
    /\ office' \in {office, office \cup {r}}
    /\ UNCHANGED <<kind, handler, failed, pool, dir, page, found, list, lock, overran, room>>

(* Variant with a bug: the handler is trusted to unlock.                   *)
DownloadFailsOnly(r) ==
    /\ job[r] = "download"
    /\ failed' = failed \cup {r}
    /\ JobGoto(r, "done")
    /\ UNCHANGED <<kind, handler, office, documents, lock, overran, room>>

(* downloadFile has an error: Unlock, then the result.                     *)
DownloadFails(r) ==
    /\ job[r] = "download"
    /\ failed' = failed \cup {r}
    /\ Unlock(r)
    /\ JobGoto(r, "done")
    /\ UNCHANGED <<kind, handler, office, documents, overran, room>>

-----------------------------------------------------------------------------
(* processAndBroadcastWhiteboardFile; an error removes the directory.      *)

Fail(r) ==
    /\ failed' = failed \cup {r}
    /\ dir' = dir \ {r}
    /\ page' = [page EXCEPT ![r] = Blank]
    /\ JobGoto(r, "unlock")
    /\ UNCHANGED <<kind, handler, office, source, found, list, lock, overran, room>>

(* The type is checked and the output directory made.                      *)
OpenDocument(r) ==
    /\ job[r] = "open"
    /\ r \in source
    /\ dir' = dir \cup {r}
    /\ JobGoto(r, "pdf")
    /\ UNCHANGED <<kind, handler, failed, office, source, pool, page, found, list, lock, overran, room>>

(* soffice makes its output directory; a PDF is used where it is.          *)
ConvertToPDF(r) ==
    /\ job[r] = "pdf"
    /\ r \in source
    /\ dir' = IF r \in office THEN dir \cup {r} ELSE dir
    /\ JobGoto(r, "count")
    /\ UNCHANGED <<kind, handler, failed, office, source, pool, page, found, list, lock, overran, room>>

PDFThere(r) == IF r \in office THEN r \in dir ELSE r \in source

(* getPDFPageCount, and every range is given to the pool.                  *)
CountPDF(r) ==
    /\ job[r] = "count"
    /\ PDFThere(r)
    /\ pool' = [pool EXCEPT ![r] = [c \in Range |-> "queued"]]
    /\ JobGoto(r, "draw")
    /\ UNCHANGED <<kind, handler, failed, office, source, dir, page, found, list, lock, overran, room>>

(* A step before the pages are drawn fails.                                *)
EarlyError(r) ==
    /\ job[r] \in {"open", "pdf", "count"}
    /\ Fail(r)
    /\ UNCHANGED pool

-----------------------------------------------------------------------------
(* convertPDFToImages: setErr keeps the first error and cancels the rest.  *)

DrawStart(r, c) ==
    /\ job[r] = "draw"
    /\ pool[r][c] = "queued"
    /\ Cardinality({d \in Range : pool[r][d] = "running"}) < PoolSize
    /\ pool' = [pool EXCEPT ![r][c] = IF r \in failed THEN "over" ELSE "running"]
    /\ UNCHANGED <<kind, handler, job, failed, office, source, dir, page, found, list, lock, overran, room>>

DrawRange(r, c) ==
    /\ pool[r][c] = "running"
    /\ r \in dir /\ PDFThere(r)
    /\ page' = [page EXCEPT ![r][c] = "whole"]
    /\ pool' = [pool EXCEPT ![r][c] = "over"]
    /\ UNCHANGED <<kind, handler, job, failed, office, source, dir, found, list, lock, overran, room>>

(* Variant with a bug: the error is only logged.                           *)
DrawFailsLogged(r, c) ==
    /\ pool[r][c] = "running"
    /\ r \notin failed
    /\ page' = [page EXCEPT ![r][c] = IF r \in dir THEN "part" ELSE "none"]
    /\ pool' = [pool EXCEPT ![r][c] = "over"]
    /\ UNCHANGED <<kind, handler, job, failed, office, source, dir, found, list, lock, overran, room>>

(* The command fails, or the time of all of them is over.                  *)
DrawFails(r, c) ==
    /\ pool[r][c] = "running"
    /\ r \notin failed
    /\ page' = [page EXCEPT ![r][c] = IF r \in dir THEN "part" ELSE "none"]
    /\ pool' = [pool EXCEPT ![r][c] = "over"]
    /\ failed' = failed \cup {r}
    /\ UNCHANGED <<kind, handler, job, office, source, dir, found, list, lock, overran, room>>

(* A command that runs when another has failed is killed.                  *)
DrawKilled(r, c) ==
    /\ pool[r][c] = "running"
    /\ r \in failed
    /\ page' = [page EXCEPT ![r][c] = IF r \in dir THEN "part" ELSE "none"]
    /\ pool' = [pool EXCEPT ![r][c] = "over"]
    /\ UNCHANGED <<kind, handler, job, failed, office, source, dir, found, list, lock, overran, room>>

(* StopWait.                                                               *)
StopWait(r) ==
    /\ job[r] = "draw"
    /\ \A c \in Range : pool[r][c] = "over"
    /\ pool' = [pool EXCEPT ![r] = Blank]
    /\ IF r \in failed THEN Fail(r)
       ELSE /\ JobGoto(r, "meta")
            /\ UNCHANGED <<kind, handler, failed, office, source, dir, page, found, list, lock, overran, room>>

-----------------------------------------------------------------------------
Drawn(r) == {c \in Range : page[r][c] # "none"}

(* countPages finds what is drawn, without an error when nothing is, and   *)
(* each page gets its meta file.                                           *)
WritePageMetaFiles(r) ==
    /\ job[r] = "meta"
    /\ found' = [found EXCEPT ![r] = Drawn(r)]
    /\ JobGoto(r, "list")
    /\ UNCHANGED <<kind, handler, failed, office, source, pool, dir, page, list, lock, overran, room>>

MetaFails(r) ==
    /\ job[r] = "meta"
    /\ Drawn(r) # {}
    /\ Fail(r)
    /\ UNCHANGED pool

(* An error is only logged.                                                *)
AddFileToNatsStore(r) ==
    /\ job[r] = "list"
    /\ list' \in IF room = "gone" THEN {list} ELSE {list, [list EXCEPT ![r] = found[r]]}
    /\ JobGoto(r, "unlock")
    /\ UNCHANGED <<kind, handler, failed, office, source, pool, dir, page, found, lock, overran, room>>

JobUnlock(r) ==
    /\ job[r] = "unlock"
    /\ IF kind[r] # "client" THEN Unlock(r) ELSE UNCHANGED lock
    /\ JobGoto(r, "done")
    /\ UNCHANGED <<kind, handler, failed, office, documents, overran, room>>

-----------------------------------------------------------------------------
(* Five minutes are over, with soffice and mutool allowed as much each.    *)
LockExpires ==
    /\ lock # NoRequest
    /\ overran' = overran \cup {lock}
    /\ lock' = NoRequest
    /\ UNCHANGED <<kind, handler, job, failed, office, documents, room>>

(* The room ends: DeleteRoomUploadedDir, later the bucket is deleted.      *)
RemoveRoomDir ==
    /\ room = "open"
    /\ room' = "cleaned"
    /\ dir' = {} /\ source' = {}
    /\ page' = [r \in Request |-> Blank]
    /\ UNCHANGED <<kind, handler, job, failed, office, pool, found, list, lock, overran>>

RemoveBucket ==
    /\ room = "cleaned"
    /\ room' = "gone"
    /\ list' = [r \in Request |-> {}]
    /\ UNCHANGED <<kind, handler, job, failed, office, source, pool, dir, page, found, lock, overran>>

ConvertNext ==
    \/ LockExpires \/ RemoveRoomDir \/ RemoveBucket
    \/ \E r \in Request :
          \/ TryLock(r) \/ HandleConvertWhiteboardFile(r) \/ Refuse(r) \/ StartDownload(r)
          \/ SaveDocument(r) \/ HandleResult(r) \/ HandlerTimeout(r) \/ HandlerUnlock(r)
          \/ Download(r) \/ DownloadFails(r) \/ OpenDocument(r) \/ ConvertToPDF(r) \/ CountPDF(r)
          \/ EarlyError(r) \/ StopWait(r) \/ WritePageMetaFiles(r) \/ MetaFails(r)
          \/ AddFileToNatsStore(r) \/ JobUnlock(r)
          \/ \E c \in Range : DrawStart(r, c) \/ DrawRange(r, c) \/ DrawFails(r, c) \/ DrawKilled(r, c)

ConvertSpec == ConvertInit /\ [][ConvertNext]_convertVars

-----------------------------------------------------------------------------
(* Every variable has its type.                                            *)
ConvertTypeOK ==
    /\ kind \in [Request -> {"link", "file", "client"}]
    /\ handler \in [Request -> {"idle", "locked", "waiting", "unlock", "answered"}]
    /\ job \in [Request -> {"none", "download", "open", "pdf", "count", "draw", "meta", "list",
                            "unlock", "done"}]
    /\ failed \subseteq Request /\ office \subseteq Request /\ source \subseteq Request
    /\ dir \subseteq Request /\ overran \subseteq Request
    /\ pool \in [Request -> [Range -> {"none", "queued", "running", "over"}]]
    /\ page \in [Request -> [Range -> {"none", "part", "whole"}]]
    /\ found \in [Request -> SUBSET Range]
    /\ list \in [Request -> SUBSET Range]
    /\ lock \in Request \cup {NoRequest}
    /\ room \in {"open", "cleaned", "gone"}

(* A converted document that the room's files show has every page, drawn   *)
(* to its end and with its meta file, whichever command of the pool failed *)
(* or was killed (file_convert.go:533, :555).                              *)
ListedPagesAreWhole ==
    room = "open" => \A r \in Request :
        list[r] # {} => list[r] = Range /\ r \in dir
                        /\ \A c \in Range : page[r][c] = "whole"

(* The room's lock is held for a request whose handler or goroutine will   *)
(* release it, whichever of the two gave up first; nothing else than its   *)
(* expiry would free it (file_upload.go:370, file_download.go:29,          *)
(* file_convert.go:92).                                                    *)
LockWillBeFreed ==
    lock # NoRequest =>
        \/ handler[lock] \in {"locked", "unlock"}
        \/ job[lock] \notin {"none", "done"}

(* What these rest on.  A request that has not begun has no job; the lock  *)
(* is none of a client's; pages are drawn while the pool is at it, into a  *)
(* directory that is there as long as the room is and nothing failed; and  *)
(* nothing is listed before that.                                          *)
RequestsAreInOrder ==
    /\ \A r \in Request :
         /\ handler[r] \in {"idle", "locked"} => job[r] = "none"
         /\ job[r] # "draw" => pool[r] = Blank
         /\ job[r] \in {"meta", "list"} => r \notin failed
    /\ lock # NoRequest => kind[lock] # "client"

PagesFollow(r) ==
    /\ job[r] \notin {"unlock", "done"} => list[r] = {}
    /\ room = "open" /\ job[r] \in {"pdf", "count", "draw", "meta", "list"} => r \in dir
    /\ room = "open" /\ job[r] \in {"draw", "meta", "list"} =>
         \A c \in Range :
            page[r][c] = "whole" \/ r \in failed \/ pool[r][c] \in {"queued", "running"}
    /\ room = "open" /\ job[r] = "list" => found[r] = Range

PagesAreDrawn == \A r \in Request : PagesFollow(r)

ConvertInvariant ==
    /\ ConvertTypeOK /\ RequestsAreInOrder /\ PagesAreDrawn
    /\ ListedPagesAreWhole /\ LockWillBeFreed

(* Refuted: the lock keeps conversions of one room apart                   *)
(* (file_upload.go:352).                                                   *)
OneConversion ==
    Cardinality({r \in Request : job[r] \in {"open", "pdf", "count", "draw", "meta", "list"}}) <= 1
=============================================================================
