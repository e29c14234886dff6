------------------------------- MODULE FileUploads -------------------------------
(***************************************************************************)
(* Files that users of a room upload: in parts that are merged (resumable  *)
(* uploads), as slices an export builds a PDF from, or in one piece.  Two  *)
(* uploads with the same file name are written to the same path.  Without  *)
(* storage hooks.                                                          *)
(*                                                                         *)
(* The client is external: it posts a part again when it hears nothing of  *)
(* it, however far the first post got, and asks for the merge, perhaps     *)
(* twice, when every part was answered.                                    *)
(***************************************************************************)
EXTENDS Naturals, FiniteSets

CONSTANTS
    Upload,
    NoUpload,
    Name,      \* paths
    Worker,    \* requests that are handled at the same time
    Parts      \* parts of each upload

Part == 1..Parts
Kind == {"resumable", "export", "inline"}

VARIABLES
    kind, name,  \* of each upload
    part,        \* the parts in each upload's directory: none, cut or whole
    answered,    \* the parts the client knows to be there
    dest,        \* what is at each path: of which upload, the parts it got whole
    list,        \* uploads the bucket lists as files
    work,        \* each worker: its request, where it is
    room,        \* open, cleaned (its directory is removed) or gone
    disputed     \* uploads whose path or parts two requests wrote at once, and
                 \* those another one replaced

uploadVars == <<kind, name, part, answered, dest, list, work, room, disputed>>

Nothing == [of |-> NoUpload, got |-> {}]
Free == [at |-> "free", up |-> NoUpload, part |-> 1]

UploadsInit ==
    /\ kind \in [Upload -> Kind]
    /\ name \in [Upload -> Name]
    /\ part = [u \in Upload |-> [p \in Part |-> "none"]]
    /\ answered = [u \in Upload |-> {}]
    /\ dest = [n \in Name |-> Nothing]
    /\ list = {}
    /\ work = [w \in Worker |-> Free]
    /\ room = "open"
    /\ disputed = {}

Goto(w, at) == work' = [work EXCEPT ![w].at = at]
Return(w) == work' = [work EXCEPT ![w] = Free]
Serve(w, u, p, at) ==
    /\ work[w].at = "free"
    /\ room = "open"
    /\ work' = [work EXCEPT ![w] = [at |-> at, up |-> u, part |-> p]]

Merging == {"create", "copy", "clean", "check", "list"}
On(u, ats) == {w \in Worker : work[w].up = u /\ work[w].at \in ats}

-----------------------------------------------------------------------------
(* ResumableFileUpload, GET: a part of the right size need not be sent, any *)
(* other is removed.                                                       *)

(* Variant with a bug: any part that exists need not be sent.              *)
CheckPartExists(w, u, p) ==
    /\ kind[u] = "resumable"
    /\ p \notin answered[u]
    /\ work[w].at = "free"
    /\ room = "open"
    /\ part[u][p] # "none"
    /\ answered' = [answered EXCEPT ![u] = @ \cup {p}]
    /\ UNCHANGED <<kind, name, part, dest, list, work, room, disputed>>

CheckPart(w, u, p) ==
    /\ kind[u] = "resumable"
    /\ p \notin answered[u]
    /\ \/ /\ part[u][p] = "whole"
          /\ work[w].at = "free"
          /\ room = "open"
          /\ answered' = [answered EXCEPT ![u] = @ \cup {p}]
          /\ UNCHANGED work
       \/ part[u][p] = "cut" /\ Serve(w, u, p, "unlink") /\ UNCHANGED answered
    /\ UNCHANGED <<kind, name, part, dest, list, room, disputed>>

RemovePart(w) ==
    LET u == work[w].up p == work[w].part IN
    /\ work[w].at = "unlink"
    /\ part' = [part EXCEPT ![u][p] = "none"]
    /\ Return(w)
    /\ UNCHANGED <<kind, name, answered, dest, list, room, disputed>>

(* The directory is made, also when the room's was removed, and SaveFile   *)
(* truncates what was there.                                               *)
Post(w, u, p) ==
    /\ p \notin answered[u]
    /\ Serve(w, u, p, "save")
    /\ part' = [part EXCEPT ![u][p] = "cut"]
    /\ UNCHANGED <<kind, name, answered, dest, list, room, disputed>>

(* ResumableFileUpload, POST.                                              *)
PostPart(w, u, p) == kind[u] = "resumable" /\ Post(w, u, p)

WhiteboardPdfExportSliceUpload(w, u, p) == kind[u] = "export" /\ Post(w, u, p)

(* All is written, unless the part was unlinked meanwhile; the client may  *)
(* not hear of it.                                                         *)
SavePart(w) ==
    LET u == work[w].up p == work[w].part IN
    /\ work[w].at = "save"
    /\ part' = [part EXCEPT ![u][p] = IF @ = "cut" THEN "whole" ELSE @]
    /\ answered' \in {answered, [answered EXCEPT ![u] = @ \cup {p}]}
    /\ Return(w)
    /\ UNCHANGED <<kind, name, dest, list, room, disputed>>

(* "failed to write chunk data": what was written stays.                   *)
PostFails(w) ==
    /\ work[w].at = "save"
    /\ Return(w)
    /\ UNCHANGED <<kind, name, part, answered, dest, list, room, disputed>>

-----------------------------------------------------------------------------
(* The directory of the parts is looked for first, before anything is      *)
(* created.                                                                *)
Ask(w, u) ==
    /\ answered[u] = Part
    /\ \E p \in Part : part[u][p] # "none"
    /\ Serve(w, u, 1, "create")
    /\ disputed' = disputed \cup (IF On(u, {"save", "unlink"} \cup Merging) # {} THEN {u} ELSE {})
    /\ UNCHANGED <<kind, name, part, answered, dest, list, room>>

UploadedFileMerge(w, u) == kind[u] = "resumable" /\ Ask(w, u)

MergeWhiteboardPdfExport(w, u) == kind[u] = "export" /\ Ask(w, u)

UploadBase64EncodedData(w, u) ==
    /\ kind[u] = "inline"
    /\ u \notin list
    /\ Serve(w, u, 1, "create")
    /\ disputed' = disputed \cup (IF On(u, Merging) # {} THEN {u} ELSE {})
    /\ UNCHANGED <<kind, name, part, answered, dest, list, room>>

(* os.Create: whatever is at the path is lost, and whoever writes there    *)
(* goes on doing so.                                                       *)
Create(w) ==
    LET u == work[w].up
        same == {v \in Upload : name[v] = name[u]}
        busy == {v \in same : On(v, Merging \ {"create"}) # {}} IN
    /\ work[w].at = "create"
    /\ dest' = [dest EXCEPT ![name[u]] = [of |-> u, got |-> {}]]
    /\ disputed' = disputed \cup busy \cup ((list \cap same) \ {u})
                     \cup (IF busy # {} THEN {u} ELSE {})
    /\ Goto(w, "copy")
    /\ UNCHANGED <<kind, name, part, answered, list, room>>

(* Variant with a bug: the loop goes on after the last part.               *)
CopyPartBeyond(w) ==
    LET u == work[w].up p == work[w].part IN
    /\ work[w].at = "copy"
    /\ kind[u] = "resumable"
    /\ IF part[u][p] = "none" THEN Return(w) /\ UNCHANGED dest
       ELSE /\ dest' = [dest EXCEPT ![name[u]].got = IF part[u][p] = "whole" THEN @ \cup {p} ELSE @]
            /\ work' = [work EXCEPT ![w].part = p + 1]
    /\ UNCHANGED <<kind, name, part, answered, list, room, disputed>>

(* combineResumableFiles: the next part is appended; a part that is not    *)
(* there ends the merge, and the half-made file stays.                     *)
CopyPart(w) ==
    LET u == work[w].up p == work[w].part IN
    /\ work[w].at = "copy"
    /\ kind[u] = "resumable"
    /\ IF part[u][p] = "none" THEN Return(w) /\ UNCHANGED dest
       ELSE /\ dest' = [dest EXCEPT ![name[u]].got = IF part[u][p] = "whole" THEN @ \cup {p} ELSE @]
            /\ IF p = Parts THEN Goto(w, "clean")
               ELSE work' = [work EXCEPT ![w].part = p + 1]
    /\ UNCHANGED <<kind, name, part, answered, list, room, disputed>>

(* img2pdf builds the file from the slices that are there, or fails.       *)
BuildPdf(w) ==
    LET u == work[w].up IN
    /\ work[w].at = "copy"
    /\ kind[u] = "export"
    /\ \/ /\ dest' = [dest EXCEPT ![name[u]].got = {p \in Part : part[u][p] = "whole"}]
          /\ Goto(w, "clean")
       \/ Return(w) /\ UNCHANGED dest
    /\ UNCHANGED <<kind, name, part, answered, list, room, disputed>>

(* Data in one piece are written at once.                                  *)
WriteFile(w) ==
    LET u == work[w].up IN
    /\ work[w].at = "copy"
    /\ kind[u] = "inline"
    /\ \/ /\ dest' = [dest EXCEPT ![name[u]].got = Part]
          /\ Goto(w, "list")
       \/ Return(w) /\ UNCHANGED dest
    /\ UNCHANGED <<kind, name, part, answered, list, room, disputed>>

(* RemoveAll of the parts.                                                 *)
CleanParts(w) ==
    LET u == work[w].up IN
    /\ work[w].at = "clean"
    /\ part' = [part EXCEPT ![u] = [p \in Part |-> "none"]]
    /\ Goto(w, IF kind[u] = "resumable" THEN "check" ELSE "list")
    /\ UNCHANGED <<kind, name, answered, dest, list, room, disputed>>

(* Its size and type are checked; what is refused is removed.              *)
CheckFile(w) ==
    LET u == work[w].up IN
    /\ work[w].at = "check"
    /\ \/ Goto(w, "list") /\ UNCHANGED dest
       \/ /\ dest' = [dest EXCEPT ![name[u]] = Nothing]
          /\ Return(w)
    /\ disputed' = disputed \cup {v \in list : name[v] = name[u]}
    /\ UNCHANGED <<kind, name, part, answered, list, room>>

(* Into the room's bucket, or an error.                                    *)
AddRoomFile(u) == list' \in IF room = "gone" THEN {list} ELSE {list, list \cup {u}}

(* An error of AddRoomFile is only logged.                                 *)
ListFile(w) ==
    /\ work[w].at = "list"
    /\ AddRoomFile(work[w].up)
    /\ Return(w)
    /\ UNCHANGED <<kind, name, part, answered, dest, room, disputed>>

-----------------------------------------------------------------------------
(* The room ends: DeleteRoomUploadedDir, later the bucket is deleted.      *)
DeleteRoomUploadedDir ==
    /\ room = "open"
    /\ room' = "cleaned"
    /\ part' = [u \in Upload |-> [p \in Part |-> "none"]]
    /\ dest' = [n \in Name |-> Nothing]
    /\ UNCHANGED <<kind, name, answered, list, work, disputed>>

DeleteBucket ==
    /\ room = "cleaned"
    /\ room' = "gone"
    /\ list' = {}
    /\ UNCHANGED <<kind, name, part, answered, dest, work, disputed>>

UploadsNext ==
    \/ DeleteRoomUploadedDir \/ DeleteBucket
    \/ \E w \in Worker :
          \/ \E u \in Upload :
                \/ UploadedFileMerge(w, u) \/ MergeWhiteboardPdfExport(w, u) \/ UploadBase64EncodedData(w, u)
                \/ \E p \in Part :
                      \/ CheckPart(w, u, p) \/ PostPart(w, u, p)
                      \/ WhiteboardPdfExportSliceUpload(w, u, p)
          \/ RemovePart(w) \/ SavePart(w) \/ PostFails(w)
          \/ Create(w) \/ CopyPart(w) \/ BuildPdf(w) \/ WriteFile(w) \/ CleanParts(w) \/ CheckFile(w) \/ ListFile(w)

UploadsSpec == UploadsInit /\ [][UploadsNext]_uploadVars

-----------------------------------------------------------------------------
(* Every variable has its type.                                            *)
UploadsTypeOK ==
    /\ kind \in [Upload -> Kind] /\ name \in [Upload -> Name]
    /\ part \in [Upload -> [Part -> {"none", "cut", "whole"}]]
    /\ answered \in [Upload -> SUBSET Part]
    /\ dest \in [Name -> [of : Upload \cup {NoUpload}, got : SUBSET Part]]
    /\ list \subseteq Upload /\ disputed \subseteq Upload
    /\ work \in [Worker -> [at : {"free", "save", "unlink"} \cup Merging,
                            up : Upload \cup {NoUpload}, part : Part]]
    /\ room \in {"open", "cleaned", "gone"}

(* A file the room's list shows is there with all its parts, however often *)
(* parts and merges were sent again and whatever a post that failed left   *)
(* behind; but for uploads that share a path and requests for one upload   *)
(* that overlap (file_upload.go:95, :222, :320).                           *)
ListedIsWhole ==
    room = "open" => \A u \in list \ disputed : dest[name[u]] = [of |-> u, got |-> Part]

(* What it rests on.  A request is about an upload of its kind, a merge    *)
(* about one whose parts were answered, and what a client has heard of is  *)
(* not half written; ...                                                   *)
RequestsKeepKind ==
    \A w \in Worker :
        LET at == work[w].at  u == work[w].up IN
        /\ at # "free" => u \in Upload
        /\ at = "unlink" \/ at = "check" => kind[u] = "resumable"
        /\ at \in {"save", "clean"} => kind[u] # "inline"
        /\ at \in Merging /\ kind[u] # "inline" => answered[u] = Part
        /\ at = "create" => work[w].part = 1

Merged(u) == answered[u] = Part /\ \A p \in Part : part[u][p] = "none"

AnsweredIsSaved ==
    \A u \in Upload, p \in Part :
        /\ p \in answered[u] => part[u][p] # "cut"
        /\ p \in answered[u] \/ (\E w \in On(u, {"save"}) : work[w].part = p) =>
             (kind[u] = "export" /\ part[u][p] = "none" => Merged(u))

(* ... one request merges an upload, when all its parts were answered, and *)
(* a file that is listed is not asked for again; ...                       *)
MergesAlone(u) ==
    /\ \A w, x \in On(u, Merging) : w = x
    /\ On(u, Merging) # {} \/ u \in list =>
         /\ kind[u] # "inline" => answered[u] = Part
         /\ On(u, {"save", "unlink"}) = {}
    /\ u \in list => On(u, Merging) = {} /\ (kind[u] # "inline" => Merged(u))
    /\ kind[u] # "inline" /\ On(u, {"check", "list"}) # {} => Merged(u)
    /\ kind[u] = "export" /\ On(u, {"create", "copy", "clean"}) # {} => ~Merged(u)

(* ... and the path is its own.                                            *)
Writes(w) == work[w].at \in Merging \ {"create"}

PathIsOwned(u) ==
    /\ \A w, x \in Worker :
         /\ Writes(w) /\ Writes(x) /\ work[w].up = u /\ name[work[x].up] = name[u] => w = x
         /\ Writes(w) /\ u \in list => name[work[w].up] # name[u]
    /\ \A w \in On(u, Merging \ {"create"}) :
         dest[name[u]] = [of |-> u,
                          got |-> IF work[w].at = "copy"
                                  THEN (IF kind[u] = "resumable" THEN 1 .. work[w].part - 1 ELSE {})
                                  ELSE Part]

UploadsInvariant ==
    /\ UploadsTypeOK /\ RequestsKeepKind
    /\ room = "open" =>
         /\ AnsweredIsSaved
         /\ \A u \in Upload \ disputed : MergesAlone(u) /\ PathIsOwned(u)
    /\ ListedIsWhole

(* Refuted: nothing is left of a room that ended.  What a post or a merge  *)
(* under way writes after the directory was removed stays for good.        *)
NothingLeftBehind ==
    room = "gone" /\ (\A w \in Worker : work[w].at = "free")
    => dest = [n \in Name |-> Nothing] /\ \A u \in Upload, p \in Part : part[u][p] = "none"
=============================================================================
