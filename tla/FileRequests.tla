---------------------------- MODULE FileRequests ----------------------------
(***************************************************************************)
(* What a request to the files service goes through: the input a page      *)
(* sends to the web server, its validator, the wire message built from it, *)
(* and the checks of the files service, up to where the service would act  *)
(* (FilesService, MultipartUpload and DirectoryIndex model the acts).      *)
(*                                                                         *)
(* An id is a string in the browser and a 64 bit number on the wire.       *)
(***************************************************************************)
EXTENDS ListRequests

CONSTANTS
    Id,         \* what may stand for an id in a URL
    Digits,     \* those that match /^\d+$/
    BigInt,     \* their values
    toString,   \* a value, written out again
    MaxInt64,   \* the greatest id the wire can carry
    UploadId,   \* the ids the store gives to multipart uploads
    IndexPrefix \* the prefix of derived objects, or Root for none

ASSUME IdAssumption ==
    /\ Digits \subseteq Id
    /\ BigInt \in [Digits -> Nat]
    /\ toString \in [{BigInt[id] : id \in Digits} -> Digits]
    /\ \A n \in DOMAIN toString : BigInt[toString[n]] = n
    /\ MaxInt64 \in Nat
    /\ UploadId \subseteq STRING \ {""}
    /\ IndexPrefix = Root \/ endsWithSlash(IndexPrefix)

\* An id as the lists hold it: the number of a row, as toString spells it.
Canonical(id) == id \in Digits /\ BigInt[id] <= MaxInt64 /\ toString[BigInt[id]] = id

----------------------------------------------------------------------------
(* Paths of uploads, and what the service thinks of keys and paths. *)

\* path.trim(): the blanks before its first segment and after its last.
trim(path) ==
    LET start == [path EXCEPT ![1] = trimStart[@]]
    IN  [start EXCEPT ![Len(path)] = trimEnd[@]]

\* split('/').filter(Boolean): the n-th segment that is not empty.
NonEmptySegments(path) ==
    LET S == {i \in DOMAIN path : path[i] # ""}
        position(i) == Cardinality({j \in S : j < i}) + 1
    IN  [n \in 1 .. Cardinality(S) |-> path[CHOOSE i \in S : position(i) = n]]

\* Leading slashes are dropped, doubled ones collapsed, a trailing one added.
normalizeUploadPath(path) ==
    LET segments == NonEmptySegments(trim(path))
    IN  IF segments = <<>> THEN Root ELSE Append(segments, "")

Absolute(key) == Len(key) > 1 /\ key[1] = ""
Reserved(key) ==
    /\ IndexPrefix # Root
    /\ Len(key) >= Len(IndexPrefix)
    /\ IsPrefix(Front(IndexPrefix), key)

validateUploadKey(key) ==
    key # Root /\ ~Absolute(key) /\ ~hasDotDotSegment(key) /\ ~Reserved(key)
validateDirPath(path) ==
    path # Root /\ endsWithSlash(path) /\ ~Absolute(path) /\ ~hasDotDotSegment(path)
        /\ ~Reserved(path)

----------------------------------------------------------------------------
(* The wire messages of the files service. *)

int64 == 0 .. MaxInt64
MaxInt32 == 2147483647
int32 == 0 .. MaxInt32

GetDownloadURLRequest == [ids : Seq(int64)]
GetOpenURLRequest == [ids : Seq(int64)]
GetPreviewURLRequest == [ids : Seq(int64)]
GetFilePreviewStatusesRequest == [ids : Seq(int64)]
GetFileInfoRequest == [id : int64]
DeleteFileRequest == [id : int64]
MoveFileRequest == [id : int64, destinationKey : Path]
GetUploadURLRequest == [key : Path]
CommitUploadRequest == [key : Path]
CreateMultipartUploadRequest == [key : Path, contentType : STRING]
GetUploadPartURLRequest == [key : Path, uploadId : STRING, partNumber : int32]
ListUploadedPartsRequest == [key : Path, uploadId : STRING]
CompleteMultipartUploadRequest == [key : Path, uploadId : STRING]
AbortMultipartUploadRequest == [key : Path, uploadId : STRING]
GetDirectoryStatsRequest == [path : Path]
DeleteDirectoryRequest == [path : Path]

\* The message each method takes.
FilesService ==
    [getDownloadURL |-> GetDownloadURLRequest, getOpenURL |-> GetOpenURLRequest,
     getPreviewURL |-> GetPreviewURLRequest, getFileInfo |-> GetFileInfoRequest,
     deleteFile |-> DeleteFileRequest, moveFile |-> MoveFileRequest,
     getUploadURL |-> GetUploadURLRequest, commitUpload |-> CommitUploadRequest,
     createMultipartUpload |-> CreateMultipartUploadRequest,
     getUploadPartURL |-> GetUploadPartURLRequest,
     listUploadedParts |-> ListUploadedPartsRequest,
     completeMultipartUpload |-> CompleteMultipartUploadRequest,
     abortMultipartUpload |-> AbortMultipartUploadRequest,
     getDirectoryStats |-> GetDirectoryStatsRequest,
     deleteDirectory |-> DeleteDirectoryRequest,
     getFilePreviewStatuses |-> GetFilePreviewStatusesRequest]

----------------------------------------------------------------------------
(* What the files service makes of a message: NotFound, AlreadyExists, a   *)
(* response, or a refusal.  Which rows exist is left open.  A response is  *)
(* reduced to what the web server looks at.                                *)

minPartNumber == 1
maxPartNumber == 10000

NotFound == [error |-> "NOT_FOUND"]
AlreadyExists == [error |-> "ALREADY_EXISTS"]
Empty == [done |-> TRUE]

\* The responses, by method.  URLs come with the numbers of the files found.
GetURLsResponse(ids) == {[urls |-> found] : found \in SUBSET ToSet(ids)}
FileResponse(id) == [file : {id}]
UploadResponse == [url : {"url"}]
StatsResponse == [fileCount : {0, 1}]
DeleteDirectoryResponse == [deletedCount : {0, 1}]

UploadRpc(req, responses) ==
    IF /\ validateUploadKey(req.key)
       /\ "uploadId" \in DOMAIN req => req.uploadId # ""
       /\ "partNumber" \in DOMAIN req => req.partNumber \in minPartNumber .. maxPartNumber
    THEN responses ELSE {Refused}
DirectoryRpc(req, responses) ==
    IF validateDirPath(req.path) THEN responses ELSE {Refused}

\* The file to move is found first, then the destination is checked, then
\* whether a file is there already, before and again under the locks.
MoveFile(req, key) ==
    {NotFound} \cup
    IF req.destinationKey = Root \/ req.destinationKey = key \/ Reserved(req.destinationKey)
    THEN {Refused} ELSE {AlreadyExists, Empty}

\* key: the key of the file a move is about, as the service has it.
Serve(method, req, key) ==
    CASE method \in {"getDownloadURL", "getOpenURL", "getPreviewURL",
                     "getFilePreviewStatuses"} -> GetURLsResponse(req.ids)
      [] method = "getFileInfo" -> {NotFound} \cup FileResponse(req.id)
      [] method = "deleteFile" -> {NotFound, Empty}
      [] method = "moveFile" -> MoveFile(req, key)
      [] method \in {"getUploadURL", "getUploadPartURL"} -> UploadRpc(req, UploadResponse)
      [] method = "createMultipartUpload" -> UploadRpc(req, [uploadId : UploadId])
      [] method \in {"listUploadedParts", "abortMultipartUpload"} -> UploadRpc(req, {Empty})
      [] method \in {"commitUpload", "completeMultipartUpload"} ->
            UploadRpc(req, {NotFound} \cup FileResponse(0))
      [] method = "getDirectoryStats" -> DirectoryRpc(req, StatsResponse)
      [] method = "deleteDirectory" -> DirectoryRpc(req, DeleteDirectoryResponse)

\* A message that does not fit its type cannot be encoded.
Send(method, req, key) ==
    IF req \in FilesService[method] THEN Serve(method, req, key) ELSE {Refused}

----------------------------------------------------------------------------
(* The web server: a validator, then a handler that sends one message and  *)
(* throws when the reply is an error or lacks what was asked for.          *)

Outcome(r, ok) == [reply |-> r, thrown |-> ~ok]
Outcomes(replies) ==
    {Outcome(r, r \notin {Refused, NotFound, AlreadyExists}) : r \in replies}
Handled(valid, outcomes) == IF valid THEN outcomes ELSE {Outcome(Refused, FALSE)}

validateIdInput(data) == data.id \in Digits
validateKeyInput(data) == data.key # Root
validateMoveFileInput(data) == data.id \in Digits /\ data.destinationKey # Root
validateCreateMultipartUploadInput(data) == data.key # Root /\ data.contentType # ""
validateUploadPartUrlInput(data) ==
    data.key # Root /\ data.uploadId # "" /\ data.partNumber \in Nat
validateUploadIdInput(data) == data.key # Root /\ data.uploadId # ""
validatePathInput(data) == data.path # Root
validateIdsInput(data) == data.ids \in Seq(Id)

\* The URL is looked up in the reply by the spelling of the id asked for.
UrlFor(id, replies) ==
    {Outcome(r, r # Refused /\ \E n \in r.urls : toString[n] = id) : r \in replies}

getDownloadUrlImpl(id) == UrlFor(id, Send("getDownloadURL", [ids |-> <<BigInt[id]>>], Root))
getOpenUrlImpl(id) == UrlFor(id, Send("getOpenURL", [ids |-> <<BigInt[id]>>], Root))
getFileMetadataImpl(id) == Outcomes(Send("getFileInfo", [id |-> BigInt[id]], Root))
deleteFileImpl(id) == Outcomes(Send("deleteFile", [id |-> BigInt[id]], Root))
moveFileImpl(id, destinationKey, key) ==
    Outcomes(Send("moveFile", [id |-> BigInt[id], destinationKey |-> destinationKey], key))
getUploadUrlImpl(key) == Outcomes(Send("getUploadURL", [key |-> key], Root))
commitUploadImpl(key) == Outcomes(Send("commitUpload", [key |-> key], Root))
createMultipartUploadImpl(key, contentType) ==
    Outcomes(Send("createMultipartUpload", [key |-> key, contentType |-> contentType], Root))
getUploadPartUrlImpl(key, uploadId, partNumber) ==
    Outcomes(Send("getUploadPartURL",
                  [key |-> key, uploadId |-> uploadId, partNumber |-> partNumber], Root))
UploadIdImpl(method, key, uploadId) ==
    Outcomes(Send(method, [key |-> key, uploadId |-> uploadId], Root))
listUploadedPartsImpl(key, uploadId) == UploadIdImpl("listUploadedParts", key, uploadId)
completeMultipartUploadImpl(key, uploadId) ==
    UploadIdImpl("completeMultipartUpload", key, uploadId)
abortMultipartUploadImpl(key, uploadId) == UploadIdImpl("abortMultipartUpload", key, uploadId)
getDirectoryStatsImpl(path) == Outcomes(Send("getDirectoryStats", [path |-> path], Root))
deleteDirectoryImpl(path) == Outcomes(Send("deleteDirectory", [path |-> path], Root))
\* BigInt throws on what is no number.
getFilePreviewStatusesImpl(ids) ==
    IF ToSet(ids) \subseteq Digits
    THEN Outcomes(Send("getFilePreviewStatuses",
                       [ids |-> [i \in DOMAIN ids |-> BigInt[ids[i]]]], Root))
    ELSE {Outcome(Refused, FALSE)}

\* The server functions.  key is the key of the file a call to moveFile is about.
Call(fn, data, key) ==
    CASE fn = "getDownloadUrl" ->
            Handled(validateIdInput(data), getDownloadUrlImpl(data.id))
      [] fn = "getOpenUrl" -> Handled(validateIdInput(data), getOpenUrlImpl(data.id))
      [] fn = "getFileMetadata" -> Handled(validateIdInput(data), getFileMetadataImpl(data.id))
      [] fn = "deleteFile" -> Handled(validateIdInput(data), deleteFileImpl(data.id))
      [] fn = "moveFile" -> Handled(validateMoveFileInput(data),
                                    moveFileImpl(data.id, data.destinationKey, key))
      [] fn = "getUploadUrl" -> Handled(validateKeyInput(data), getUploadUrlImpl(data.key))
      [] fn = "commitUpload" -> Handled(validateKeyInput(data), commitUploadImpl(data.key))
      [] fn = "createMultipartUpload" ->
            Handled(validateCreateMultipartUploadInput(data),
                    createMultipartUploadImpl(data.key, data.contentType))
      [] fn = "getUploadPartUrl" ->
            Handled(validateUploadPartUrlInput(data),
                    getUploadPartUrlImpl(data.key, data.uploadId, data.partNumber))
      [] fn = "listUploadedParts" ->
            Handled(validateUploadIdInput(data), listUploadedPartsImpl(data.key, data.uploadId))
      [] fn = "completeMultipartUpload" ->
            Handled(validateUploadIdInput(data),
                    completeMultipartUploadImpl(data.key, data.uploadId))
      [] fn = "abortMultipartUpload" ->
            Handled(validateUploadIdInput(data),
                    abortMultipartUploadImpl(data.key, data.uploadId))
      [] fn = "getDirectoryStats" ->
            Handled(validatePathInput(data), getDirectoryStatsImpl(data.path))
      [] fn = "deleteDirectory" ->
            Handled(validatePathInput(data), deleteDirectoryImpl(data.path))
      [] fn = "getFilePreviewStatuses" ->
            Handled(validateIdsInput(data), getFilePreviewStatusesImpl(data.ids))
=============================================================================
