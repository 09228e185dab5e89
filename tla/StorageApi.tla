------------------------------- MODULE StorageApi -------------------------------
(****************************************************************************)
(* The storage client: the files of a bucket (storage3/_async/file_api.py), *)
(* buckets (bucket.py), vectors (vectors.py) and analytics (analytics.py),  *)
(* over requests that the server may refuse, fail or answer too late.  An   *)
(* application may use one dict of file options, or one open file, for      *)
(* several calls.  One call at a time; the headers every sub-client shares  *)
(* by reference are one set.                                                *)
(****************************************************************************)
EXTENDS Naturals, FiniteSets

CONSTANTS
  Paths,
  None,
  Dicts,       \* the dicts of options the application makes
  MaxUses,     \* bound: calls with one dict of options
  MaxTokens    \* bound: signed upload tokens

VARIABLES
  shared,    \* headers in StorageClient._headers besides those it was made with
  options,   \* the caller's dict of file options, as calls leave it
  asked,     \* as the caller made it
  uses,      \* calls that were given it
  reader,    \* the caller's own BufferedReader
  objects,   \* server: the objects of the bucket, or None
  tokens,    \* signed upload tokens made
  last       \* the last call and what came of it

storageVars == <<shared, options, asked, uses, reader, objects, tokens, last>>
server == <<objects, tokens>>
callers == <<options, asked, uses, reader>>

(* FileOptions; cache counts the "max-age=" in front of the value the       *)
(* caller gave; header is the x-upsert in the entry `headers`, or None if   *)
(* there is no such entry                                                   *)
Options == [cache : {None} \cup 0..MaxUses, upsert : {None, "true", "false"},
            xupsert : {None, "true", "false"}, header : {None, "true", "false"}, metadata : BOOLEAN]
Dict(cache, upsert, xupsert, header, metadata) ==
  [cache |-> cache, upsert |-> upsert, xupsert |-> xupsert, header |-> header, metadata |-> metadata]
ASSUME StorageAssumption ==
  MaxUses \in Nat /\ MaxTokens \in Nat /\ Dicts \subseteq Options /\ None \notin {"true", "false"} \cup Nat

NoOptions == Dict(None, None, None, None, FALSE)
Objects == [cache : {None} \cup 0..MaxUses, metadata : BOOLEAN]
FileSources == {"reader", "other"}   \* a BufferedReader of the caller's; bytes, FileIO or a path

StorageInit ==
  /\ shared = {}
  /\ options = NoOptions /\ asked = options /\ uses = 0
  /\ reader = "open"
  /\ objects = [p \in Paths |-> None]
  /\ tokens = {}
  /\ last = [op |-> "none", path |-> None, out |-> "none"]

-----------------------------------------------------------------------------
(* Requests                                                                 *)

(* What a call raises for a status that is not a success: the body is the   *)
(* error documented, JSON without its keys, or no JSON                      *)
FileErrors == {"StorageApiError", "AttributeError", "JSONDecodeError"}
BucketErrors == {"StorageApiError", "KeyError", "JSONDecodeError"}
SentErrors == {"StorageApiError"}

(* What a call makes of a success: "unreadable" if it raises at a body that *)
(* is no JSON or has no Key                                                 *)
Accepted == {"ok", "unreadable"}

Done(op, p, out) == last' = [op |-> op, path |-> p, out |-> out]

(* Mutant: _request updates the headers every call shares.                  *)
SharedAfterLeft(own) == shared \cup own
(* _request puts the client's headers into the dict of the call             *)
SharedAfter(own) == shared

Applied(state) == objects' = state.objects /\ tokens' = state.tokens
Now == [objects |-> objects, tokens |-> tokens]

(* One request: accepted if ok, and then the server is as in state; or lost *)
(* before or after the server handled it; the headers of the call besides   *)
(* the client's                                                             *)
Request(op, p, own, ok, state, errors) ==
  /\ shared' = SharedAfter(own)
  /\ \/ ok /\ Applied(state) /\ \E out \in Accepted : Done(op, p, out)
     \/ ~ok /\ UNCHANGED server /\ Done(op, p, "StorageApiError")
     \/ UNCHANGED server /\ \E e \in errors : Done(op, p, e)
     \/ /\ \/ UNCHANGED server
           \/ ok /\ Applied(state)
        /\ Done(op, p, "ConnectError")

-----------------------------------------------------------------------------
(* Uploads                                                                  *)

(* The options once cache-control, upsert, metadata and headers are popped  *)
Popped(o) == [NoOptions EXCEPT !.xupsert = IF o.upsert # None THEN o.upsert ELSE o.xupsert]

(* The x-upsert of the call: of the entry `headers`, or of the options      *)
UpsertOf(o) == IF o.header # None THEN o.header ELSE Popped(o).xupsert

(* Whether the request has x-upsert "true": the options' before the         *)
(* default's "false", the client's before both, on a POST only              *)
WantsUpsert(method, o, extra) ==
  method = "POST" /\ ("x-upsert" \in extra \/ UpsertOf(o) = "true")

Stored(o) == [cache |-> o.cache, metadata |-> o.metadata]

(* Mutant: the file is closed whatever came of the request.                 *)
CloseFileAlways(source) == reader' = IF source = "reader" THEN "closed" ELSE reader
(* The end of _request: a BufferedReader is closed after a success only,    *)
(* before the body is read; one that the call opened from a path is then    *)
(* left open                                                                *)
CloseFile(source) ==
  reader' = IF source = "reader" /\ last'.out \in Accepted THEN "closed" ELSE reader

(* _upload_or_update: upload() is a POST, update() a PUT                    *)
UploadOrUpdate(op, method, p, source) ==
  /\ uses < MaxUses
  /\ options' = Popped(options) /\ uses' = uses + 1
  /\ \/ /\ source = "reader" /\ reader = "closed"
        /\ Done(op, p, "ValueError") /\ UNCHANGED <<shared, server, reader>>
     \/ /\ source # "reader" \/ reader = "open"
        /\ Request(op, p, IF WantsUpsert(method, options, {}) THEN {"x-upsert"} ELSE {},
                   IF method = "POST" THEN objects[p] = None \/ WantsUpsert(method, options, shared)
                                      ELSE objects[p] # None,
                   [Now EXCEPT !.objects[p] = Stored(options)], FileErrors)
        /\ CloseFile(source)
  /\ UNCHANGED asked

Upload(p, source) == UploadOrUpdate("upload", "POST", p, source)
Update(p, source) == UploadOrUpdate("update", "PUT", p, source)

(* create_signed_upload_url: its token lets one upload overwrite or not     *)
CreateSignedUploadUrl(p, upsert) ==
  /\ Cardinality(tokens) < MaxTokens
  /\ Request("sign", None, IF upsert THEN {"x-upsert"} ELSE {},
             upsert \/ objects[p] = None,
             [Now EXCEPT !.tokens = @ \cup {[path |-> p, upsert |-> upsert \/ "x-upsert" \in shared]}],
             FileErrors \cup {"StorageException"})
  /\ UNCHANGED callers

(* upload_to_signed_url: cache-control of the caller's dict gets one more   *)
(* "max-age="; metadata or headers in it are no header values               *)
UploadToSignedUrl(token, source) ==
  LET more == IF options.cache = None THEN None ELSE options.cache + 1
      noHeader == options.metadata \/ options.header # None
      op == "upload_to_signed_url" IN
  /\ uses < MaxUses /\ options.cache \in {None} \cup 0..(MaxUses - 1)
  /\ options' = [options EXCEPT !.cache = more] /\ uses' = uses + 1
  /\ \/ /\ noHeader \/ (source = "reader" /\ reader = "closed")
        /\ Done(op, token.path, IF noHeader THEN "TypeError" ELSE "ValueError")
        /\ UNCHANGED <<shared, server, reader>>
     \/ /\ ~noHeader /\ (source # "reader" \/ reader = "open")
        /\ Request(op, token.path, {}, token.upsert \/ objects[token.path] = None,
                   [Now EXCEPT !.objects[token.path] = Stored(options)], FileErrors)
        /\ CloseFile(source)
  /\ UNCHANGED asked

-----------------------------------------------------------------------------
(* The other operations on files                                            *)

MoveOrCopy(op, p, q) ==
  /\ p # q
  /\ Request("move", None, {}, objects[p] # None /\ objects[q] = None,
             [Now EXCEPT !.objects = [objects EXCEPT ![q] = objects[p],
                                                     ![p] = IF op = "move" THEN None ELSE @]],
             FileErrors)
  /\ UNCHANGED callers

Remove(p) ==
  /\ Request("remove", None, {}, TRUE, [Now EXCEPT !.objects[p] = None], FileErrors)
  /\ UNCHANGED callers

(* info, download and the listings; a listing needs no object               *)
Read(op, p) ==
  /\ Request("read", None, IF op = "list" THEN {"Content-Type"} ELSE {},
             op \in {"list", "list_v2"} \/ objects[p] # None, Now, FileErrors)
  /\ UNCHANGED callers

(* create_signed_url refuses an object that is not there;                   *)
(* create_signed_urls reports it in its item; get_public_url asks nobody    *)
SignUrl(op, p) ==
  /\ \/ /\ op # "get_public_url"
        /\ Request("sign", None, {}, op = "create_signed_urls" \/ objects[p] # None, Now, FileErrors)
     \/ op = "get_public_url" /\ Done("sign", None, "ok") /\ UNCHANGED <<shared, server>>
  /\ UNCHANGED callers

(* exists: the answer to a HEAD has no body, so each error status is a      *)
(* JSONDecodeError and so False; a request lost raises                      *)
ExistsOf(out) == IF out = "ok" THEN "True" ELSE IF out = "ConnectError" THEN out ELSE "False"

Exists(p) ==
  /\ \E out \in (IF objects[p] # None THEN {"ok"} ELSE {}) \cup {"JSONDecodeError", "ConnectError"} :
       Done("exists", None, ExistsOf(out))
  /\ UNCHANGED <<shared, server, callers>>

-----------------------------------------------------------------------------
(* Buckets, vectors, analytics: whether the server accepts is its own state *)

Elsewhere(errors) ==
  /\ \E ok \in BOOLEAN : Request("bucket", None, {}, ok, Now, errors)
  /\ UNCHANGED callers

(* list_buckets, get_bucket, create_bucket, update_bucket, delete_bucket    *)
FileBuckets == Elsewhere(BucketErrors)

(* create, list and delete of vector buckets, and of the indexes of one     *)
VectorBuckets == Elsewhere(SentErrors)
VectorIndexes == Elsewhere(SentErrors)

(* get_bucket and get_index of vectors: None for whatever error             *)
GetOrNone ==
  /\ \E out \in {"ok", "absent", "ConnectError"} : Done("bucket", None, out)
  /\ UNCHANGED <<shared, server, callers>>

Analytics == Elsewhere(SentErrors)

EmptyBucket ==
  /\ Request("empty_bucket", None, {}, TRUE,
             [Now EXCEPT !.objects = [p \in Paths |-> None]], BucketErrors)
  /\ UNCHANGED callers

(* put, get, list, query and delete of vectors: one request, but a delete   *)
(* of no key or of more than 500 is refused here                            *)
Vectors(deleted) ==
  /\ \/ /\ deleted \notin 1..500
        /\ Done("bucket", None, "VectorBucketException") /\ UNCHANGED <<shared, server>>
     \/ /\ deleted \in 1..500
        /\ \E ok \in BOOLEAN : Request("bucket", None, {}, ok, Now, SentErrors)
  /\ UNCHANGED callers

-----------------------------------------------------------------------------
(* The application makes a new dict of options, or opens its file again     *)
MakeOptions ==
  /\ \E o \in Dicts : options' = o /\ asked' = o
  /\ uses' = 0
  /\ UNCHANGED <<shared, reader, server, last>>

OpenFile ==
  /\ reader = "closed" /\ reader' = "open"
  /\ UNCHANGED <<shared, options, asked, uses, server, last>>

StorageNext ==
  \/ MakeOptions
  \/ OpenFile
  \/ \E p \in Paths :
       \/ \E source \in FileSources : Upload(p, source) \/ Update(p, source)
       \/ \E upsert \in BOOLEAN : CreateSignedUploadUrl(p, upsert)
       \/ \E q \in Paths, op \in {"move", "copy"} : MoveOrCopy(op, p, q)
       \/ Remove(p)
       \/ \E op \in {"info", "download", "list", "list_v2"} : Read(op, p)
       \/ \E op \in {"create_signed_url", "create_signed_urls", "get_public_url"} : SignUrl(op, p)
       \/ Exists(p)
  \/ \E token \in tokens, source \in FileSources : UploadToSignedUrl(token, source)
  \/ FileBuckets \/ VectorBuckets \/ VectorIndexes \/ GetOrNone \/ Analytics
  \/ EmptyBucket
  \/ \E deleted \in {0, 1, 500, 501} : Vectors(deleted)

StorageSpec == StorageInit /\ [][StorageNext]_storageVars

-----------------------------------------------------------------------------
(* Every value is of its kind, and a dict of options never gains an entry   *)
(* other than x-upsert.                                                     *)
TypeOK ==
  /\ shared \subseteq {"x-upsert", "Content-Type"}
  /\ options \in Options /\ asked \in Options /\ uses \in 0..MaxUses
  /\ reader \in {"open", "closed"}
  /\ objects \in [Paths -> Objects \cup {None}]
  /\ \A token \in tokens : token.path \in Paths /\ token.upsert \in BOOLEAN
  /\ asked.cache = None => options.cache = None
  /\ options.metadata => asked.metadata

(* One of the entries of the options asks to overwrite.                     *)
AsksForUpsert(o) ==
  o.header = "true" \/ o.upsert = "true" \/ (o.upsert = None /\ o.xupsert = "true")

(* An object that is there is overwritten only by a call that was to: an    *)
(* upload whose options ask for upsert, whatever calls came before it with  *)
(* the same options or with others, an update, or a signed upload           *)
(* (file_api.py:70-71, 517-543).                                            *)
NoSilentOverwrite ==
  [][\A p \in Paths :
       objects[p] # None /\ objects'[p] # objects[p] /\ objects'[p] # None =>
         \/ last'.op \in {"update", "upload_to_signed_url"}
         \/ last'.op = "upload" /\ AsksForUpsert(asked)]_storageVars

(* After an upload or update that raised, the caller's file is still open   *)
(* to be sent again, or the server has stored what was sent (the body of    *)
(* its answer could not be read); and a try again overwrites, or not, as    *)
(* the caller asked, unless that was in the entry `headers`: the first call *)
(* takes that out of the caller's dict, as it does cache-control and        *)
(* metadata (file_api.py:91-93, 517-525, 572-574).                          *)
FailedCanRetry ==
  [][last'.op \in {"upload", "update"} /\ last'.out # "ok" /\ uses' = uses + 1 =>
       /\ reader' = reader \/ objects'[last'.path] = Stored(options)
       /\ asked.header = None => WantsUpsert("POST", options', {}) = AsksForUpsert(asked)]_storageVars

=============================================================================
