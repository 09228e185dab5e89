---------------------------- MODULE StorageApiProofs ----------------------------
(****************************************************************************)
(* Proofs about the storage client, for any paths, any dicts of options and *)
(* any number of calls with one of them: what calls leave in the shared     *)
(* headers and in the caller's dict, and so what an upload may overwrite,   *)
(* what it stores and what a try again means.                               *)
(****************************************************************************)
EXTENDS StorageApi, TLAPS

USE StorageAssumption

-----------------------------------------------------------------------------
(* What the operators of the model are                                      *)

(* A request of a call changes the server if it is accepted, and only then; *)
(* an answer of success, read or not, says that it was.  The shared headers *)
(* are left as they were.                                                   *)
LEMMA RequestSent ==
  ASSUME NEW op, NEW p, NEW own, NEW ok \in BOOLEAN, NEW state, NEW errors, errors \cap Accepted = {},
         Request(op, p, own, ok, state, errors)
  PROVE  /\ shared' = shared /\ last'.op = op /\ last'.path = p
         /\ UNCHANGED server \/ (ok /\ Applied(state))
         /\ last'.out \in Accepted => ok /\ Applied(state)
<1>1. shared' = shared
  BY DEF Request, SharedAfter
<1>2. ASSUME NEW out, Done(op, p, out)
      PROVE  last'.op = op /\ last'.path = p /\ last'.out = out
  BY <1>2 DEF Done
<1>3. \/ ok /\ Applied(state) /\ \E out \in Accepted : Done(op, p, out)
      \/ UNCHANGED server /\ \E out \in errors \cup {"StorageApiError", "ConnectError"} : Done(op, p, out)
      \/ ok /\ Applied(state) /\ Done(op, p, "ConnectError")
  BY DEF Request
<1>4. errors \cup {"StorageApiError", "ConnectError"} \subseteq {e \in errors \cup {"StorageApiError", "ConnectError"} : e \notin Accepted}
  BY DEF Accepted
<1> QED
  BY <1>1, <1>2, <1>3, <1>4

LEMMA ErrorsAreNone ==
  /\ FileErrors \cap Accepted = {} /\ BucketErrors \cap Accepted = {} /\ SentErrors \cap Accepted = {}
  /\ (FileErrors \cup {"StorageException"}) \cap Accepted = {}
BY DEF FileErrors, BucketErrors, SentErrors, Accepted

(* A dict of options whose entries were popped asks for upsert as before,   *)
(* but for the entry `headers`, however often they are.  A call that sends  *)
(* x-upsert "true" was asked to.                                            *)
LEMMA PoppedAsks ==
  ASSUME NEW o \in Options
  PROVE  /\ Popped(o) \in Options /\ Popped(Popped(o)).xupsert = Popped(o).xupsert
         /\ Popped(o).cache = None /\ Popped(o).metadata = FALSE /\ Popped(o).header = None
         /\ AsksForUpsert(o) = (o.header = "true" \/ Popped(o).xupsert = "true")
         /\ UpsertOf(o) = "true" => AsksForUpsert(o)
BY StorageAssumption DEF Options, Popped, NoOptions, Dict, AsksForUpsert, UpsertOf

LEMMA DictsAre == NoOptions \in Options /\ \A o \in Dicts : o \in Options
BY DEF NoOptions, Dict, Options

LEMMA StoredTyped ==
  ASSUME NEW o \in Options
  PROVE  Stored(o) \in Objects
BY DEF Stored, Options, Objects

-----------------------------------------------------------------------------
(* The invariant: besides the types, the shared headers stay those of the   *)
(* client, and the caller's dict asks for upsert as it did when it was      *)
(* made, in one entry or the other: only the entry `headers` may be gone.   *)
StorageInvariant ==
  /\ TypeOK
  /\ shared = {}
  /\ Popped(options).xupsert = Popped(asked).xupsert
  /\ options.header \in {asked.header, None}

(* The two kinds of steps with a request: an upload, which is given the     *)
(* caller's options and may store an object; any other, which is not given  *)
(* them and may put an object only where there is none.                     *)
Stores(p) == objects' = [objects EXCEPT ![p] = Stored(options)] /\ tokens' = tokens

Uploads(op, p) ==
  /\ op \in {"upload", "update", "upload_to_signed_url"} /\ p \in Paths
  /\ last'.op = op /\ last'.path = p
  /\ shared' = {} /\ asked' = asked /\ uses' = uses + 1 /\ uses' <= MaxUses
  /\ reader' \in {"open", "closed"}
  /\ UNCHANGED server \/ Stores(p)
  /\ last'.out \in Accepted => Stores(p)
  /\ op = "upload" => UNCHANGED server \/ objects[p] = None \/ AsksForUpsert(options)
  /\ op # "upload_to_signed_url" =>
       options' = Popped(options) /\ (last'.out \in Accepted \/ reader' = reader)
  /\ options' = Popped(options) \/ (options'.cache \in {None} \cup 0..MaxUses /\
       options' = [options EXCEPT !.cache = options'.cache] /\ (options.cache = None => options'.cache = None))

OverwritesNothing ==
  /\ objects' \in [Paths -> Objects \cup {None}]
  /\ \A p \in Paths : objects'[p] \in {objects[p], None} \/ objects[p] = None

Leaves ==
  /\ shared' = {} /\ UNCHANGED <<options, asked, uses>>
  /\ reader' \in {"open", "closed"}
  /\ OverwritesNothing
  /\ \A token \in tokens' : token.path \in Paths /\ token.upsert \in BOOLEAN

LEMMA UploadOrUpdateUploads ==
  ASSUME StorageInvariant, NEW p \in Paths, NEW source \in FileSources,
         NEW op, NEW method, <<op, method>> \in {<<"upload", "POST">>, <<"update", "PUT">>},
         UploadOrUpdate(op, method, p, source)
  PROVE  Uploads(op, p)
<1> DEFINE state == [Now EXCEPT !.objects[p] = Stored(options)]
           own == IF WantsUpsert(method, options, {}) THEN {"x-upsert"} ELSE {}
           ok == IF method = "POST" THEN objects[p] = None \/ WantsUpsert(method, options, shared)
                                    ELSE objects[p] # None
<1>1. state.objects = [objects EXCEPT ![p] = Stored(options)] /\ state.tokens = tokens
  BY StoredTyped DEF Now, StorageInvariant, TypeOK
<1>2. op \in {"upload", "update"} /\ (op = "upload" => method = "POST")
  OBVIOUS
<1>3. /\ uses < MaxUses /\ options' = Popped(options) /\ uses' = uses + 1 /\ asked' = asked
      /\ \/ Done(op, p, "ValueError") /\ UNCHANGED <<shared, server, reader>>
         \/ Request(op, p, own, ok, state, FileErrors) /\ CloseFile(source)
  BY DEF UploadOrUpdate
<1>4. ok \in BOOLEAN
  BY DEF WantsUpsert
<1>5. op = "upload" /\ ok => objects[p] = None \/ AsksForUpsert(options)
  BY <1>2, PoppedAsks DEF WantsUpsert, StorageInvariant, TypeOK
<1> HIDE DEF state, own, ok
<1>6. CASE Done(op, p, "ValueError") /\ UNCHANGED <<shared, server, reader>>
  BY <1>2, <1>3, <1>6 DEF Done, Uploads, Accepted, StorageInvariant, TypeOK
<1>7. CASE Request(op, p, own, ok, state, FileErrors) /\ CloseFile(source)
  <2>1. /\ shared' = shared /\ last'.op = op /\ last'.path = p
        /\ UNCHANGED server \/ (ok /\ Applied(state))
        /\ last'.out \in Accepted => ok /\ Applied(state)
    BY <1>4, <1>7, RequestSent, ErrorsAreNone
  <2>2. Applied(state) => Stores(p)
    BY <1>1 DEF Applied, Stores
  <2>3. reader' \in {"open", "closed"} /\ (last'.out \in Accepted \/ reader' = reader)
    BY <1>7 DEF CloseFile, StorageInvariant, TypeOK
  <2> QED
    BY <1>2, <1>3, <1>5, <2>1, <2>2, <2>3 DEF Uploads, StorageInvariant, TypeOK
<1> QED
  BY <1>3, <1>6, <1>7

LEMMA SignedUploads ==
  ASSUME StorageInvariant, NEW token \in tokens, NEW source \in FileSources,
         UploadToSignedUrl(token, source)
  PROVE  Uploads("upload_to_signed_url", token.path)
<1> DEFINE p == token.path
           op == "upload_to_signed_url"
           more == IF options.cache = None THEN None ELSE options.cache + 1
           state == [Now EXCEPT !.objects[p] = Stored(options)]
           ok == token.upsert \/ objects[p] = None
<1>1. p \in Paths /\ ok \in BOOLEAN
  BY DEF StorageInvariant, TypeOK
<1>2. state.objects = [objects EXCEPT ![p] = Stored(options)] /\ state.tokens = tokens
  BY StoredTyped DEF Now, StorageInvariant, TypeOK
<1>3. /\ uses < MaxUses /\ options.cache \in {None} \cup 0..(MaxUses - 1)
      /\ options' = [options EXCEPT !.cache = more] /\ uses' = uses + 1 /\ asked' = asked
      /\ \/ \E e \in {"TypeError", "ValueError"} : Done(op, p, e) /\ UNCHANGED <<shared, server, reader>>
         \/ Request(op, p, {}, ok, state, FileErrors) /\ CloseFile(source)
  BY DEF UploadToSignedUrl
<1>4. /\ options'.cache = more /\ more \in {None} \cup 0..MaxUses
      /\ options.cache = None => more = None
      /\ options' = [options EXCEPT !.cache = options'.cache]
  BY <1>3 DEF StorageInvariant, TypeOK, Options
<1> SUFFICES Uploads(op, p)
  OBVIOUS
<1> HIDE DEF p, op, more, state, ok
<1>5. CASE \E e \in {"TypeError", "ValueError"} : Done(op, p, e) /\ UNCHANGED <<shared, server, reader>>
  BY <1>1, <1>3, <1>4, <1>5 DEF Done, Uploads, Accepted, StorageInvariant, TypeOK, op
<1>6. CASE Request(op, p, {}, ok, state, FileErrors) /\ CloseFile(source)
  <2>1. /\ shared' = shared /\ last'.op = op /\ last'.path = p
        /\ UNCHANGED server \/ (ok /\ Applied(state))
        /\ last'.out \in Accepted => ok /\ Applied(state)
    BY <1>1, <1>6, RequestSent, ErrorsAreNone
  <2>2. Applied(state) => Stores(p)
    BY <1>2 DEF Applied, Stores
  <2>3. reader' \in {"open", "closed"}
    BY <1>6 DEF CloseFile, StorageInvariant, TypeOK
  <2> QED
    BY <1>1, <1>3, <1>4, <2>1, <2>2, <2>3 DEF Uploads, StorageInvariant, TypeOK, op
<1> QED
  BY <1>3, <1>5, <1>6

(* A request that is not given the options, whatever it does where it is    *)
(* accepted.                                                                *)
LEMMA RequestLeaves ==
  ASSUME StorageInvariant, UNCHANGED callers,
         NEW op, NEW p, NEW own, NEW ok \in BOOLEAN, NEW state, NEW errors, errors \cap Accepted = {},
         Request(op, p, own, ok, state, errors),
         ok /\ Applied(state) =>
           OverwritesNothing /\ \A token \in tokens' : token.path \in Paths /\ token.upsert \in BOOLEAN
  PROVE  Leaves
<1>1. shared' = shared /\ (UNCHANGED server \/ (ok /\ Applied(state)))
  BY RequestSent
<1>2. UNCHANGED server => OverwritesNothing
  BY DEF OverwritesNothing, server, StorageInvariant, TypeOK
<1> QED
  BY <1>1, <1>2 DEF Leaves, callers, server, StorageInvariant, TypeOK

LEMMA QuietLeaves ==
  ASSUME StorageInvariant, UNCHANGED <<shared, options, asked, uses, server>>, reader' \in {"open", "closed"}
  PROVE  Leaves
BY DEF Leaves, OverwritesNothing, server, StorageInvariant, TypeOK

LEMMA ReadingLeaves ==
  ASSUME StorageInvariant, UNCHANGED callers,
         NEW op, NEW p, NEW own, NEW ok \in BOOLEAN, NEW errors, errors \cap Accepted = {},
         Request(op, p, own, ok, Now, errors)
  PROVE  Leaves
<1>1. Applied(Now) => UNCHANGED server
  BY DEF Applied, Now, server
<1>2. Applied(Now) =>
        OverwritesNothing /\ \A token \in tokens' : token.path \in Paths /\ token.upsert \in BOOLEAN
  BY <1>1 DEF OverwritesNothing, server, StorageInvariant, TypeOK
<1> QED
  BY <1>2, RequestLeaves

LEMMA SigningLeaves ==
  ASSUME StorageInvariant, NEW p \in Paths, NEW upsert \in BOOLEAN, CreateSignedUploadUrl(p, upsert)
  PROVE  Leaves
<1> DEFINE new == [path |-> p, upsert |-> upsert \/ "x-upsert" \in shared]
           state == [Now EXCEPT !.tokens = @ \cup {new}]
           own == IF upsert THEN {"x-upsert"} ELSE {}
           ok == upsert \/ objects[p] = None
           errors == FileErrors \cup {"StorageException"}
<1>1. state.objects = objects /\ state.tokens = tokens \cup {new} /\ ok \in BOOLEAN
  BY DEF Now
<1>2. new.path = p /\ new.upsert \in BOOLEAN
  OBVIOUS
<1>3. Request("sign", None, own, ok, state, errors) /\ UNCHANGED callers
  BY DEF CreateSignedUploadUrl
<1>4. errors \cap Accepted = {}
  BY ErrorsAreNone
<1> HIDE DEF new, state, own, ok, errors
<1>5. Applied(state) =>
        OverwritesNothing /\ \A token \in tokens' : token.path \in Paths /\ token.upsert \in BOOLEAN
  BY <1>1, <1>2 DEF Applied, OverwritesNothing, StorageInvariant, TypeOK
<1> QED
  BY <1>1, <1>3, <1>4, <1>5, RequestLeaves

LEMMA MovingLeaves ==
  ASSUME StorageInvariant, NEW p \in Paths, NEW q \in Paths, NEW op \in {"move", "copy"}, MoveOrCopy(op, p, q)
  PROVE  Leaves
<1> DEFINE moved == [objects EXCEPT ![q] = objects[p], ![p] = IF op = "move" THEN None ELSE @]
           state == [Now EXCEPT !.objects = [objects EXCEPT ![q] = objects[p],
                                                            ![p] = IF op = "move" THEN None ELSE @]]
           ok == objects[p] # None /\ objects[q] = None
<1>1. state.objects = moved /\ state.tokens = tokens /\ ok \in BOOLEAN
  BY DEF Now
<1>2. Request("move", None, {}, ok, state, FileErrors) /\ UNCHANGED callers /\ p # q
  BY DEF MoveOrCopy
<1>3. moved \in [Paths -> Objects \cup {None}]
  BY DEF StorageInvariant, TypeOK
<1>4. ok => \A r \in Paths : moved[r] \in {objects[r], None} \/ objects[r] = None
  BY <1>2 DEF StorageInvariant, TypeOK
<1> HIDE DEF moved, state, ok
<1>5. ok /\ Applied(state) =>
        OverwritesNothing /\ \A token \in tokens' : token.path \in Paths /\ token.upsert \in BOOLEAN
  BY <1>1, <1>3, <1>4 DEF Applied, OverwritesNothing, StorageInvariant, TypeOK
<1> QED
  BY <1>1, <1>2, <1>5, ErrorsAreNone, RequestLeaves

LEMMA RemovingLeaves ==
  ASSUME StorageInvariant, NEW p \in Paths, Remove(p)
  PROVE  Leaves
<1> DEFINE left == [objects EXCEPT ![p] = None]
           state == [Now EXCEPT !.objects[p] = None]
<1>1. state.objects = left /\ state.tokens = tokens
  BY DEF Now
<1>2. Request("remove", None, {}, TRUE, state, FileErrors) /\ UNCHANGED callers
  BY DEF Remove
<1>3. left \in [Paths -> Objects \cup {None}] /\ \A r \in Paths : left[r] \in {objects[r], None}
  BY DEF StorageInvariant, TypeOK
<1> HIDE DEF left, state
<1>4. Applied(state) =>
        OverwritesNothing /\ \A token \in tokens' : token.path \in Paths /\ token.upsert \in BOOLEAN
  BY <1>1, <1>3 DEF Applied, OverwritesNothing, StorageInvariant, TypeOK
<1> QED
  BY <1>2, <1>4, ErrorsAreNone, RequestLeaves

LEMMA EmptyingLeaves ==
  ASSUME StorageInvariant, EmptyBucket
  PROVE  Leaves
<1> DEFINE left == [p \in Paths |-> None]
           state == [Now EXCEPT !.objects = [p \in Paths |-> None]]
<1>1. state.objects = left /\ state.tokens = tokens
  BY DEF Now
<1>2. Request("empty_bucket", None, {}, TRUE, state, BucketErrors) /\ UNCHANGED callers
  BY DEF EmptyBucket
<1>3. left \in [Paths -> Objects \cup {None}] /\ \A r \in Paths : left[r] = None
  OBVIOUS
<1> HIDE DEF left, state
<1>4. Applied(state) =>
        OverwritesNothing /\ \A token \in tokens' : token.path \in Paths /\ token.upsert \in BOOLEAN
  BY <1>1, <1>3 DEF Applied, OverwritesNothing, StorageInvariant, TypeOK
<1> QED
  BY <1>2, <1>4, ErrorsAreNone, RequestLeaves

(* Every step is an upload, one that leaves the options, or a new dict.     *)
LEMMA StepsOfStorage ==
  ASSUME StorageInvariant, StorageNext
  PROVE  MakeOptions \/ Leaves \/ \E op, p : Uploads(op, p)
<1>1. CASE OpenFile
  BY <1>1, QuietLeaves DEF OpenFile, server
<1>2. ASSUME NEW p \in Paths, NEW source \in FileSources, Upload(p, source) \/ Update(p, source)
      PROVE  \E op : Uploads(op, p)
  BY <1>2, UploadOrUpdateUploads DEF Upload, Update
<1>3. ASSUME NEW token \in tokens, NEW source \in FileSources, UploadToSignedUrl(token, source)
      PROVE  \E op, p : Uploads(op, p)
  BY <1>3, SignedUploads
<1>4. ASSUME NEW p \in Paths, NEW op \in {"info", "download", "list", "list_v2"}, Read(op, p)
      PROVE  Leaves
  BY <1>4, ReadingLeaves, ErrorsAreNone DEF Read
<1>5. ASSUME NEW p \in Paths, NEW op \in {"create_signed_url", "create_signed_urls", "get_public_url"}, SignUrl(op, p)
      PROVE  Leaves
  <2>1. CASE Request("sign", None, {}, op = "create_signed_urls" \/ objects[p] # None, Now, FileErrors)
    BY <1>5, <2>1, ReadingLeaves, ErrorsAreNone DEF SignUrl
  <2>2. CASE UNCHANGED <<shared, server>>
    BY <1>5, <2>2, QuietLeaves DEF SignUrl, callers, StorageInvariant, TypeOK
  <2> QED
    BY <1>5, <2>1, <2>2 DEF SignUrl
<1>6. ASSUME (\E p \in Paths : Exists(p)) \/ GetOrNone
      PROVE  Leaves
  BY <1>6, QuietLeaves DEF Exists, GetOrNone, callers, StorageInvariant, TypeOK
<1>7. ASSUME NEW errors, errors \cap Accepted = {}, Elsewhere(errors)
      PROVE  Leaves
  BY <1>7, ReadingLeaves DEF Elsewhere
<1>8. ASSUME NEW deleted, Vectors(deleted)
      PROVE  Leaves
  <2>1. CASE \E ok \in BOOLEAN : Request("bucket", None, {}, ok, Now, SentErrors)
    BY <1>8, <2>1, ReadingLeaves, ErrorsAreNone DEF Vectors
  <2>2. CASE UNCHANGED <<shared, server>>
    BY <1>8, <2>2, QuietLeaves DEF Vectors, callers, StorageInvariant, TypeOK
  <2> QED
    BY <1>8, <2>1, <2>2 DEF Vectors
<1>9. CASE FileBuckets \/ VectorBuckets \/ VectorIndexes \/ Analytics
  BY <1>7, <1>9, ErrorsAreNone DEF FileBuckets, VectorBuckets, VectorIndexes, Analytics
<1> QED
  BY <1>1, <1>2, <1>3, <1>4, <1>5, <1>6, <1>8, <1>9, SigningLeaves, MovingLeaves, RemovingLeaves, EmptyingLeaves
  DEF StorageNext

-----------------------------------------------------------------------------
(* The invariant is kept.                                                   *)

LEMMA UploadsKeep ==
  ASSUME StorageInvariant, NEW op, NEW p, Uploads(op, p)
  PROVE  StorageInvariant'
<1>1. options \in Options /\ asked \in Options /\ uses \in Nat
  BY DEF StorageInvariant, TypeOK
<1>2. /\ options' \in Options /\ Popped(options').xupsert = Popped(options).xupsert
      /\ options.cache = None => options'.cache = None
      /\ options'.metadata => options.metadata
      /\ options'.header \in {options.header, None}
  <2>1. CASE options' = Popped(options)
    BY <1>1, <2>1, PoppedAsks
  <2>2. CASE /\ options'.cache \in {None} \cup 0..MaxUses
             /\ options' = [options EXCEPT !.cache = options'.cache]
             /\ options.cache = None => options'.cache = None
    BY <1>1, <2>2 DEF Options, Popped, NoOptions, Dict
  <2> QED
    BY <2>1, <2>2 DEF Uploads
<1>3. Stores(p) => objects' \in [Paths -> Objects \cup {None}]
  BY <1>1, StoredTyped DEF Stores, Uploads, StorageInvariant, TypeOK
<1>4. objects' \in [Paths -> Objects \cup {None}] /\ tokens' = tokens
  BY <1>3 DEF Uploads, Stores, server, StorageInvariant, TypeOK
<1> QED
  BY <1>1, <1>2, <1>4 DEF Uploads, StorageInvariant, TypeOK

(* Types and what the options keep, in every reachable state                *)
LEMMA StorageInvariantAlways == StorageSpec => []StorageInvariant
<1>1. StorageInit => StorageInvariant
  BY DictsAre DEF StorageInit, StorageInvariant, TypeOK, NoOptions, Dict
<1>2. StorageInvariant /\ [StorageNext]_storageVars => StorageInvariant'
  <2> SUFFICES ASSUME StorageInvariant, [StorageNext]_storageVars
               PROVE  StorageInvariant'
    OBVIOUS
  <2>1. CASE MakeOptions
    BY <2>1, DictsAre DEF MakeOptions, server, StorageInvariant, TypeOK, Options
  <2>2. CASE Leaves
    BY <2>2 DEF Leaves, OverwritesNothing, StorageInvariant, TypeOK
  <2>3. CASE UNCHANGED storageVars
    BY <2>3 DEF storageVars, StorageInvariant, TypeOK
  <2> QED
    BY <2>1, <2>2, <2>3, StepsOfStorage, UploadsKeep
<1> QED
  BY <1>1, <1>2, PTL DEF StorageSpec

(* The variables of the storage client have their types, and a caller's     *)
(* dict of options gains no entry but x-upsert.                             *)
THEOREM StorageTyped == StorageSpec => []TypeOK
<1>1. StorageInvariant => TypeOK
  BY DEF StorageInvariant
<1> QED
  BY <1>1, StorageInvariantAlways, PTL

-----------------------------------------------------------------------------
(* What is kept by it                                                       *)

(* However the options were used before and whichever call shares the       *)
(* client's headers, an object is overwritten only by a call that was to.   *)
THEOREM NoSilentOverwriteAlways == StorageSpec => NoSilentOverwrite
<1>1. StorageInvariant /\ [StorageNext]_storageVars
        => [\A p \in Paths :
              objects[p] # None /\ objects'[p] # objects[p] /\ objects'[p] # None =>
                \/ last'.op \in {"update", "upload_to_signed_url"}
                \/ last'.op = "upload" /\ AsksForUpsert(asked)]_storageVars
  <2> SUFFICES ASSUME StorageInvariant, [StorageNext]_storageVars, NEW p \in Paths,
                      objects[p] # None, objects'[p] # objects[p], objects'[p] # None
               PROVE  \/ last'.op \in {"update", "upload_to_signed_url"}
                      \/ last'.op = "upload" /\ AsksForUpsert(asked)
    OBVIOUS
  <2>1. ASSUME NEW op, NEW q, Uploads(op, q), op = "upload"
        PROVE  AsksForUpsert(asked)
    <3>1. ~UNCHANGED server
      BY DEF server
    <3>2. p = q
      BY <2>1, <3>1 DEF Uploads, Stores, StorageInvariant, TypeOK
    <3>3. AsksForUpsert(options)
      BY <2>1, <3>1, <3>2 DEF Uploads
    <3> QED
      BY <3>3, PoppedAsks DEF StorageInvariant, TypeOK
  <2>2. CASE MakeOptions
    BY <2>2 DEF MakeOptions, server
  <2>3. CASE Leaves
    BY <2>3 DEF Leaves, OverwritesNothing
  <2>4. CASE UNCHANGED storageVars
    BY <2>4 DEF storageVars
  <2>5. ASSUME NEW op, NEW q, Uploads(op, q)
        PROVE  op \in {"upload", "update", "upload_to_signed_url"} /\ last'.op = op
    BY <2>5 DEF Uploads
  <2> QED
    BY <2>1, <2>2, <2>3, <2>4, <2>5, StepsOfStorage
<1> QED
  BY <1>1, StorageInvariantAlways, PTL DEF StorageSpec, NoSilentOverwrite

(* An upload that raised leaves the caller's file open or has stored what   *)
(* it holds, and leaves the options asking for upsert, or not, as they did, *)
(* but for their entry `headers`.                                           *)
THEOREM FailedCanRetryAlways == StorageSpec => FailedCanRetry
<1>1. StorageInvariant /\ [StorageNext]_storageVars
        => [last'.op \in {"upload", "update"} /\ last'.out # "ok" /\ uses' = uses + 1 =>
              /\ reader' = reader \/ objects'[last'.path] = Stored(options)
              /\ asked.header = None => WantsUpsert("POST", options', {}) = AsksForUpsert(asked)]_storageVars
  <2> SUFFICES ASSUME StorageInvariant, StorageNext,
                      last'.op \in {"upload", "update"}, uses' = uses + 1
               PROVE  /\ reader' = reader \/ objects'[last'.path] = Stored(options)
                      /\ asked.header = None => WantsUpsert("POST", options', {}) = AsksForUpsert(asked)
    OBVIOUS
  <2>1. uses \in Nat /\ options \in Options /\ asked \in Options
    BY DEF StorageInvariant, TypeOK
  <2>2. PICK op, p : Uploads(op, p)
    BY <2>1, StepsOfStorage DEF MakeOptions, Leaves
  <2>3. options' = Popped(options) /\ (last'.out \in Accepted \/ reader' = reader)
    BY <2>2 DEF Uploads
  <2>4. last'.out \in Accepted => objects'[last'.path] = Stored(options)
    BY <2>2 DEF Uploads, Stores, StorageInvariant, TypeOK
  <2>5. Popped(options).header = None /\ Popped(Popped(options)).xupsert = Popped(asked).xupsert
    BY <2>1, PoppedAsks DEF StorageInvariant
  <2>6. UpsertOf(options') = Popped(asked).xupsert
    BY <2>3, <2>5 DEF UpsertOf
  <2>7. asked.header = None => AsksForUpsert(asked) = (Popped(asked).xupsert = "true")
    BY <2>1, PoppedAsks
  <2> QED
    BY <2>3, <2>4, <2>6, <2>7 DEF WantsUpsert
<1> QED
  BY <1>1, StorageInvariantAlways, PTL DEF StorageSpec, FailedCanRetry

=============================================================================
