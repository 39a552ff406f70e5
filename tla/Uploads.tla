------------------------------- MODULE Uploads -------------------------------
(***************************************************************************)
(* The documents of the lease register: a file is stored, then its row is  *)
(* inserted; documents are reviewed and downloaded; the deployment moves   *)
(* between local disk and object storage.  (services/api/app/api/v1/       *)
(* leases.py, services/api/app/core/storage.py, services/api/app/models/   *)
(* document.py)                                                            *)
(*                                                                         *)
(* Documents meet the register where a lease is deleted: its documents go  *)
(* with it, and an upload in progress finds it gone.                       *)
(***************************************************************************)
EXTENDS Register

CONSTANTS
    Doc,        \* identities of uploads: of the stored file and of its row
    Client,     \* requests that upload or review
    Note,       \* notes
    Patches,    \* what reviews are sent
    Paths,      \* how the configured path of the local disk may be written
    Moves,      \* pairs of storages: from which to which the deployment moves
    Traffic     \* the kinds of requests that meet in one behaviour: for TLC, which
                \* then need not interleave listings with uploads

Storage == {"disk", "bucket"}
Review == {"pending_review", "accepted", "needs_attention", "rejected"}
Kinds == {"reads", "writes", "documents"}

\* What file_path holds: a path, absolute or not, or a key of the bucket.
Ref == {"absolute", "relative", "key"}

DocRow == [lease : Lease, ref : Ref, status : Review, notes : Note]

\* What PATCH .../documents/{id} is sent: a status, notes, or both.
Patch == [status : Review \union {Null}, notes : Note \union {Null}]

ASSUME UploadConstantsOK ==
    /\ Paths \subseteq {"absolute", "relative"}
    /\ Moves \subseteq Storage \X Storage
    /\ Traffic \subseteq SUBSET Kinds
    /\ Null \notin Review \union Note
    /\ Patches \subseteq Patch
    /\ New \notin DocRow /\ Gone \notin DocRow /\ New # Gone

VARIABLES
    doc,        \* the rows of documents
    stored,     \* the files in each storage
    storage,    \* the storage in use
    request,    \* uploads and reviews in progress
    traffic     \* which requests there are in this behaviour

documentVars == <<doc, stored, storage, request>>
vars == <<lease, holder, score, reading, editing, still,
          doc, stored, storage, request, traffic>>

Filed == {d \in Doc : doc[d] \notin {New, Gone}}

-----------------------------------------------------------------------------
\* Uploading

\* The lease is looked up before the file is read ...
UploadCheck(c, l) ==
    /\ "documents" \in traffic
    /\ request[c] = Idle
    /\ l \in Registered
    /\ request' = [request EXCEPT ![c] = [stage |-> "save", lease |-> l]]
    /\ UNCHANGED <<registerVars, traffic, doc, stored, storage>>

\* ... the file is stored under a name of its own ...
SavedRefs == IF storage = "bucket" THEN {"key"} ELSE Paths

SaveUpload(c, d) ==
    /\ request[c].stage = "save"
    /\ doc[d] = New /\ \A s \in Storage : d \notin stored[s]
    /\ stored' = [stored EXCEPT ![storage] = @ \union {d}]
    /\ \E ref \in SavedRefs :
        request' = [request EXCEPT ![c] = [stage |-> "insert", lease |-> request[c].lease,
                                           doc |-> d, ref |-> ref]]
    /\ UNCHANGED <<registerVars, traffic, doc, storage>>

\* ... and the row inserted, if the lease is still there.
InsertRow(c) ==
    /\ request[c].stage = "insert"
    /\ LET R == request[c]
       IN  /\ R.lease \in Registered
           /\ \E n \in Note :
                doc' = [doc EXCEPT ![R.doc] = [lease |-> R.lease, ref |-> R.ref,
                                               status |-> "pending_review", notes |-> n]]
           /\ request' = [request EXCEPT ![c] =
                            [stage |-> "created", lease |-> R.lease, doc |-> R.doc]]
    /\ UNCHANGED <<registerVars, traffic, stored, storage>>

-----------------------------------------------------------------------------
\* Reviewing: the row is loaded, and what is sent and differs from it is written.
ReviewRead(c, d) ==
    /\ "documents" \in traffic
    /\ request[c] = Idle
    /\ d \in Filed
    /\ \E p \in Patches :
        request' = [request EXCEPT ![c] = [stage |-> "review", doc |-> d,
                                           patch |-> p, read |-> doc[d]]]
    /\ UNCHANGED <<registerVars, traffic, doc, stored, storage>>

Reviewed(now, read, p) ==
    LET Field(f) == IF p[f] # Null /\ p[f] # read[f] THEN p[f] ELSE now[f]
    IN  [now EXCEPT !.status = Field("status"), !.notes = Field("notes")]

ReviewCommit(c) ==
    /\ request[c].stage = "review"
    /\ LET R == request[c]
       IN  /\ R.doc \in Filed
           /\ doc' = [doc EXCEPT ![R.doc] = Reviewed(doc[R.doc], R.read, R.patch)]
    /\ request' = [request EXCEPT ![c] = Idle]
    /\ UNCHANGED <<registerVars, traffic, stored, storage>>

\* A request ends: it has been answered; the storage refuses the file; a date in it
\* does not parse; the lease or the row is gone; or it dies.  A stored file stays.
RequestEnds(c) ==
    /\ request[c] # Idle
    /\ request' = [request EXCEPT ![c] = Idle]
    /\ UNCHANGED <<registerVars, traffic, doc, stored, storage>>

-----------------------------------------------------------------------------
\* Downloading

\* Mutant: the setting alone decides.
OpensFromSetting(ref) == storage

\* Where a download looks for the file of a row, and whether it is there.
OpensFrom(ref) == IF storage = "bucket" /\ ref # "absolute" THEN "bucket" ELSE "disk"

Opens(d) == d \in stored[OpensFrom(doc[d].ref)]

\* The service is restarted with the other storage; nothing in progress survives.
Reconfigure(s) ==
    /\ "documents" \in traffic
    /\ <<storage, s>> \in Moves
    /\ storage' = s
    /\ reading' = [r \in Reader |-> Idle]
    /\ editing' = [w \in Writer |-> Idle]
    /\ request' = [c \in Client |-> Idle]
    /\ still' = {}
    /\ UNCHANGED <<lease, holder, score, doc, stored, traffic>>

\* A lease's documents go with it; their files stay where they are.
DeleteLeaseDocuments(l) ==
    /\ DeleteLease(l)
    /\ doc' = [d \in Doc |-> IF d \in Filed /\ doc[d].lease = l THEN Gone ELSE doc[d]]
    /\ UNCHANGED <<stored, storage, request, traffic>>

-----------------------------------------------------------------------------
Init ==
    /\ RegisterInit
    /\ doc = [d \in Doc |-> New]
    /\ stored = [s \in Storage |-> {}]
    /\ storage = "disk"
    /\ request = [c \in Client |-> Idle]
    /\ traffic \in Traffic

\* An action of the register among requests of the kind k.
Within(k, A) == k \in traffic /\ A /\ UNCHANGED <<documentVars, traffic>>

Next ==
    \/ \E r \in Reader, q \in Query : Within("reads", ListIds(r, q))
    \/ \E r \in Reader, m \in Chart : Within("reads", MapRead(r, m))
    \/ \E r \in Reader : \/ Within("reads", ListScore(r))
                         \/ Within("reads", ListPage(r))
                         \/ Within("reads", MapScore(r))
                         \/ Within("reads", Leave(r))
    \/ \E w \in Writer, l \in Lease : Within("writes", UpdateRead(w, l))
    \/ \E w \in Writer : \/ Within("writes", UpdateCommit(w))
                         \/ Within("writes", UpdateFails(w))
    \/ \E h \in Holder : Within("writes", DeleteHolder(h))
    \/ \E l \in Lease : Within("writes", Rescore(l))
    \/ \E l \in Lease, k \in traffic : Within(k, CreateLease(l))
    \/ \E l \in Lease : DeleteLeaseDocuments(l)
    \/ \E c \in Client : \/ \E l \in Lease : UploadCheck(c, l)
                         \/ \E d \in Doc : SaveUpload(c, d) \/ ReviewRead(c, d)
                         \/ InsertRow(c) \/ ReviewCommit(c) \/ RequestEnds(c)
    \/ \E s \in Storage : Reconfigure(s)

Spec == Init /\ [][Next]_vars

-----------------------------------------------------------------------------
\* Properties

RequestOK(R) ==
    \/ R = Idle
    \/ R \in [stage : {"save"}, lease : Lease]
    \/ R \in [stage : {"insert"}, lease : Lease, doc : Doc, ref : Ref]
    \/ R \in [stage : {"created"}, lease : Lease, doc : Doc]
    \/ R \in [stage : {"review"}, doc : Doc, patch : Patch, read : DocRow]

\* The register and its documents keep their types: no edit or review leaves a row
\* without a value the schema requires.
TypeOK ==
    /\ RegisterTypeOK
    /\ doc \in [Doc -> DocRow \union {New, Gone}]
    /\ stored \in [Storage -> SUBSET Doc]
    /\ storage \in Storage
    /\ DOMAIN request = Client /\ \A c \in Client : RequestOK(request[c])
    /\ traffic \in Traffic

\* No document outlives its lease, whichever of an upload, a review and a deletion
\* commits first (models/document.py:43).
DocumentsBelong == \A d \in Filed : doc[d].lease \in Registered

\* What one row says of another is so: leases have holders and their own numbers,
\* documents have leases.
ReferencesResolve == Identified /\ DocumentsBelong

\* An upload that was answered has its row until its lease is deleted.
AnsweredIsFiled ==
    \A c \in Client :
        request[c].stage = "created" =>
            request[c].doc \in Filed \/ lease[request[c].lease] = Gone

\* Every row's file is somewhere, and a download finds it unless the storage was
\* changed under it: a key is not on the disk, and a relative path is taken for a
\* key once object storage is on.  With an absolute path, moving to object storage
\* loses no document (storage.py:53: a "previously stored reference" is served).
Downloadable ==
    \A d \in Filed :
        /\ \E s \in Storage : d \in stored[s]
        /\ Opens(d) \/ <<doc[d].ref, storage>> \in {<<"relative", "bucket">>, <<"key", "disk">>}
=============================================================================
