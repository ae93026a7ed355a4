----------------------------- MODULE Pictures -----------------------------
(* One stored picture of one row: a profile photo or an event image. The row  *)
(* is in the database and the file in the media storage, and no transaction   *)
(* covers both: a new file is stored first, the row is pointed at it, the old *)
(* file is destroyed last.                                                    *)
EXTENDS Naturals, FiniteSets

CONSTANT MaxPictures     \* bound: files ever uploaded

ASSUME PicturesAssumption == MaxPictures \in Nat

VARIABLES
    image,       \* the row's image_public_id (NoPicture: null)
    storage,     \* the files in the media storage
    uploads,     \* files a request in flight still has to deal with, and how
    uploaded,    \* files uploaded so far
    leaked       \* files given up on: logged as orphans, or forgotten by a crash

pictureVars == <<image, storage, uploads, uploaded, leaked>>

NoPicture == 0
InStorage(p) == [picture |-> p, stage |-> "stored"]
Doomed(p) == [picture |-> p, stage |-> "destroy"]

PicturesInit ==
    /\ image = NoPicture
    /\ storage = {}
    /\ uploads = {}
    /\ uploaded = 0
    /\ leaked = {}

\* media.upload(): when it fails, the file may be there all the same.
MediaUpload(fails) ==
    LET p == uploaded + 1 IN
    /\ uploaded < MaxPictures
    /\ uploaded' = p
    /\ storage' = storage \cup {p}
    /\ IF fails
       THEN leaked' = leaked \cup {p} /\ UNCHANGED uploads
       ELSE uploads' = uploads \cup {InStorage(p)} /\ UNCHANGED leaked
    /\ UNCHANGED image

\* What the row showed, to be destroyed once the transaction has committed.
Replaced == IF image = NoPicture THEN {} ELSE {Doomed(image)}

\* The transaction of uploadImage(), with the row locked.
SavePicture(u) ==
    /\ u.stage = "stored"
    /\ image' = u.picture
    /\ uploads' = (uploads \ {u}) \cup Replaced
    /\ UNCHANGED <<storage, uploaded, leaked>>

\* The transaction fails or refuses: the catch destroys the new file.
SaveForgotten(u) ==
    /\ u.stage = "stored"
    /\ uploads' = uploads \ {u}
    /\ UNCHANGED <<image, storage, uploaded, leaked>>
SaveRefused(u) ==
    /\ u.stage = "stored"
    /\ uploads' = (uploads \ {u}) \cup {Doomed(u.picture)}
    /\ UNCHANGED <<image, storage, uploaded, leaked>>

\* The transaction of deleteImage().
ClearPicture ==
    /\ image # NoPicture
    /\ image' = NoPicture
    /\ uploads' = uploads \cup Replaced
    /\ UNCHANGED <<storage, uploaded, leaked>>

\* destroyQuietly(): a failure is logged with the file's ID.
DestroyQuietly(u, fails) ==
    /\ u.stage = "destroy"
    /\ uploads' = uploads \ {u}
    /\ IF fails
       THEN leaked' = leaked \cup {u.picture} /\ UNCHANGED storage
       ELSE storage' = storage \ {u.picture} /\ UNCHANGED leaked
    /\ UNCHANGED <<image, uploaded>>

\* The process stops with requests in flight.
StopUploads ==
    /\ uploads # {}
    /\ leaked' = leaked \cup {u.picture : u \in uploads}
    /\ uploads' = {}
    /\ UNCHANGED <<image, storage, uploaded>>

-----------------------------------------------------------------------------
(* Properties *)

\* The picture a row shows is in the storage, and every other file there is still in a
\* request's hands or known to be an orphan: uploads of one row that overlap, replace each
\* other, are deleted or fail halfway neither show a missing picture nor leave one behind
\* (profile.service.ts and admin-events.service.ts, uploadImage(), deleteImage(), remove()).
PicturesAgree ==
    /\ image # NoPicture => image \in storage
    /\ storage \subseteq {image} \cup leaked \cup {u.picture : u \in uploads}
    /\ image \notin leaked

=============================================================================
