------------------------------- MODULE S3Service -------------------------------
(***************************************************************************)
(* Objects in the bucket, the presigned URLs they are uploaded with for an *)
(* hour, and deleteObject, which first asks whether the object is there.   *)
(* Uploads are counted: an object is the number of the upload it is from.  *)
(***************************************************************************)
EXTENDS Answers

CONSTANTS
    Keys,       \* what generateKey may return
    MaxUploads  \* the number of uploads looked at

ASSUME StorageAssumption == MaxUploads \in Nat

VARIABLES
    urls,       \* for each key whether its URL is unissued, open or expired
    objects,    \* the object under each key, 0 when there is none
    uploads     \* the uploads so far

storage == <<urls, objects, uploads>>

InitStorage ==
    /\ urls = [k \in Keys |-> "unissued"]
    /\ objects = [k \in Keys |-> 0]
    /\ uploads = 0

\* Keys are made of the time and a random id; signing may fail.
generatePresignedUrl(c) ==
    /\ calls[c].step = "presign"
    /\ \/ \E k \in Keys :
            /\ urls[k] = "unissued"
            /\ urls' = [urls EXCEPT ![k] = "open"]
            /\ Return(c)
       \/ /\ Lose(c, Caught(intercept("Error")))
          /\ UNCHANGED urls
    /\ UNCHANGED <<production, objects, uploads>>

Upload(k) ==
    /\ urls[k] = "open"
    /\ uploads < MaxUploads
    /\ uploads' = uploads + 1
    /\ objects' = [objects EXCEPT ![k] = uploads']
    /\ UNCHANGED <<calls, production, urls>>

UrlExpires(k) ==
    /\ urls[k] = "open"
    /\ urls' = [urls EXCEPT ![k] = "expired"]
    /\ UNCHANGED <<calls, production, objects, uploads>>

\* Any error of HEAD counts as the object not being there.
objectExists(c) ==
    /\ calls[c].step = "head"
    /\ \/ /\ objects[calls[c].op.key] # 0
          /\ Proceed(c, "delete", calls[c].seen)
       \/ objects[calls[c].op.key] = 0 /\ Return(c)
       \/ Lose(c, [status |-> 200, reported |-> FALSE])
    /\ UNCHANGED <<production, storage>>

deleteObject(c) ==
    /\ calls[c].step = "delete"
    /\ \/ /\ objects' = [objects EXCEPT ![calls[c].op.key] = 0]
          /\ Return(c) \/ Lose(c, Caught(intercept("Error")))
       \/ /\ Lose(c, Caught(intercept("Error")))
          /\ UNCHANGED objects
    /\ UNCHANGED <<production, urls, uploads>>

StorageStep(c) == generatePresignedUrl(c) \/ objectExists(c) \/ deleteObject(c)
=============================================================================
