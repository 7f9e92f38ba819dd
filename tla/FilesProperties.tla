--------------------------- MODULE FilesProperties ---------------------------
(***************************************************************************)
(* What the listing on a record and the shared cache promise.              *)
(***************************************************************************)
EXTENDS JobFiles

(* The listing kept for a job that has ended names exactly the files it    *)
(* left, until they are removed: across listings that overlap with its     *)
(* last writes, looks of the sync loop that are stale when it concludes,   *)
(* and restarts.  Early listings stay in these ways only: a client's was   *)
(* in flight when the job was finished; the task's own never came about,   *)
(* as it failed or as the sync loop finished the job; or the sync loop     *)
(* took a wrapper without .pid for dead (app.tasks).                       *)
FinalListingIsComplete ==
    \A j \in known \ (spoiled \cup wiped) :
        Ended(j) /\ record[j].files # None => record[j].files = Present(work[j])

(* Whatever copies overlap, no half of a cached file was written by a      *)
(* workflow that did not succeed: a failed, cancelled or killed job leaves *)
(* nothing in the cache the next one builds on (save on exit code 0).      *)
CacheFromSuccess ==
    \A f \in Present(cache) : \A i \in {1, 2} : wrapper[cache[f][i]] = "zero"

(* routes/jobs.py: "List workflow files (excluding hidden files/dirs).":   *)
(* of a job that has ended every file can be listed and downloaded.        *)
OutputsAreListed == \A j \in known : Ended(j) => Downloads(j) = Present(work[j])

=============================================================================
