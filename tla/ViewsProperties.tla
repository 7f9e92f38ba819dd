--------------------------- MODULE ViewsProperties ---------------------------
(***************************************************************************)
(* What the views of a workflow promise to a client, stated over           *)
(* SnkmtViews.                                                             *)
(***************************************************************************)
EXTENDS SnkmtViews

(* What a request gets that finds the copy as it is, and the view of that. *)
Got(view, arg)  == [q \in Range(Fetch(view)) |-> Select(copy, q, arg)]
View(view, arg) == Response(view, Got(view, arg), listing)

(* Between requests, which change neither the copy nor the listing.        *)
HasWorkflow == request = None /\ Table(copy, "workflows") # {}

NotLogs(fs) == {f \in fs : f.file_type # "LOG"}

(* The views of one database tell the same: the overview nests every job   *)
(* that has a rule, under it, a rule's own view shows what the overview    *)
(* shows of it, and the files of a job are those its other views list, but *)
(* for logs they leave out as empty.                                       *)
RoutesAgree ==
    HasWorkflow =>
        LET jobs == View("jobs", None) overview == View("overview", None) IN
        /\ UNION {r.jobs : r \in overview} = {j \in jobs : j.rule # None}
        /\ \A name \in Rules :
              LET nested == {r \in overview : r.name = name} IN
              /\ Found("rule", Got("rule", name)) <=> nested # {}
              /\ View("rule", name) = nested
        /\ \A j \in jobs :
              LET fs == View("files", j.snakemake_id) IN
              j.files \subseteq fs /\ NotLogs(fs) = NotLogs(j.files)

(* What several SELECTs find belongs together, although the database is    *)
(* replaced between them: no job's rule and no file's job is missing, so   *)
(* that building the nested response drops nothing.                        *)
OverviewIsWhole ==
    LET got == request.got IN
    request # None /\ asked.view = "overview" /\ request.at = Len(Fetch("overview")) =>
        /\ \A j \in got["jobs"] :
              j.rule_name # None => \E r \in got["rules"] : r.name = j.rule_name
        /\ \A f \in got["files"] : \E j \in got["jobs"] : j.id = f.job_id

(* A log that has content, as the listing of a job that has ended tells,   *)
(* is shown, and one without is not, with the work directory in front of   *)
(* its path or without; a job's SLURM log is that of its latest retry.     *)
(* Nothing is told by an empty listing.                                    *)
LogsAreThoseWithContent ==
    HasWorkflow /\ listing \notin {None, {}} =>
        \A j \in View("jobs", None) :
            LET rows == {f \in Table(copy, "files") :
                            f.job_id = j.snakemake_id + 1 /\ f.file_type = "LOG"}
                own  == {SlurmLog(j.rule, j.wildcards, i) : i \in 1..MaxSlurmId} \cap listing
            IN  /\ LogPath \in listing /\ rows # {} <=>
                      \E f \in j.files : f.file_type = "LOG"
                /\ IF own = {} THEN j.log = None
                   ELSE j.log \in own /\ \A p \in own : p.name <= j.log.name

-----------------------------------------------------------------------------

JobFacts(rule, jobs) ==
    {<<rule, j.snakemake_id>> : j \in jobs}
    \cup UNION {{<<rule, j.snakemake_id, f>> : f \in NotLogs(j.files)} : j \in jobs}

(* What a client learns from an answer, logs aside.                        *)
Facts(data) ==
    CASE asked.view \in {"overview", "rule"} ->
            {<<r.name>> : r \in data} \cup UNION {JobFacts(r.name, r.jobs) : r \in data}
      [] asked.view = "jobs" -> UNION {JobFacts(j.rule, {j}) : j \in data}
      [] OTHER -> data

(* A client that was given a view is given it whenever it asks again, with *)
(* all it has learnt from it, until the job is deleted: not a 409 or a 404 *)
(* since the work directory is gone, nor an older database, but for one    *)
(* that is torn since downloads overlapped.                                *)
AnswersPersist ==
    [][answer.code = 200 /\ status # "DELETED" /\ ~torn' /\ answer' # answer =>
          answer'.code = 200 /\ Facts(answer.data) \subseteq Facts(answer'.data)]_vars

=============================================================================
