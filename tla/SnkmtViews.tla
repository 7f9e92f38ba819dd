----------------------------- MODULE SnkmtViews ------------------------------
(***************************************************************************)
(* app.routes.snkmt: a client that polls a view of a job's workflow while  *)
(* the workflow runs, its database is copied, its outputs are listed and   *)
(* it ends, is cancelled or is deleted.  Of the database in the work       *)
(* directory only what a copy finds there is seen.  SnkmtSync has how the  *)
(* copies are made: a rename shows one that is never older, and whole      *)
(* unless downloads of the job overlapped (its ReadersAdvance).            *)
(***************************************************************************)
EXTENDS SnkmtQueries, Sequences, Functions

CONSTANTS
    Rules,        \* the names of the rules
    Wildcards,    \* the wildcards jobs may have, sets of key=value or None
    SnakemakeIds, \* the snakemake jobs whose files are asked for
    MaxRows,      \* bound: the rows of the database
    MaxSlurmId,   \* bound: the ids of SLURM jobs
    Backends      \* where the job may run

(* NULL is neither an id nor a name.                                       *)
ASSUME ViewsAssumption ==
    /\ None \notin Rules /\ None \notin Nat
    /\ Wildcards # {}
    /\ MaxRows \in Nat /\ MaxSlurmId \in Nat
    /\ Backends \subseteq {"local", "slurm_ssh"}

VARIABLES
    backend,  \* LocalBackend or SlurmSSHBackend
    status,   \* record.status, "DELETED" for a job that is not in the store
    listing,  \* record.workflow_files
    copy,     \* snkmt.db in data_dir
    torn,     \* is it torn, by downloads that overlapped?
    asked,    \* the view the client polls
    request,  \* the request that is served, None without one
    answer    \* the answer before it

jobVars   == <<backend, status, listing>>
clientVars == <<asked, request, answer>>
vars      == <<jobVars, copy, torn, clientVars>>

(* A path, with the work directory in front or not.  A log of the executor *)
(* is logs/slurm/{rule}/{wildcards}/{slurm_id}.out.                        *)
OutPath == [dir |-> <<"results", {}>>, name |-> 0]
LogPath == [dir |-> <<"logs", {}>>, name |-> 0]
SlurmLog(rule, wildcards, slurm_id) ==
    [dir |-> <<rule, IF wildcards = None THEN {} ELSE wildcards>>, name |-> slurm_id]
SlurmLogs == {SlurmLog(r, w, i) : r \in Rules, w \in Wildcards, i \in 1..MaxSlurmId}
Paths     == {LogPath} \cup SlurmLogs
InWorkDir(path) == <<"work_dir", path>>

(* The rows a database may have.                                           *)
Row ==
    {File, Schema} \cup {Workflow(g) : g \in {None, "graph"}}
    \cup {Rule(i, name) : i \in 1..MaxRows, name \in Rules}
    \cup {Job(i, r, w) : i \in 1..MaxRows, r \in 1..MaxRows \cup {None}, w \in Wildcards}
    \cup {FileRow(i, <<OutPath>>, "OUTPUT") : i \in 1..MaxRows}
    \cup {FileRow(i, p, "LOG") : i \in 1..MaxRows, p \in {<<LogPath>>, InWorkDir(LogPath)}}

Asked ==
    {[view |-> v, arg |-> None] : v \in {"overview", "jobs", "rulegraph"}}
    \cup {[view |-> "rule", arg |-> r] : r \in Rules}
    \cup {[view |-> "files", arg |-> i] : i \in SnakemakeIds}

NoAnswer == [code |-> 0, data |-> None]

TypeOK ==
    /\ backend \in Backends
    /\ status \in {"SETUP", "RUNNING", "COMPLETED", "CANCELLED", "DELETED"}
    /\ listing = None \/ listing \subseteq Paths
    /\ copy \subseteq Row /\ Cardinality(copy) <= MaxRows /\ torn \in BOOLEAN
    /\ asked \in Asked
    /\ request = None \/ /\ request.at \in 0..Len(Fetch(asked.view))
                         /\ DOMAIN request.got \subseteq Range(Fetch(asked.view))
    /\ answer = NoAnswer \/ answer.code \in {200, 404, 409, 502}

-----------------------------------------------------------------------------
(* The workflow's database, as snakemake's logger plugin makes it: a file, *)
(* its tables, and rows in them.                                           *)

Ids(db, name) == {row.id : row \in Table(db, name)}

NextId(db, name) == Cardinality(Ids(db, name)) + 1

(* The rows that may come next: a row comes after the rows it refers to.   *)
NewRows(db) ==
    IF db = {} THEN {File}
    ELSE IF db = {File} THEN {Schema}
    ELSE IF Table(db, "workflows") = {} THEN {Workflow(g) : g \in {None, "graph"}}
    ELSE {Rule(NextId(db, "rules"), name) :
             name \in Rules \ {r.name : r \in Table(db, "rules")}}
         \cup {Job(NextId(db, "jobs"), r, w) : r \in Ids(db, "rules") \cup {None}, w \in Wildcards}
         \cup {FileRow(i, <<OutPath>>, "OUTPUT") : i \in Ids(db, "jobs")}
         \cup {FileRow(i, p, "LOG") : i \in Ids(db, "jobs"), p \in {<<LogPath>>, InWorkDir(LogPath)}}

(* The database after at most one more row, from nothing on.               *)
Later(db) ==
    {db} \cup IF Cardinality(db) = MaxRows THEN {}
              ELSE {db \cup {row} : row \in NewRows(db) \ db}

-----------------------------------------------------------------------------
(* The server, next to the requests.                                       *)

Launches ==
    /\ status = "SETUP"
    /\ status' = "RUNNING"
    /\ UNCHANGED <<backend, listing, copy, torn, clientVars>>

(* The listing of a client that asks for outputs early, or the task's own. *)
Lists ==
    /\ status = "RUNNING"
    /\ \/ status' = "RUNNING" /\ listing = None
       \/ status' = "COMPLETED"
    /\ listing' \in SUBSET (IF backend = "local" THEN Paths \ SlurmLogs ELSE Paths)
    /\ UNCHANGED <<backend, copy, torn, clientVars>>

Cancels ==
    /\ status \in {"SETUP", "RUNNING"}
    /\ status' = "CANCELLED"
    /\ UNCHANGED <<backend, listing, copy, torn, clientVars>>

(* Faulty: without a database the copy goes.                               *)
CopiedAlways(db) == db

(* sync_snkmt_db leaves the copy alone if there is no database.            *)
Copied(db) == IF db = {} THEN copy ELSE db

(* Faulty: the copy is written into the file a request may have open.      *)
OpenInPlace(conn) == IF conn = {} THEN conn ELSE copy'

(* What a request has open once the copy is renamed over its file.         *)
Open(conn) == conn

(* A copy is shown: of a cancelled job it finds a work directory that is   *)
(* being removed, or it was under way.                                     *)
Syncs ==
    /\ status \in {"RUNNING", "COMPLETED", "CANCELLED"}
    /\ \E db \in Later(copy) \cup (IF status = "CANCELLED" THEN {{}} ELSE {}) :
          copy' = Copied(db) /\ torn' = (torn /\ db = {})
    /\ request' = IF request = None THEN None
                  ELSE [request EXCEPT !.conn = Open(@)]
    /\ UNCHANGED <<jobVars, asked, answer>>

Answers(code, data) ==
    /\ request' = None
    /\ answer' = [code |-> code, data |-> data]

(* Two copies wrote one snkmt.tmp, and what is shown is not whole: SELECTs *)
(* raise, also those of a request that has the file open.                  *)
Tears ==
    /\ status \in {"RUNNING", "COMPLETED", "CANCELLED"} /\ copy # {}
    /\ torn' = TRUE
    /\ UNCHANGED <<request, answer>> \/ (request # None /\ Answers(502, None))
    /\ UNCHANGED <<jobVars, copy, asked>>

Deletes ==
    /\ status # "DELETED"
    /\ status' = "DELETED" /\ copy' = {} /\ torn' = FALSE
    /\ UNCHANGED <<backend, listing, clientVars>>

-----------------------------------------------------------------------------
(* One request.                                                            *)

_PRE_EXECUTION_STATUSES == {"PENDING", "SETUP"}

(* _require_snkmt                                                          *)
RequireSnkmt ==
    CASE status = "DELETED" -> 404
      [] status \in _PRE_EXECUTION_STATUSES -> 409
      [] copy = {} /\ status = "RUNNING" -> 409
      [] copy = {} /\ status # "RUNNING" -> 404
      [] OTHER -> 200

Asks ==
    /\ request = None
    /\ IF RequireSnkmt = 200
       THEN /\ request' = [at |-> 0, conn |-> {}, listing |-> listing, got |-> <<>>]
            /\ UNCHANGED answer
       ELSE Answers(RequireSnkmt, None)
    /\ UNCHANGED <<jobVars, copy, torn, asked>>

(* In a thread.  A file that is gone, torn or without tables is a           *)
(* DatabaseError.                                                          *)
Connects ==
    /\ request # None /\ request.at = 0 /\ request.conn = {}
    /\ IF torn \/ copy \subseteq {File} THEN Answers(502, None)
       ELSE request' = [request EXCEPT !.conn = copy] /\ UNCHANGED answer
    /\ UNCHANGED <<jobVars, copy, torn, asked>>

Selects ==
    /\ request # None /\ request.conn # {}
    /\ LET queries == Fetch(asked.view) IN
       /\ request.at < Len(queries)
       /\ LET query == queries[request.at + 1] IN
          request' = [request EXCEPT !.at = @ + 1,
                        !.got = [q \in DOMAIN @ \cup {query} |->
                                    IF q = query THEN Select(request.conn, q, asked.arg)
                                    ELSE @[q]]]
    /\ UNCHANGED <<jobVars, copy, torn, asked, answer>>

-----------------------------------------------------------------------------
(* Responses.                                                              *)

(* Faulty: the path is left as it is.                                      *)
StripNothing(path) == path

_strip_work_dir(path) == IF Len(path) = 2 THEN Tail(path) ELSE path

FileResponse(f) == [path |-> _strip_work_dir(f.path), file_type |-> f.file_type]

JobResponse(j, filerows) ==
    [snakemake_id |-> j.snakemake_id, rule |-> j.rule_name, wildcards |-> j.wildcards,
     files |-> {FileResponse(f) : f \in {x \in filerows : x.job_id = j.id}},
     log |-> None]

(* SlurmSSHBackend picks the latest log in the directory of the job's rule *)
(* and wildcards; without wildcards that is the rule's own.                *)
ResolvedLog(job, known_files) ==
    LET slurm_dir  == SlurmLog(job.rule, job.wildcards, 0).dir
        candidates == {p \in known_files \cap SlurmLogs : p.dir = slurm_dir}
    IN  IF backend = "local" \/ candidates = {} THEN None
        ELSE CHOOSE p \in candidates : \A q \in candidates : q.name <= p.name

(* _filter_empty_log_files, which an empty listing turns off as well.      *)
Kept(f, known_files) ==
    known_files = {} \/ f.file_type # "LOG" \/ (Len(f.path) = 1 /\ f.path[1] \in known_files)

(* resolve_job_logs, then _filter_empty_log_files.                         *)
Finished(jobs, workflow_files) ==
    LET known_files == IF workflow_files = None THEN {} ELSE workflow_files IN
    {[job EXCEPT !.log   = ResolvedLog(job, known_files),
                 !.files = {f \in @ : Kept(f, known_files)}] : job \in jobs}

JobResponses(jobs, filerows, workflow_files) ==
    Finished({JobResponse(j, filerows) : j \in jobs}, workflow_files)

RuleResponse(name, jobs) == [name |-> name, jobs |-> {j \in jobs : j.rule = name}]

(* Is what the view is about in the database?                              *)
Found(view, got) ==
    CASE view = "overview"  -> got["workflow"] # {}
      [] view = "rule"      -> got["rule"] # {}
      [] view = "rulegraph" -> got["rulegraph"] # {}
      [] OTHER -> TRUE

(* What a view answers, made of what its SELECTs got.                      *)
Response(view, got, workflow_files) ==
    CASE view = "overview" ->
            LET jobs == JobResponses(got["jobs"], got["files"], workflow_files) IN
            {RuleResponse(r.name, jobs) : r \in got["rules"]}
      [] view = "jobs" -> JobResponses(got["jobs"], got["files"], workflow_files)
      [] view = "rule" ->
            LET jobs == JobResponses(got["rule_jobs"], got["rule_files"], workflow_files)
            IN  {[name |-> r.name, jobs |-> jobs] : r \in got["rule"]}
      [] view = "files" -> {FileResponse(f) : f \in got["job_files"]}
      [] view = "rulegraph" -> got["rulegraph"]

(* Faulty: the RuntimeError of _build_snkmt_workflow_response gets out.    *)
NotFoundRaises == 500

NotFound == 404

Responds ==
    /\ request # None /\ request.at = Len(Fetch(asked.view))
    /\ IF Found(asked.view, request.got)
       THEN Answers(200, Response(asked.view, request.got, request.listing))
       ELSE Answers(NotFound, None)
    /\ UNCHANGED <<jobVars, copy, torn, asked>>

-----------------------------------------------------------------------------

Init ==
    /\ backend \in Backends
    /\ status = "SETUP"
    /\ listing = None /\ copy = {} /\ torn = FALSE
    /\ asked \in Asked /\ request = None /\ answer = NoAnswer

Next ==
    \/ Launches \/ Lists \/ Cancels \/ Syncs \/ Tears \/ Deletes
    \/ Asks \/ Connects \/ Selects \/ Responds

Spec == Init /\ [][Next]_vars

=============================================================================
