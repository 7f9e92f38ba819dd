----------------------------- MODULE ViewsProofs -----------------------------
(***************************************************************************)
(* Proofs that the views of a workflow agree, are whole, show the logs     *)
(* that have content, and are given again with all they told before, for a *)
(* database of any number of rows.                                         *)
(***************************************************************************)
EXTENDS ViewsProperties, FiniteSetTheorems, TLAPS

-----------------------------------------------------------------------------
(* The database.  Ids count from 1, so that a new one is new, rules have   *)
(* one row each, and a job's rule is there.                                *)

WellFormed(db) ==
    /\ db \subseteq Row /\ IsFiniteSet(db) /\ Cardinality(db) <= MaxRows
    /\ \A name \in {"rules", "jobs"} : Ids(db, name) = 1..Cardinality(Ids(db, name))
    /\ \A r1, r2 \in Table(db, "rules") : r1.id = r2.id => r1 = r2
    /\ \A job \in Table(db, "jobs") : job.rule_id \in Ids(db, "rules") \cup {None}

(* What a row of each table has.                                           *)
LEMMA Rows ==
    ASSUME NEW db \in SUBSET Row
    PROVE  /\ \A r \in Table(db, "rules") : r.id \in 1..MaxRows /\ r.name \in Rules
           /\ \A j \in Table(db, "jobs") :
                 /\ j.id \in 1..MaxRows /\ j.snakemake_id = j.id - 1
                 /\ j.rule_id \in 1..MaxRows \cup {None} /\ j.wildcards \in Wildcards
           /\ \A f \in Table(db, "files") :
                 /\ f.job_id \in 1..MaxRows
                 /\ \/ f.file_type = "OUTPUT" /\ f.path = <<OutPath>>
                    \/ f.file_type = "LOG" /\ f.path \in {<<LogPath>>, InWorkDir(LogPath)}
    BY DEF Table, Row, File, Schema, Workflow, Rule, Job, FileRow

(* There are no more ids than rows.                                        *)
LEMMA IdsAreCounted ==
    ASSUME NEW db, IsFiniteSet(db), NEW name
    PROVE  /\ IsFiniteSet(Ids(db, name))
           /\ Cardinality(Ids(db, name)) \in Nat
           /\ Cardinality(Ids(db, name)) <= Cardinality(db)
<1>. DEFINE rows == Table(db, name)
            id   == [row \in rows |-> row.id]
<1>1. rows \subseteq db
    BY DEF Table
<1>2. IsFiniteSet(rows) /\ Cardinality(rows) <= Cardinality(db) /\ Cardinality(rows) \in Nat
      /\ Cardinality(db) \in Nat
    BY <1>1, FS_Subset, FS_CardinalityType
<1>3. id \in Surjection(rows, Ids(db, name))
    BY DEF Surjection, Ids
<1>4. IsFiniteSet(Ids(db, name)) /\ Cardinality(Ids(db, name)) <= Cardinality(rows)
    BY <1>2, <1>3, FS_Surjection
<1>. QED  BY <1>2, <1>4, FS_CardinalityType

LEMMA NextIdIsNew ==
    ASSUME NEW db, WellFormed(db), NEW name \in {"rules", "jobs"},
           Cardinality(db) # MaxRows
    PROVE  /\ NextId(db, name) \in 1..MaxRows /\ NextId(db, name) \notin Ids(db, name)
           /\ Ids(db, name) \cup {NextId(db, name)}
                 = 1..Cardinality(Ids(db, name) \cup {NextId(db, name)})
<1>. DEFINE ids == Ids(db, name)
            n   == Cardinality(ids)
<1>1. IsFiniteSet(ids) /\ n \in Nat /\ n <= Cardinality(db) /\ Cardinality(db) \in Nat
    BY IdsAreCounted, FS_CardinalityType DEF WellFormed
<1>2. ids = 1..n
    BY DEF WellFormed
<1>3. n + 1 \in 1..MaxRows /\ n + 1 \notin ids
    BY <1>1, <1>2, ViewsAssumption DEF WellFormed
<1>4. Cardinality(ids \cup {n + 1}) = n + 1
    BY <1>1, <1>3, FS_AddElement
<1>5. ids \cup {n + 1} = 1..(n + 1)
    BY <1>1, <1>2
<1>. QED  BY <1>3, <1>4, <1>5 DEF NextId

LEMMA RowAdded ==
    ASSUME NEW db, WellFormed(db), Cardinality(db) # MaxRows, NEW row \in NewRows(db)
    PROVE  WellFormed(db \cup {row})
<1>. DEFINE new == db \cup {row}
<1>0. db \subseteq Row /\ IsFiniteSet(db) /\ Cardinality(db) \in Nat /\ Cardinality(db) < MaxRows
    BY FS_CardinalityType, ViewsAssumption DEF WellFormed
<1>1. IsFiniteSet(new) /\ Cardinality(new) <= MaxRows
  <2>1. Cardinality(new) \in {Cardinality(db), Cardinality(db) + 1} /\ IsFiniteSet(new)
    BY <1>0, FS_AddElement
  <2>. QED  BY <1>0, <2>1, ViewsAssumption
<1>2. \A name : Table(new, name) = Table(db, name) \cup (IF row.table = name THEN {row} ELSE {})
    BY DEF Table
<1>3. \A name : Ids(new, name) = Ids(db, name) \cup (IF row.table = name THEN {row.id} ELSE {})
    BY <1>2 DEF Ids
<1>4. CASE row \in {File} \/ row \in {Schema} \/ row \in {Workflow(g) : g \in {None, "graph"}}
  <2>1. row \in Row /\ row.table \notin {"rules", "jobs"}
    BY <1>4 DEF Row, File, Schema, Workflow
  <2>2. \A name \in {"rules", "jobs"} :
            Table(new, name) = Table(db, name) /\ Ids(new, name) = Ids(db, name)
    BY <1>2, <1>3, <2>1
  <2>. QED  BY <1>0, <1>1, <2>1, <2>2 DEF WellFormed
<1>5. CASE row \in {Rule(NextId(db, "rules"), name) : name \in Rules}
  <2>1. row.table = "rules" /\ row.id = NextId(db, "rules")
    BY <1>5 DEF Rule
  <2>2. row.id \in 1..MaxRows /\ row.id \notin Ids(db, "rules")
        /\ Ids(new, "rules") = 1..Cardinality(Ids(new, "rules"))
    <3>1. Ids(new, "rules") = Ids(db, "rules") \cup {NextId(db, "rules")}
        BY <1>3, <2>1
    <3>2. NextId(db, "rules") \in 1..MaxRows /\ NextId(db, "rules") \notin Ids(db, "rules")
        BY <1>0, NextIdIsNew
    <3>3. Ids(db, "rules") \cup {NextId(db, "rules")}
             = 1..Cardinality(Ids(db, "rules") \cup {NextId(db, "rules")})
        BY <1>0, NextIdIsNew
    <3>. QED  BY <2>1, <3>1, <3>2, <3>3
  <2>3. row \in Row
    BY <1>5, <2>1, <2>2 DEF Row, Rule
  <2>4. Ids(new, "jobs") = Ids(db, "jobs") /\ Table(new, "jobs") = Table(db, "jobs")
        /\ Table(new, "rules") = Table(db, "rules") \cup {row}
        /\ Ids(db, "rules") \subseteq Ids(new, "rules")
    BY <1>2, <1>3, <2>1
  <2>5. \A r1, r2 \in Table(new, "rules") : r1.id = r2.id => r1 = r2
    <3>1. \A r \in Table(db, "rules") : r.id # row.id
        BY <2>2 DEF Ids
    <3>. QED  BY <2>4, <3>1 DEF WellFormed
  <2>. QED  BY <1>0, <1>1, <2>2, <2>3, <2>4, <2>5 DEF WellFormed
<1>6. CASE row \in {Job(NextId(db, "jobs"), r, w) :
                       r \in Ids(db, "rules") \cup {None}, w \in Wildcards}
  <2>1. PICK r \in Ids(db, "rules") \cup {None}, w \in Wildcards :
            row = Job(NextId(db, "jobs"), r, w)
    BY <1>6
  <2>2. row.table = "jobs" /\ row.id = NextId(db, "jobs") /\ row.rule_id = r
    BY <2>1 DEF Job
  <2>3. row.id \in 1..MaxRows /\ Ids(new, "jobs") = 1..Cardinality(Ids(new, "jobs"))
    <3>1. Ids(new, "jobs") = Ids(db, "jobs") \cup {NextId(db, "jobs")}
        BY <1>3, <2>2
    <3>. QED  BY <1>0, <2>2, <3>1, NextIdIsNew
  <2>4. row \in Row
    <3>1. r \in 1..MaxRows \cup {None}
        BY <1>0, Rows DEF Ids
    <3>. QED  BY <2>1, <2>2, <2>3, <3>1 DEF Row
  <2>5. Ids(new, "rules") = Ids(db, "rules") /\ Table(new, "rules") = Table(db, "rules")
        /\ Table(new, "jobs") = Table(db, "jobs") \cup {row}
    BY <1>2, <1>3, <2>2
  <2>6. \A job \in Table(new, "jobs") : job.rule_id \in Ids(new, "rules") \cup {None}
    BY <2>2, <2>5 DEF WellFormed
  <2>. QED  BY <1>0, <1>1, <2>3, <2>4, <2>5, <2>6 DEF WellFormed
<1>7. CASE \/ row \in {FileRow(i, <<OutPath>>, "OUTPUT") : i \in Ids(db, "jobs")}
           \/ row \in {FileRow(i, p, "LOG") :
                          i \in Ids(db, "jobs"), p \in {<<LogPath>>, InWorkDir(LogPath)}}
  <2>1. Ids(db, "jobs") \subseteq 1..MaxRows
    BY <1>0, Rows DEF Ids
  <2>2. row \in Row
    BY <1>7, <2>1 DEF Row
  <2>3. row.table = "files"
    BY <1>7 DEF FileRow
  <2>4. \A name \in {"rules", "jobs"} :
            Table(new, name) = Table(db, name) /\ Ids(new, name) = Ids(db, name)
    BY <1>2, <1>3, <2>3
  <2>. QED  BY <1>0, <1>1, <2>2, <2>4 DEF WellFormed
<1>. QED  BY <1>4, <1>5, <1>6, <1>7 DEF NewRows

(* What the database may be later has what it has.                         *)
LEMMA LaterGrows ==
    ASSUME NEW db, WellFormed(db), NEW later \in Later(db)
    PROVE  WellFormed(later) /\ db \subseteq later
    BY RowAdded DEF Later

LEMMA EmptyIsWellFormed == WellFormed({})
<1>1. \A name : Table({}, name) = {} /\ Ids({}, name) = {}
    BY DEF Table, Ids
<1>2. IsFiniteSet({}) /\ Cardinality({}) = 0 /\ 1..0 = {}
    BY FS_EmptySet
<1>3. \A name : Ids({}, name) = 1..Cardinality(Ids({}, name))
    BY <1>1, <1>2
<1>4. Cardinality({}) <= MaxRows
    BY <1>2, ViewsAssumption
<1>. QED  BY <1>1, <1>2, <1>3, <1>4 DEF WellFormed

-----------------------------------------------------------------------------
(* Responses.  A job's response is made of its row and of the files of it. *)

KnownFiles(workflow_files) == IF workflow_files = None THEN {} ELSE workflow_files

FinalJob(j, filerows, workflow_files) ==
    LET job == JobResponse(j, filerows) known_files == KnownFiles(workflow_files) IN
    [job EXCEPT !.log   = ResolvedLog(job, known_files),
                !.files = {f \in @ : Kept(f, known_files)}]

LEMMA JobResponsesAre ==
    ASSUME NEW jobs, NEW filerows, NEW workflow_files
    PROVE  JobResponses(jobs, filerows, workflow_files)
             = {FinalJob(j, filerows, workflow_files) : j \in jobs}
    BY DEF JobResponses, Finished, FinalJob, KnownFiles

FilesOf(j, filerows) == {FileResponse(f) : f \in {x \in filerows : x.job_id = j.id}}

LEMMA FinalJobFields ==
    ASSUME NEW j, NEW filerows, NEW workflow_files
    PROVE  LET job == FinalJob(j, filerows, workflow_files) IN
           /\ job.snakemake_id = j.snakemake_id /\ job.rule = j.rule_name
           /\ job.wildcards = j.wildcards
           /\ job.files = {f \in FilesOf(j, filerows) : Kept(f, KnownFiles(workflow_files))}
           /\ job.log = ResolvedLog(JobResponse(j, filerows), KnownFiles(workflow_files))
    BY DEF FinalJob, JobResponse, FilesOf

(* Which only depends on the files of the job.                             *)
LEMMA SameFilesSameJob ==
    ASSUME NEW j, NEW fs, NEW gs, NEW workflow_files,
           {f \in fs : f.job_id = j.id} = {f \in gs : f.job_id = j.id}
    PROVE  FinalJob(j, fs, workflow_files) = FinalJob(j, gs, workflow_files)
    BY DEF FinalJob, JobResponse

(* The queries of each view, and what they find where there is a workflow. *)
GotFrom(db, view, arg) == [q \in Range(Fetch(view)) |-> Select(db, q, arg)]

LEMMA Queries ==
    /\ Range(Fetch("overview")) = {"workflow", "rules", "jobs", "files", "rulegraph"}
    /\ Range(Fetch("jobs")) = {"jobs", "files"}
    /\ Range(Fetch("rule")) = {"rule", "rule_jobs", "rule_files"}
    /\ Range(Fetch("files")) = {"job_files"}
    /\ Range(Fetch("rulegraph")) = {"rulegraph"}
    BY DEF Range, Fetch

LEMMA ResponsesAre ==
    ASSUME NEW db, NEW arg, NEW workflow_files
    PROVE  LET of(view) == Response(view, GotFrom(db, view, arg), workflow_files)
               jobs     == JobResponses(Select(db, "jobs", arg), Select(db, "files", arg),
                                        workflow_files)
           IN  /\ of("overview") = {RuleResponse(r.name, jobs) : r \in Select(db, "rules", arg)}
               /\ of("jobs") = jobs
               /\ of("rule") =
                     {[name |-> r.name,
                       jobs |-> JobResponses(Select(db, "rule_jobs", arg),
                                             Select(db, "rule_files", arg), workflow_files)] :
                      r \in Select(db, "rule", arg)}
               /\ of("files") = {FileResponse(f) : f \in Select(db, "job_files", arg)}
               /\ of("rulegraph") = Select(db, "rulegraph", arg)
    BY Queries DEF Response, GotFrom

LEMMA FoundIs ==
    ASSUME NEW db, NEW arg
    PROVE  /\ Found("overview", GotFrom(db, "overview", arg)) <=> Select(db, "workflow", arg) # {}
           /\ Found("rule", GotFrom(db, "rule", arg)) <=> Select(db, "rule", arg) # {}
           /\ Found("rulegraph", GotFrom(db, "rulegraph", arg))
                 <=> Select(db, "rulegraph", arg) # {}
           /\ \A view \in {"jobs", "files"} : Found(view, GotFrom(db, view, arg))
    BY Queries DEF Found, GotFrom

-----------------------------------------------------------------------------
(* The views of one database.                                              *)

LEMMA Selected ==
    ASSUME NEW db, Table(db, "workflows") # {}, NEW arg
    PROVE  /\ Select(db, "workflow", arg) = Table(db, "workflows")
           /\ Select(db, "rules", arg) = Table(db, "rules")
           /\ Select(db, "jobs", arg) = get_jobs(db)
           /\ Select(db, "files", arg) = get_all_files(db)
           /\ Select(db, "rule", arg) = {r \in Table(db, "rules") : r.name = arg}
           /\ Select(db, "rule_jobs", arg) = {j \in get_jobs(db) : j.rule_name = arg}
           /\ Select(db, "rule_files", arg) =
                 {f \in Table(db, "files") :
                     \E j \in get_jobs(db) : j.rule_name = arg /\ j.id = f.job_id}
           /\ Select(db, "job_files", arg) = get_job_files_by_snakemake_id(db, arg)
           /\ Select(db, "rulegraph", arg) = get_rulegraph(db)
    BY DEF Select, IfWorkflow, get_single_workflow_id, get_workflow, get_rules, get_rule_by_name,
           get_jobs_by_rule, get_files_for_jobs

(* A job's rule, if it has one, is a rule of the database.                 *)
LEMMA JobsHaveRules ==
    ASSUME NEW db, NEW j \in get_jobs(db), j.rule_name # None
    PROVE  \E r \in Table(db, "rules") : r.name = j.rule_name
<1>1. PICK job \in Table(db, "jobs") : j = JobRow(db, job)
    BY DEF get_jobs
<1>. DEFINE names == {r.name : r \in {x \in Table(db, "rules") : x.id = job.rule_id}}
<1>2. j.rule_name = IF names = {} THEN None ELSE CHOOSE name \in names : TRUE
    BY <1>1 DEF JobRow, RuleName
<1>3. j.rule_name \in names
    BY <1>2
<1>. QED  BY <1>3

(* Of each job a view of all jobs and one of its rule have the same files. *)
LEMMA RuleFiles ==
    ASSUME NEW db, NEW name, NEW j \in get_jobs(db), j.rule_name = name,
           Table(db, "workflows") # {}
    PROVE  {f \in Select(db, "files", name) : f.job_id = j.id}
             = {f \in Select(db, "rule_files", name) : f.job_id = j.id}
<1>1. \E job \in Table(db, "jobs") : job.id = j.id
    BY DEF get_jobs, JobRow
<1>. QED  BY <1>1, Selected DEF get_all_files

LEMMA RuleViewAgrees ==
    ASSUME NEW db, NEW name, NEW workflow_files, Table(db, "workflows") # {}
    PROVE  {job \in JobResponses(Select(db, "jobs", None), Select(db, "files", None),
                                 workflow_files) : job.rule = name}
             = JobResponses(Select(db, "rule_jobs", name), Select(db, "rule_files", name),
                            workflow_files)
<1>. DEFINE files == Select(db, "files", None)
            own   == Select(db, "rule_files", name)
<1>1. Select(db, "jobs", None) = get_jobs(db)
      /\ Select(db, "rule_jobs", name) = {j \in get_jobs(db) : j.rule_name = name}
      /\ files = Select(db, "files", name)
    BY Selected
<1>2. ASSUME NEW j \in get_jobs(db), j.rule_name = name
      PROVE  FinalJob(j, files, workflow_files) = FinalJob(j, own, workflow_files)
    BY <1>1, <1>2, RuleFiles, SameFilesSameJob
<1>3. \A j \in get_jobs(db) : FinalJob(j, files, workflow_files).rule = j.rule_name
    BY FinalJobFields
<1>. HIDE DEF files, own
<1>4. JobResponses(Select(db, "jobs", None), files, workflow_files)
         = {FinalJob(j, files, workflow_files) : j \in get_jobs(db)}
    BY <1>1, JobResponsesAre
<1>5. JobResponses(Select(db, "rule_jobs", name), own, workflow_files)
         = {FinalJob(j, own, workflow_files) : j \in {x \in get_jobs(db) : x.rule_name = name}}
    BY <1>1, JobResponsesAre
<1>6. {job \in {FinalJob(j, files, workflow_files) : j \in get_jobs(db)} : job.rule = name}
         = {FinalJob(j, own, workflow_files) : j \in {x \in get_jobs(db) : x.rule_name = name}}
    BY <1>2, <1>3
<1>. QED  BY <1>4, <1>5, <1>6 DEF files, own

(* Logs apart, a job has the files that are asked for by its snakemake_id. *)
LEMMA FilesViewAgrees ==
    ASSUME NEW db \in SUBSET Row, Table(db, "workflows") # {}, NEW j \in get_jobs(db),
           NEW workflow_files
    PROVE  LET job == FinalJob(j, get_all_files(db), workflow_files)
               fs  == {FileResponse(f) : f \in Select(db, "job_files", job.snakemake_id)}
           IN  job.files \subseteq fs /\ NotLogs(fs) = NotLogs(job.files)
<1>. DEFINE job == FinalJob(j, get_all_files(db), workflow_files)
            fs  == {FileResponse(f) : f \in Select(db, "job_files", job.snakemake_id)}
<1>1. job.snakemake_id = j.snakemake_id
      /\ job.files = {f \in FilesOf(j, get_all_files(db)) : Kept(f, KnownFiles(workflow_files))}
    BY FinalJobFields
<1>2. PICK row \in Table(db, "jobs") : j.id = row.id /\ j.snakemake_id = row.snakemake_id
    BY DEF get_jobs, JobRow
<1>3. \A x \in Table(db, "jobs") : x.id \in Nat /\ x.snakemake_id = x.id - 1
    BY Rows, ViewsAssumption
<1>4. \A x \in Table(db, "jobs") : x.snakemake_id = j.snakemake_id <=> x.id = j.id
    BY <1>2, <1>3
<1>5. Select(db, "job_files", j.snakemake_id) = {f \in get_all_files(db) : f.job_id = j.id}
    BY <1>2, <1>4, Selected DEF get_job_files_by_snakemake_id, get_all_files
<1>6. fs = FilesOf(j, get_all_files(db))
    BY <1>1, <1>5 DEF FilesOf
<1>7. \A f \in fs : f.file_type # "LOG" => Kept(f, KnownFiles(workflow_files))
    BY DEF Kept
<1>. HIDE DEF job, fs
<1>8. job.files \subseteq fs /\ NotLogs(fs) = NotLogs(job.files)
    BY <1>1, <1>6, <1>7 DEF NotLogs
<1>. QED  BY <1>8 DEF job, fs

LEMMA ViewsAreOfCopy ==
    ASSUME NEW view, NEW arg
    PROVE  /\ Got(view, arg) = GotFrom(copy, view, arg)
           /\ View(view, arg) = Response(view, GotFrom(copy, view, arg), listing)
    BY DEF View, Got, GotFrom

LEMMA ViewsAgree == WellFormed(copy) => RoutesAgree
<1>. SUFFICES ASSUME WellFormed(copy), HasWorkflow PROVE RoutesAgree
    BY DEF RoutesAgree
<1>. DEFINE jobs     == View("jobs", None)
            overview == View("overview", None)
            rules    == Table(copy, "rules")
<1>1. copy \in SUBSET Row /\ Table(copy, "workflows") # {}
    BY DEF WellFormed, HasWorkflow
<1>2. jobs = JobResponses(get_jobs(copy), get_all_files(copy), listing)
      /\ overview = {RuleResponse(r.name, jobs) : r \in rules}
  <2>1. Select(copy, "jobs", None) = get_jobs(copy) /\ Select(copy, "rules", None) = rules
        /\ Select(copy, "files", None) = get_all_files(copy)
    BY <1>1, Selected
  <2>. QED  BY <2>1, ResponsesAre, ViewsAreOfCopy
<1>3. jobs = {FinalJob(j, get_all_files(copy), listing) : j \in get_jobs(copy)}
    BY <1>2, JobResponsesAre
<1>. HIDE DEF jobs, overview
<1>4. UNION {r.jobs : r \in overview} = {j \in jobs : j.rule # None}
  <2>1. ASSUME NEW j \in jobs, j.rule # None PROVE \E r \in rules : r.name = j.rule
    BY <1>3, <2>1, FinalJobFields, JobsHaveRules
  <2>2. \A r \in rules : r.name # None
    BY <1>1, Rows, ViewsAssumption
  <2>3. overview = {[name |-> r.name, jobs |-> {j \in jobs : j.rule = r.name}] : r \in rules}
    BY <1>2 DEF RuleResponse
  <2>4. \A j \in jobs : j.rule # None => \E r \in overview : j \in r.jobs
    <3>. SUFFICES ASSUME NEW j \in jobs, j.rule # None PROVE \E r \in overview : j \in r.jobs
        OBVIOUS
    <3>1. PICK r \in rules : r.name = j.rule
        BY <2>1
    <3>. DEFINE nested == [name |-> r.name, jobs |-> {x \in jobs : x.rule = r.name}]
    <3>2. nested \in overview /\ j \in nested.jobs
        BY <2>3, <3>1
    <3>. QED  BY <3>2
  <2>5. \A r \in overview : \A j \in r.jobs : j \in jobs /\ j.rule # None
    BY <2>2, <2>3
  <2>. QED  BY <2>4, <2>5
<1>5. ASSUME NEW name \in Rules
      PROVE  LET nested == {r \in overview : r.name = name} IN
             (Found("rule", Got("rule", name)) <=> nested # {}) /\ View("rule", name) = nested
  <2>. DEFINE nested == {r \in overview : r.name = name}
              own    == JobResponses(Select(copy, "rule_jobs", name),
                                     Select(copy, "rule_files", name), listing)
              found  == {r \in rules : r.name = name}
  <2>1. (Found("rule", Got("rule", name)) <=> found # {})
        /\ View("rule", name) = {[name |-> r.name, jobs |-> own] : r \in found}
    <3>1. Select(copy, "rule", name) = found
        BY <1>1, Selected
    <3>. QED  BY <3>1, ResponsesAre, FoundIs, ViewsAreOfCopy
  <2>2. own = {j \in jobs : j.rule = name}
    BY <1>1, <1>2, Selected, RuleViewAgrees
  <2>. HIDE DEF own
  <2>3. nested = {[name |-> r.name, jobs |-> own] : r \in found}
    BY <1>2, <2>2 DEF RuleResponse
  <2>. QED  BY <2>1, <2>3
<1>6. ASSUME NEW job \in jobs
      PROVE  LET fs == View("files", job.snakemake_id) IN
             job.files \subseteq fs /\ NotLogs(fs) = NotLogs(job.files)
  <2>1. PICK j \in get_jobs(copy) : job = FinalJob(j, get_all_files(copy), listing)
    BY <1>3
  <2>2. View("files", job.snakemake_id)
          = {FileResponse(f) : f \in Select(copy, "job_files", job.snakemake_id)}
    BY ResponsesAre, ViewsAreOfCopy
  <2>. QED  BY <1>1, <2>1, <2>2, FilesViewAgrees
<1>. QED  BY <1>4, <1>5, <1>6 DEF RoutesAgree, jobs, overview

-----------------------------------------------------------------------------
(* Logs.  Of finitely many there is a latest: the one whose later ids are  *)
(* the fewest.                                                             *)

LEMMA Latest ==
    ASSUME NEW n \in Nat, NEW ids \in SUBSET (1..n), ids # {}
    PROVE  \E i \in ids : \A k \in ids : k <= i
<1>. DEFINE From(i) == {k \in 1..n : k >= i}
            froms   == {From(i) : i \in ids}
            less    == StrictSubsetOrdering(1..n)
<1>1. froms \subseteq FiniteSubsetsOf(1..n) /\ froms # {}
  <2>1. IsFiniteSet(1..n)
    BY FS_Interval
  <2>2. froms \subseteq SUBSET (1..n)
    OBVIOUS
  <2>3. PICK i \in ids : TRUE
    OBVIOUS
  <2>4. From(i) \in froms
    OBVIOUS
  <2>5. FiniteSubsetsOf(1..n) = SUBSET (1..n)
    BY <2>1, FS_FiniteSubsetsOfFinite
  <2>. HIDE DEF froms
  <2>. QED  BY <2>2, <2>4, <2>5
<1>2. \E x \in froms : \A y \in froms : <<y, x>> \notin less
    BY <1>1, FS_StrictSubsetOrderingWellFounded, WFMin
<1>3. PICK i \in ids : \A k \in ids : <<From(k), From(i)>> \notin less
    BY <1>2
<1>4. ASSUME NEW k \in ids, k > i PROVE FALSE
  <2>1. From(k) \subseteq From(i) /\ i \in From(i) /\ i \notin From(k)
    BY <1>4
  <2>2. <<From(k), From(i)>> \in less
    BY <2>1 DEF StrictSubsetOrdering
  <2>. QED  BY <1>3, <2>2
<1>. QED  BY <1>4

LEMMA Candidates ==
    ASSUME NEW rule \in Rules \cup {None}, NEW wildcards \in Wildcards,
           NEW files, files \subseteq Paths
    PROVE  {p \in files \cap SlurmLogs : p.dir = SlurmLog(rule, wildcards, 0).dir}
             = {SlurmLog(rule, wildcards, i) : i \in 1..MaxSlurmId} \cap files
<1>1. ASSUME NEW p \in SlurmLogs, p.dir = SlurmLog(rule, wildcards, 0).dir
      PROVE  \E i \in 1..MaxSlurmId : p = SlurmLog(rule, wildcards, i)
    BY <1>1 DEF SlurmLogs, SlurmLog
<1>2. ASSUME NEW i \in 1..MaxSlurmId, SlurmLog(rule, wildcards, i) \in files
      PROVE  SlurmLog(rule, wildcards, i) \in SlurmLogs
  <2>1. SlurmLog(rule, wildcards, i) # LogPath
    BY DEF SlurmLog, LogPath
  <2>. QED  BY <1>2, <2>1 DEF Paths
<1>3. \A i : SlurmLog(rule, wildcards, i).dir = SlurmLog(rule, wildcards, 0).dir
    BY DEF SlurmLog
<1>. QED  BY <1>1, <1>2, <1>3

LEMMA LatestLog ==
    ASSUME NEW j, NEW filerows, NEW files, files \subseteq Paths,
           backend = "local" => files \cap SlurmLogs = {},
           j.rule_name \in Rules \cup {None}, j.wildcards \in Wildcards
    PROVE  LET log == ResolvedLog(JobResponse(j, filerows), files)
               own == {SlurmLog(j.rule_name, j.wildcards, i) : i \in 1..MaxSlurmId} \cap files
           IN  IF own = {} THEN log = None
               ELSE log \in own /\ \A p \in own : p.name <= log.name
<1>. DEFINE own == {SlurmLog(j.rule_name, j.wildcards, i) : i \in 1..MaxSlurmId} \cap files
            log == ResolvedLog(JobResponse(j, filerows), files)
            Best(p) == \A q \in own : q.name <= p.name
<1>1. {p \in files \cap SlurmLogs : p.dir = SlurmLog(j.rule_name, j.wildcards, 0).dir} = own
    BY Candidates
<1>2. log = IF backend = "local" \/ own = {} THEN None ELSE CHOOSE p \in own : Best(p)
  <2>. DEFINE job == JobResponse(j, filerows)
  <2>1. job.rule = j.rule_name /\ job.wildcards = j.wildcards
    BY DEF JobResponse
  <2>. HIDE DEF job, own
  <2>2. ResolvedLog(job, files)
          = LET candidates == {p \in files \cap SlurmLogs :
                                  p.dir = SlurmLog(j.rule_name, j.wildcards, 0).dir}
            IN  IF backend = "local" \/ candidates = {} THEN None
                ELSE CHOOSE p \in candidates : \A q \in candidates : q.name <= p.name
    BY <2>1 DEF ResolvedLog
  <2>3. ResolvedLog(job, files)
          = IF backend = "local" \/ own = {} THEN None
            ELSE CHOOSE p \in own : \A q \in own : q.name <= p.name
    BY <1>1, <2>2
  <2>. QED  BY <2>3 DEF job
<1>3. own \subseteq files \cap SlurmLogs
    BY <1>1
<1>4. \A p \in own : p.name \in 1..MaxSlurmId
    BY DEF SlurmLog
<1>5. own # {} => \E p \in own : Best(p)
  <2>. DEFINE names == {p.name : p \in own}
  <2>1. own # {} => names # {} /\ names \in SUBSET (1..MaxSlurmId)
    BY <1>4
  <2>2. own # {} => \E i \in names : \A k \in names : k <= i
    BY <2>1, Latest, ViewsAssumption
  <2>. QED  BY <2>2
<1>. HIDE DEF own, log
<1>6. own # {} => backend # "local"
    BY <1>3
<1>7. own # {} => log \in own /\ Best(log)
    BY <1>2, <1>5, <1>6
<1>. QED  BY <1>2, <1>7 DEF own, log

(* A log row is shown if its file has content.                             *)
LEMMA LogShown ==
    ASSUME NEW db \in SUBSET Row, NEW j, j.id \in Nat,
           \E job \in Table(db, "jobs") : job.id = j.id,
           NEW files, files # {}, files \subseteq Paths
    PROVE  (LogPath \in files /\ \E f \in Table(db, "files") : f.job_id = j.id /\ f.file_type = "LOG")
             <=> \E f \in FilesOf(j, get_all_files(db)) : f.file_type = "LOG" /\ Kept(f, files)
<1>1. \A f : f \in get_all_files(db) /\ f.job_id = j.id
                <=> f \in Table(db, "files") /\ f.job_id = j.id
    BY DEF get_all_files
<1>2. ASSUME NEW f \in Table(db, "files"), f.file_type = "LOG"
      PROVE  FileResponse(f).path = <<LogPath>> /\ FileResponse(f).file_type = "LOG"
  <2>1. f.path \in {<<LogPath>>, InWorkDir(LogPath)}
    BY <1>2, Rows
  <2>2. _strip_work_dir(<<LogPath>>) = <<LogPath>> /\ _strip_work_dir(InWorkDir(LogPath)) = <<LogPath>>
    BY DEF _strip_work_dir, InWorkDir
  <2>. QED  BY <1>2, <2>1, <2>2 DEF FileResponse
<1>3. \A f : f.path = <<LogPath>> /\ f.file_type = "LOG" => (Kept(f, files) <=> LogPath \in files)
    BY DEF Kept
<1>4. \A f : FileResponse(f).file_type = f.file_type
    BY DEF FileResponse
<1>. QED  BY <1>1, <1>2, <1>3, <1>4 DEF FilesOf

(* What a listing may have: a job without SLURM has no logs of it.         *)
ListingInv ==
    \/ listing = None
    \/ listing \subseteq Paths /\ (backend = "local" => listing \cap SlurmLogs = {})

LEMMA LogsAre == WellFormed(copy) /\ ListingInv => LogsAreThoseWithContent
<1>. SUFFICES ASSUME WellFormed(copy), ListingInv, HasWorkflow, listing \notin {None, {}},
                     NEW job \in View("jobs", None)
              PROVE  LET rows == {f \in Table(copy, "files") :
                                     f.job_id = job.snakemake_id + 1 /\ f.file_type = "LOG"}
                         own  == {SlurmLog(job.rule, job.wildcards, i) : i \in 1..MaxSlurmId}
                                    \cap listing
                     IN  /\ LogPath \in listing /\ rows # {} <=>
                               \E f \in job.files : f.file_type = "LOG"
                         /\ IF own = {} THEN job.log = None
                            ELSE job.log \in own /\ \A p \in own : p.name <= job.log.name
    BY DEF LogsAreThoseWithContent
<1>1. copy \in SUBSET Row /\ listing \subseteq Paths /\ Table(copy, "workflows") # {}
      /\ KnownFiles(listing) = listing
    BY DEF WellFormed, ListingInv, HasWorkflow, KnownFiles
<1>2. PICK j \in get_jobs(copy) : job = FinalJob(j, get_all_files(copy), listing)
  <2>1. Select(copy, "jobs", None) = get_jobs(copy)
        /\ Select(copy, "files", None) = get_all_files(copy)
    BY <1>1, Selected
  <2>. QED  BY <2>1, ViewsAreOfCopy, ResponsesAre, JobResponsesAre
<1>3. /\ job.snakemake_id = j.snakemake_id /\ job.rule = j.rule_name
      /\ job.wildcards = j.wildcards
      /\ job.files = {f \in FilesOf(j, get_all_files(copy)) : Kept(f, listing)}
      /\ job.log = ResolvedLog(JobResponse(j, get_all_files(copy)), listing)
    BY <1>1, <1>2, FinalJobFields
<1>4. PICK row \in Table(copy, "jobs") : j = JobRow(copy, row)
    BY DEF get_jobs
<1>5. j.id = row.id /\ j.id \in Nat /\ j.snakemake_id + 1 = j.id /\ j.wildcards \in Wildcards
    BY <1>1, <1>4, Rows, ViewsAssumption DEF JobRow
<1>6. j.rule_name \in Rules \cup {None}
    BY <1>1, JobsHaveRules, Rows
<1>7. (LogPath \in listing
          /\ \E f \in Table(copy, "files") : f.job_id = j.id /\ f.file_type = "LOG")
        <=> \E f \in FilesOf(j, get_all_files(copy)) : f.file_type = "LOG" /\ Kept(f, listing)
    BY <1>1, <1>5, LogShown
<1>8. LET own == {SlurmLog(j.rule_name, j.wildcards, i) : i \in 1..MaxSlurmId} \cap listing
      IN  IF own = {} THEN job.log = None
          ELSE job.log \in own /\ \A p \in own : p.name <= job.log.name
    BY <1>1, <1>3, <1>5, <1>6, LatestLog DEF ListingInv
<1>. QED  BY <1>3, <1>5, <1>7, <1>8

-----------------------------------------------------------------------------
(* The inductive invariant.  A request has got what the SELECTs so far     *)
(* find in one database, which the copy has kept all of unless the job was *)
(* deleted; and what was answered is in every database a later answer may  *)
(* be made of.                                                             *)

StateTypes ==
    /\ backend \in Backends
    /\ status \in {"SETUP", "RUNNING", "COMPLETED", "CANCELLED", "DELETED"}
    /\ asked \in Asked /\ torn \in BOOLEAN
    /\ answer = NoAnswer \/ answer.code \in {200, 404, 409, 502}

CopyInv == WellFormed(copy) /\ (status = "SETUP" => copy = {})

HasTables(db) == ~(db \subseteq {File})

RequestOK(r) ==
    /\ r = [at |-> r.at, conn |-> r.conn, listing |-> r.listing, got |-> r.got]
    /\ r.at \in 0..Len(Fetch(asked.view))
    /\ r.at > 0 => r.conn # {}
    /\ r.conn # {} => /\ WellFormed(r.conn) /\ HasTables(r.conn)
                      /\ status = "DELETED" \/ r.conn \subseteq copy
    /\ r.got = [q \in {Fetch(asked.view)[i] : i \in 1..r.at} |-> Select(r.conn, q, asked.arg)]

RequestInv == request = None \/ RequestOK(request)

(* What the view has found, and told, of a database.                       *)
Finds(db) == Found(asked.view, GotFrom(db, asked.view, asked.arg))

Tells(db, workflow_files) ==
    Facts(Response(asked.view, GotFrom(db, asked.view, asked.arg), workflow_files))

Reveals(db) == HasTables(db) /\ Finds(db) /\ Facts(answer.data) \subseteq Tells(db, None)

AnswerInv ==
    answer.code = 200 /\ status # "DELETED" =>
        /\ Reveals(copy)
        /\ request = None \/ request.conn = {} \/ Reveals(request.conn)

ViewsInv == StateTypes /\ CopyInv /\ ListingInv /\ RequestInv /\ AnswerInv

-----------------------------------------------------------------------------
(* A database that has more tells more, whatever was listed.               *)

LEMMA TablesGrow ==
    ASSUME NEW db, NEW more, db \subseteq more
    PROVE  \A name : Table(db, name) \subseteq Table(more, name)
    BY DEF Table

LEMMA JobsStay ==
    ASSUME NEW db, WellFormed(db), NEW more, WellFormed(more), db \subseteq more
    PROVE  get_jobs(db) \subseteq get_jobs(more)
<1>. SUFFICES ASSUME NEW row \in Table(db, "jobs") PROVE JobRow(db, row) = JobRow(more, row)
    BY TablesGrow DEF get_jobs
<1>. DEFINE named(d) == {x \in Table(d, "rules") : x.id = row.rule_id}
<1>1. named(db) \subseteq named(more)
    BY TablesGrow
<1>2. ASSUME NEW x \in named(more) PROVE x \in named(db)
  <2>1. x.id \in Nat /\ x \in Table(more, "rules")
    BY Rows, ViewsAssumption DEF WellFormed
  <2>2. row.rule_id \in Ids(db, "rules")
    BY <2>1, ViewsAssumption DEF WellFormed
  <2>3. PICK y \in Table(db, "rules") : y.id = row.rule_id
    BY <2>2 DEF Ids
  <2>4. y \in Table(more, "rules")
    BY TablesGrow
  <2>5. y = x
    BY <2>1, <2>3, <2>4 DEF WellFormed
  <2>. QED  BY <2>3, <2>5
<1>3. named(db) = named(more)
    BY <1>1, <1>2
<1>. QED  BY <1>3 DEF JobRow, RuleName

LEMMA FilesStay ==
    ASSUME NEW db, NEW more, db \subseteq more
    PROVE  /\ get_all_files(db) \subseteq get_all_files(more)
           /\ \A id : get_job_files_by_snakemake_id(db, id)
                         \subseteq get_job_files_by_snakemake_id(more, id)
           /\ get_rulegraph(db) \subseteq get_rulegraph(more)
    BY TablesGrow DEF get_all_files, get_job_files_by_snakemake_id, get_rulegraph

(* A job tells of its files, logs aside, and so tells more.                *)
LEMMA JobTells ==
    ASSUME NEW j, NEW files, NEW workflow_files
    PROVE  NotLogs(FinalJob(j, files, workflow_files).files) = NotLogs(FilesOf(j, files))
<1>1. \A f : f.file_type # "LOG" => Kept(f, KnownFiles(workflow_files))
    BY DEF Kept
<1>. QED  BY <1>1, FinalJobFields DEF NotLogs

TellsMore(job, other) ==
    /\ other.rule = job.rule /\ other.snakemake_id = job.snakemake_id
    /\ NotLogs(job.files) \subseteq NotLogs(other.files)

LEMMA JobResponsesGrow ==
    ASSUME NEW db, WellFormed(db), NEW more, WellFormed(more), db \subseteq more,
           NEW l1, NEW l2,
           NEW job \in JobResponses(get_jobs(db), get_all_files(db), l1)
    PROVE  \E other \in JobResponses(get_jobs(more), get_all_files(more), l2) :
              TellsMore(job, other)
<1>1. PICK j \in get_jobs(db) : job = FinalJob(j, get_all_files(db), l1)
    BY JobResponsesAre
<1>. DEFINE other == FinalJob(j, get_all_files(more), l2)
<1>2. other \in JobResponses(get_jobs(more), get_all_files(more), l2)
    BY JobsStay, JobResponsesAre
<1>3. NotLogs(FilesOf(j, get_all_files(db))) \subseteq NotLogs(FilesOf(j, get_all_files(more)))
    BY FilesStay DEF NotLogs, FilesOf
<1>4. NotLogs(job.files) \subseteq NotLogs(other.files)
    BY <1>1, <1>3, JobTells
<1>5. other.rule = job.rule /\ other.snakemake_id = job.snakemake_id
    BY <1>1, FinalJobFields
<1>. QED  BY <1>2, <1>4, <1>5 DEF TellsMore

LEMMA JobFactsGrow ==
    ASSUME NEW rule, NEW jobs, NEW others,
           \A job \in jobs : \E other \in others : TellsMore(job, other)
    PROVE  JobFacts(rule, jobs) \subseteq JobFacts(rule, others)
    BY DEF JobFacts, TellsMore

(* The rules of an answer, all of them or the one that is asked for.       *)
NestedFacts(rules, jobs) ==
    {<<r.name>> : r \in rules}
    \cup UNION {JobFacts(r.name, {j \in jobs : j.rule = r.name}) : r \in rules}

LEMMA NestedFactsAre ==
    ASSUME NEW rules, NEW jobs, asked.view \in {"overview", "rule"}
    PROVE  Facts({RuleResponse(r.name, jobs) : r \in rules}) = NestedFacts(rules, jobs)
<1>. DEFINE data == {RuleResponse(r.name, jobs) : r \in rules}
<1>1. \A r \in rules : RuleResponse(r.name, jobs).name = r.name
         /\ RuleResponse(r.name, jobs).jobs = {j \in jobs : j.rule = r.name}
    BY DEF RuleResponse
<1>2. {<<d.name>> : d \in data} = {<<r.name>> : r \in rules}
    BY <1>1
<1>3. {JobFacts(d.name, d.jobs) : d \in data}
         = {JobFacts(r.name, {j \in jobs : j.rule = r.name}) : r \in rules}
  <2>. DEFINE facts(r) == JobFacts(r.name, {j \in jobs : j.rule = r.name})
              told(d)  == JobFacts(d.name, d.jobs)
  <2>1. \A r \in rules : told(RuleResponse(r.name, jobs)) = facts(r)
    BY <1>1
  <2>. HIDE DEF facts, told
  <2>2. {told(d) : d \in data} = {facts(r) : r \in rules}
    BY <2>1
  <2>. QED  BY <2>2 DEF facts, told
<1>4. Facts(data) = {<<d.name>> : d \in data} \cup UNION {JobFacts(d.name, d.jobs) : d \in data}
    BY DEF Facts
<1>. HIDE DEF data
<1>5. Facts(data) = NestedFacts(rules, jobs)
    BY <1>2, <1>3, <1>4 DEF NestedFacts
<1>. QED  BY <1>5 DEF data

LEMMA NestedFactsGrow ==
    ASSUME NEW rules, NEW more, rules \subseteq more, NEW jobs, NEW others,
           \A job \in jobs : \E other \in others : TellsMore(job, other)
    PROVE  NestedFacts(rules, jobs) \subseteq NestedFacts(more, others)
<1>1. ASSUME NEW r \in rules
      PROVE  JobFacts(r.name, {j \in jobs : j.rule = r.name})
                \subseteq JobFacts(r.name, {j \in others : j.rule = r.name})
  <2>1. \A job \in {j \in jobs : j.rule = r.name} :
            \E other \in {j \in others : j.rule = r.name} : TellsMore(job, other)
    BY DEF TellsMore
  <2>. QED  BY <2>1, JobFactsGrow
<1>2. {<<r.name>> : r \in rules} \subseteq {<<r.name>> : r \in more}
    OBVIOUS
<1>3. UNION {JobFacts(r.name, {j \in jobs : j.rule = r.name}) : r \in rules}
         \subseteq UNION {JobFacts(r.name, {j \in others : j.rule = r.name}) : r \in more}
  <2>. DEFINE facts(r, js) == JobFacts(r.name, {j \in js : j.rule = r.name})
  <2>1. \A r \in rules : facts(r, jobs) \subseteq facts(r, others)
    BY <1>1
  <2>. HIDE DEF facts
  <2>2. UNION {facts(r, jobs) : r \in rules} \subseteq UNION {facts(r, others) : r \in more}
    BY <2>1
  <2>. QED  BY <2>2 DEF facts
<1>. QED  BY <1>2, <1>3 DEF NestedFacts

(* What is found and told where there is a workflow, and where not.        *)
AllJobs(db, workflow_files) == JobResponses(get_jobs(db), get_all_files(db), workflow_files)

LEMMA ToldOfWorkflow ==
    ASSUME NEW db, Table(db, "workflows") # {}, NEW l
    PROVE  /\ asked.view = "overview" =>
                 Tells(db, l) = NestedFacts(Table(db, "rules"), AllJobs(db, l))
           /\ asked.view = "rule" =>
                 Tells(db, l) = NestedFacts({r \in Table(db, "rules") : r.name = asked.arg},
                                            AllJobs(db, l))
           /\ asked.view = "jobs" =>
                 Tells(db, l) = UNION {JobFacts(j.rule, {j}) : j \in AllJobs(db, l)}
           /\ asked.view = "rulegraph" => Tells(db, l) = get_rulegraph(db)
<1>. DEFINE arg  == asked.arg
            jobs == AllJobs(db, l)
<1>1. \A a : JobResponses(Select(db, "jobs", a), Select(db, "files", a), l) = jobs
    BY Selected DEF AllJobs
<1>. HIDE DEF jobs
<1>2. ASSUME asked.view = "overview"
      PROVE  Tells(db, l) = NestedFacts(Table(db, "rules"), jobs)
  <2>1. Response("overview", GotFrom(db, "overview", arg), l)
          = {RuleResponse(r.name, jobs) : r \in Table(db, "rules")}
    BY <1>1, ResponsesAre, Selected
  <2>. QED  BY <1>2, <2>1, NestedFactsAre DEF Tells
<1>3. ASSUME asked.view = "rule"
      PROVE  Tells(db, l) = NestedFacts({r \in Table(db, "rules") : r.name = arg}, jobs)
  <2>. DEFINE rules == {r \in Table(db, "rules") : r.name = arg}
              own   == JobResponses(Select(db, "rule_jobs", arg), Select(db, "rule_files", arg), l)
  <2>1. own = {j \in jobs : j.rule = arg}
    BY <1>1, RuleViewAgrees
  <2>2. Select(db, "rule", arg) = rules
    BY Selected
  <2>. HIDE DEF own
  <2>3. Response("rule", GotFrom(db, "rule", arg), l) = {[name |-> r.name, jobs |-> own] : r \in rules}
    BY <2>2, ResponsesAre DEF own
  <2>4. {[name |-> r.name, jobs |-> own] : r \in rules} = {RuleResponse(r.name, jobs) : r \in rules}
    BY <2>1 DEF RuleResponse
  <2>. QED  BY <1>3, <2>3, <2>4, NestedFactsAre DEF Tells
<1>4. ASSUME asked.view = "jobs"
      PROVE  Tells(db, l) = UNION {JobFacts(j.rule, {j}) : j \in jobs}
  <2>1. Response("jobs", GotFrom(db, "jobs", arg), l) = jobs
    BY <1>1, ResponsesAre
  <2>. QED  BY <1>4, <2>1 DEF Tells, Facts
<1>5. ASSUME asked.view = "rulegraph" PROVE Tells(db, l) = get_rulegraph(db)
  <2>1. Response("rulegraph", GotFrom(db, "rulegraph", arg), l) = get_rulegraph(db)
    BY ResponsesAre, Selected
  <2>. QED  BY <1>5, <2>1 DEF Tells, Facts
<1>. QED  BY <1>2, <1>3, <1>4, <1>5 DEF jobs

LEMMA FilesTold ==
    ASSUME NEW db, NEW l, asked.view = "files"
    PROVE  Finds(db) /\ Tells(db, l)
             = {FileResponse(f) : f \in get_job_files_by_snakemake_id(db, asked.arg)}
<1>1. Select(db, "job_files", asked.arg) = get_job_files_by_snakemake_id(db, asked.arg)
    BY DEF Select
<1>. QED  BY <1>1, ResponsesAre, FoundIs DEF Tells, Finds, Facts

LEMMA NoWorkflow ==
    ASSUME NEW db, Table(db, "workflows") = {}, NEW l, asked.view # "files", asked \in Asked
    PROVE  \/ ~ Finds(db)
           \/ asked.view = "jobs" /\ Tells(db, l) = {}
<1>1. \A q \in {"workflow", "rules", "jobs", "files", "rulegraph", "rule", "rule_jobs"} :
          Select(db, q, asked.arg) = {}
    BY DEF Select, IfWorkflow, get_single_workflow_id, get_workflow
<1>2. asked.view \in {"overview", "jobs", "rule", "rulegraph"}
    BY DEF Asked
<1>3. CASE asked.view \in {"overview", "rule", "rulegraph"}
    BY <1>1, <1>3, FoundIs DEF Finds
<1>4. CASE asked.view = "jobs"
  <2>1. JobResponses({}, {}, l) = {}
    BY JobResponsesAre
  <2>2. Response("jobs", GotFrom(db, "jobs", asked.arg), l) = {}
    <3>1. Select(db, "jobs", asked.arg) = {} /\ Select(db, "files", asked.arg) = {}
        BY <1>1
    <3>2. Response("jobs", GotFrom(db, "jobs", asked.arg), l)
             = JobResponses(Select(db, "jobs", asked.arg), Select(db, "files", asked.arg), l)
        BY ResponsesAre
    <3>. QED  BY <2>1, <3>1, <3>2
  <2>. QED  BY <1>4, <2>2 DEF Tells, Facts
<1>. QED  BY <1>2, <1>3, <1>4

LEMMA TellsGrow ==
    ASSUME NEW db, WellFormed(db), NEW more, WellFormed(more), db \subseteq more,
           asked \in Asked, Finds(db), NEW l1, NEW l2
    PROVE  Finds(more) /\ Tells(db, l1) \subseteq Tells(more, l2)
<1>. DEFINE jobs == AllJobs(db, l1)
            others == AllJobs(more, l2)
<1>1. \A job \in jobs : \E other \in others : TellsMore(job, other)
    BY JobResponsesGrow DEF AllJobs
<1>. HIDE DEF jobs, others
<1>2. CASE asked.view = "files"
    BY <1>2, FilesTold, FilesStay
<1>3. CASE asked.view # "files" /\ Table(db, "workflows") = {}
  <2>1. asked.view = "jobs" /\ Tells(db, l1) = {}
    BY <1>3, NoWorkflow
  <2>. QED  BY <2>1, FoundIs DEF Finds
<1>4. CASE asked.view # "files" /\ Table(db, "workflows") # {}
  <2>1. Table(more, "workflows") # {}
    BY <1>4, TablesGrow
  <2>2. Table(db, "rules") \subseteq Table(more, "rules")
    BY TablesGrow
  <2>3. CASE asked.view = "overview"
    <3>1. Finds(more)
        BY <2>1, <2>3, Selected, FoundIs DEF Finds
    <3>. QED  BY <1>1, <1>4, <2>1, <2>2, <2>3, <3>1, ToldOfWorkflow, NestedFactsGrow
                 DEF jobs, others
  <2>4. CASE asked.view = "rule"
    <3>. DEFINE rules(d) == {r \in Table(d, "rules") : r.name = asked.arg}
    <3>1. rules(db) # {} /\ rules(db) \subseteq rules(more)
        BY <1>4, <2>2, <2>4, Selected, FoundIs DEF Finds
    <3>2. Finds(more)
        BY <2>1, <2>4, <3>1, Selected, FoundIs DEF Finds
    <3>3. NestedFacts(rules(db), jobs) \subseteq NestedFacts(rules(more), others)
        BY <1>1, <3>1, NestedFactsGrow
    <3>. QED  BY <1>4, <2>1, <2>4, <3>2, <3>3, ToldOfWorkflow DEF jobs, others
  <2>5. CASE asked.view = "jobs"
    <3>1. \A job, other : TellsMore(job, other) =>
             JobFacts(job.rule, {job}) \subseteq JobFacts(other.rule, {other})
        <4>. SUFFICES ASSUME NEW job, NEW other, TellsMore(job, other)
                      PROVE  JobFacts(job.rule, {job}) \subseteq JobFacts(other.rule, {other})
            OBVIOUS
        <4>1. other.rule = job.rule
            BY DEF TellsMore
        <4>. QED  BY <4>1, JobFactsGrow
    <3>2. UNION {JobFacts(j.rule, {j}) : j \in jobs}
             \subseteq UNION {JobFacts(j.rule, {j}) : j \in others}
        <4>. DEFINE facts(j) == JobFacts(j.rule, {j})
        <4>1. \A job \in jobs : \E other \in others : facts(job) \subseteq facts(other)
            BY <1>1, <3>1
        <4>. HIDE DEF facts
        <4>2. UNION {facts(j) : j \in jobs} \subseteq UNION {facts(j) : j \in others}
            BY <4>1
        <4>. QED  BY <4>2 DEF facts
    <3>3. Finds(more)
        BY <2>5, FoundIs DEF Finds
    <3>. QED  BY <1>4, <2>1, <2>5, <3>2, <3>3, ToldOfWorkflow DEF jobs, others
  <2>6. CASE asked.view = "rulegraph"
    <3>1. get_rulegraph(db) # {} /\ get_rulegraph(db) \subseteq get_rulegraph(more)
        BY <1>4, <2>6, Selected, FoundIs, FilesStay DEF Finds
    <3>2. Finds(more)
        BY <2>1, <2>6, <3>1, Selected, FoundIs DEF Finds
    <3>. QED  BY <1>4, <2>1, <2>6, <3>1, <3>2, ToldOfWorkflow
  <2>. QED  BY <1>4, <2>3, <2>4, <2>5, <2>6 DEF Asked
<1>. QED  BY <1>2, <1>3, <1>4

-----------------------------------------------------------------------------
(* The steps.                                                              *)

USE DEF vars, jobVars, clientVars

LEMMA InitialViews == Init => ViewsInv
<1>. SUFFICES ASSUME Init PROVE ViewsInv
    OBVIOUS
<1>1. StateTypes /\ ListingInv /\ RequestInv
    BY DEF Init, StateTypes, ListingInv, RequestInv
<1>2. CopyInv
    BY EmptyIsWellFormed DEF Init, CopyInv
<1>3. AnswerInv
    BY DEF Init, AnswerInv, NoAnswer
<1>. QED  BY <1>1, <1>2, <1>3 DEF ViewsInv

LEMMA TypesKept == StateTypes /\ [Next]_vars => StateTypes'
<1>. SUFFICES ASSUME StateTypes, [Next]_vars PROVE StateTypes'
    OBVIOUS
<1>0. torn' \in BOOLEAN
  <2>1. UNCHANGED torn \/ torn' \in BOOLEAN
    BY DEF Next, Launches, Lists, Cancels, Syncs, Tears, Deletes, Asks, Connects, Selects,
           Responds
  <2>. QED  BY <2>1 DEF StateTypes
<1>1. CASE Launches \/ Lists \/ Cancels \/ Syncs \/ Deletes \/ UNCHANGED vars
    BY <1>0, <1>1 DEF StateTypes, Launches, Lists, Cancels, Syncs, Deletes
<1>2. CASE Asks
  <2>1. RequireSnkmt \in {200, 404, 409}
    BY DEF RequireSnkmt
  <2>. QED  BY <1>0, <1>2, <2>1 DEF StateTypes, Asks, Answers
<1>3. CASE Connects \/ Selects \/ Responds
    BY <1>0, <1>3 DEF StateTypes, Connects, Selects, Responds, Answers, NotFound
<1>4. CASE Tears
    BY <1>0, <1>4 DEF StateTypes, Tears, Answers
<1>. QED  BY <1>1, <1>2, <1>3, <1>4 DEF Next

LEMMA CopyKept == CopyInv /\ [Next]_vars => CopyInv'
<1>. SUFFICES ASSUME CopyInv, [Next]_vars PROVE CopyInv'
    OBVIOUS
<1>1. CASE Syncs
  <2>1. copy' \in Later(copy)
    BY <1>1 DEF Syncs, Copied, Later
  <2>2. WellFormed(copy')
    BY <2>1, LaterGrows DEF CopyInv
  <2>. QED  BY <1>1, <2>2 DEF CopyInv, Syncs
<1>2. CASE Deletes
    BY <1>2, EmptyIsWellFormed DEF CopyInv, Deletes
<1>3. CASE UNCHANGED copy /\ (status' = "SETUP" => status = "SETUP")
    BY <1>3 DEF CopyInv
<1>4. ASSUME Launches \/ Lists \/ Cancels \/ Tears \/ Asks \/ Connects \/ Selects
             \/ Responds \/ UNCHANGED vars
      PROVE  UNCHANGED copy /\ (status' = "SETUP" => status = "SETUP")
    BY <1>4 DEF Launches, Lists, Cancels, Tears, Asks, Connects, Selects, Responds
<1>. QED  BY <1>1, <1>2, <1>3, <1>4 DEF Next

LEMMA ListingKept == ListingInv /\ [Next]_vars => ListingInv'
<1>. SUFFICES ASSUME ListingInv, [Next]_vars PROVE ListingInv'
    OBVIOUS
<1>1. CASE Lists
    BY <1>1 DEF ListingInv, Lists
<1>2. ASSUME ~ Lists PROVE UNCHANGED <<backend, listing>>
    BY <1>2 DEF Next, Launches, Cancels, Syncs, Tears, Deletes, Asks, Connects, Selects,
                Responds
<1>. QED  BY <1>1, <1>2 DEF ListingInv

(* The copy keeps what it has until it is deleted, and a job that is       *)
(* deleted stays so.                                                       *)
LEMMA CopyGrows ==
    CopyInv /\ [Next]_vars => \/ status' = "DELETED"
                              \/ /\ status # "DELETED"
                                 /\ copy \subseteq copy'
<1>. SUFFICES ASSUME CopyInv, [Next]_vars
              PROVE  status' = "DELETED" \/ (status # "DELETED" /\ copy \subseteq copy')
    OBVIOUS
<1>1. CASE Syncs
  <2>1. copy' \in Later(copy)
    BY <1>1 DEF Syncs, Copied, Later
  <2>2. WellFormed(copy)
    BY DEF CopyInv
  <2>3. copy \subseteq copy'
    BY <2>1, <2>2, LaterGrows
  <2>4. status # "DELETED"
    BY <1>1 DEF Syncs
  <2>. QED  BY <2>3, <2>4
<1>2. CASE Deletes
    BY <1>2 DEF Deletes
<1>3. ASSUME ~ Syncs, ~ Deletes
      PROVE  UNCHANGED copy /\ (UNCHANGED status \/ status # "DELETED")
    BY <1>3 DEF Next, Launches, Lists, Cancels, Tears, Asks, Connects, Selects, Responds
<1>. QED  BY <1>1, <1>2, <1>3

(* What else happens does not touch a request, but a torn copy may end it. *)
TornAnswer == torn' /\ request' = None /\ answer'.code = 502

LEMMA RequestUntouched ==
    ASSUME RequestInv, [Next]_vars, ~ Asks, ~ Connects, ~ Selects, ~ Responds
    PROVE  UNCHANGED asked /\ (UNCHANGED <<request, answer>> \/ TornAnswer)
<1>1. CASE Syncs
    BY <1>1 DEF Syncs, RequestInv, RequestOK, Open
<1>2. CASE Tears
    BY <1>2 DEF Tears, Answers, TornAnswer
<1>. QED  BY <1>1, <1>2 DEF Next, Launches, Lists, Cancels, Deletes

LEMMA RequestKept ==
    StateTypes /\ CopyInv /\ RequestInv /\ [Next]_vars => RequestInv'
<1>. SUFFICES ASSUME StateTypes, CopyInv, RequestInv, [Next]_vars PROVE RequestInv'
    OBVIOUS
<1>0. Len(Fetch(asked.view)) \in Nat
    BY DEF StateTypes, Asked, Fetch
<1>1. CASE Asks
  <2>1. UNCHANGED asked
    BY <1>1 DEF Asks
  <2>2. CASE request' = [at |-> 0, conn |-> {}, listing |-> listing, got |-> <<>>]
    <3>. DEFINE r == [at |-> 0, conn |-> {}, listing |-> listing, got |-> <<>>]
    <3>1. <<>> = [q \in {Fetch(asked.view)[i] : i \in 1..0} |-> Select({}, q, asked.arg)]
        OBVIOUS
    <3>. QED  BY <1>0, <2>1, <2>2, <3>1 DEF RequestInv, RequestOK
  <2>. QED  BY <1>1, <2>2 DEF Asks, Answers, RequestInv
<1>2. CASE Connects
  <2>1. UNCHANGED <<asked, copy, status>> /\ request # None /\ request.at = 0 /\ RequestOK(request)
    BY <1>2 DEF Connects, RequestInv
  <2>2. CASE request' = [request EXCEPT !.conn = copy] /\ HasTables(copy)
    <3>1. /\ request'.at = 0 /\ request'.conn = copy /\ request'.got = request.got
          /\ request' = [at |-> request'.at, conn |-> request'.conn,
                         listing |-> request'.listing, got |-> request'.got]
        BY <2>1, <2>2 DEF RequestOK
    <3>2. request'.got = [q \in {Fetch(asked.view)[i] : i \in 1..0} |-> Select(copy, q, asked.arg)]
        BY <2>1, <3>1 DEF RequestOK
    <3>3. HasTables(request'.conn) /\ WellFormed(request'.conn) /\ request'.conn \subseteq copy'
        BY <2>1, <2>2, <3>1 DEF CopyInv
    <3>4. request'.at \in 0..Len(Fetch(asked'.view))
        BY <1>0, <2>1, <3>1
    <3>5. request'.got = [q \in {Fetch(asked'.view)[i] : i \in 1..request'.at} |->
                             Select(request'.conn, q, asked'.arg)]
        BY <2>1, <3>1, <3>2
    <3>. QED  BY <3>1, <3>3, <3>4, <3>5 DEF RequestInv, RequestOK
  <2>. QED  BY <1>2, <2>2 DEF Connects, Answers, RequestInv, HasTables
<1>3. CASE Selects
  <2>. DEFINE queries == Fetch(asked.view)
              query   == queries[request.at + 1]
              before  == {queries[i] : i \in 1..request.at}
              now(q)  == Select(request.conn, q, asked.arg)
  <2>1. /\ UNCHANGED <<asked, copy, status>>
        /\ request # None /\ request.conn # {} /\ request.at < Len(queries) /\ RequestOK(request)
        /\ request' = [request EXCEPT !.at = @ + 1,
                         !.got = [q \in DOMAIN @ \cup {query} |-> IF q = query THEN now(q) ELSE @[q]]]
    BY <1>3 DEF Selects, RequestInv
  <2>2. /\ request'.at = request.at + 1 /\ request'.conn = request.conn
        /\ request'.got = [q \in DOMAIN request.got \cup {query} |->
                              IF q = query THEN now(q) ELSE request.got[q]]
        /\ request' = [at |-> request'.at, conn |-> request'.conn,
                       listing |-> request'.listing, got |-> request'.got]
    BY <2>1 DEF RequestOK
  <2>3. request.at \in Nat /\ request'.at \in 0..Len(queries)
        /\ 1..request'.at = (1..request.at) \cup {request'.at}
    BY <1>0, <2>1, <2>2 DEF RequestOK
  <2>4. {queries[i] : i \in 1..request'.at} = before \cup {query}
    BY <2>2, <2>3
  <2>5. request'.got = [q \in {queries[i] : i \in 1..request'.at} |-> now(q)]
    <3>1. DOMAIN request.got = before /\ \A q \in before : request.got[q] = now(q)
        BY <2>1 DEF RequestOK
    <3>. HIDE DEF before, now, query
    <3>2. request'.got = [q \in before \cup {query} |-> now(q)]
        BY <2>2, <3>1
    <3>. QED  BY <2>4, <3>2
  <2>. QED  BY <2>1, <2>2, <2>3, <2>5 DEF RequestInv, RequestOK
<1>4. CASE Responds
    BY <1>4 DEF Responds, Answers, RequestInv
<1>5. CASE ~ Asks /\ ~ Connects /\ ~ Selects /\ ~ Responds
  <2>1. UNCHANGED asked /\ (UNCHANGED request \/ request' = None)
    BY <1>5, RequestUntouched DEF TornAnswer
  <2>. QED  BY <2>1, CopyGrows DEF RequestInv, RequestOK
<1>. QED  BY <1>1, <1>2, <1>3, <1>4, <1>5

(* A database with more reveals the answer as well.                        *)
LEMMA RevealsGrow ==
    ASSUME NEW db, WellFormed(db), NEW more, WellFormed(more), db \subseteq more,
           asked \in Asked, Reveals(db)
    PROVE  Reveals(more)
<1>1. HasTables(more)
    BY DEF Reveals, HasTables
<1>2. Finds(more) /\ Tells(db, None) \subseteq Tells(more, None)
    BY TellsGrow DEF Reveals
<1>. QED  BY <1>1, <1>2 DEF Reveals

(* A request that has got all of its view answers from what it has open.   *)
LEMMA AllGot ==
    ASSUME RequestInv, StateTypes, Responds
    PROVE  /\ request # None /\ RequestOK(request) /\ request.conn # {}
           /\ request.got = GotFrom(request.conn, asked.view, asked.arg)
           /\ request' = None /\ UNCHANGED <<status, copy, asked>>
           /\ answer' = IF Finds(request.conn)
                        THEN [code |-> 200,
                              data |-> Response(asked.view, request.got, request.listing)]
                        ELSE [code |-> 404, data |-> None]
<1>1. request # None /\ RequestOK(request) /\ request.at = Len(Fetch(asked.view))
    BY DEF Responds, RequestInv
<1>2. Len(Fetch(asked.view)) \in Nat \ {0}
      /\ {Fetch(asked.view)[i] : i \in 1..Len(Fetch(asked.view))} = Range(Fetch(asked.view))
    BY DEF StateTypes, Asked, Fetch, Range
<1>3. request.conn # {} /\ request.got = GotFrom(request.conn, asked.view, asked.arg)
    BY <1>1, <1>2 DEF RequestOK, GotFrom
<1>. QED  BY <1>1, <1>3 DEF Responds, Answers, Finds, NotFound

(* What an answer of 200 is made of reveals it.                            *)
LEMMA AnswerReveals ==
    ASSUME RequestInv, StateTypes, Responds, Finds(request.conn)
    PROVE  answer'.code = 200 /\ HasTables(request.conn)
           /\ Facts(answer'.data) = Tells(request.conn, request.listing)
           /\ Facts(answer'.data) \subseteq Tells(request.conn, None)
<1>1. RequestOK(request) /\ request.conn # {}
      /\ answer' = [code |-> 200, data |-> Response(asked.view, request.got, request.listing)]
      /\ request.got = GotFrom(request.conn, asked.view, asked.arg)
    BY AllGot
<1>2. WellFormed(request.conn) /\ HasTables(request.conn)
    BY <1>1 DEF RequestOK
<1>3. Facts(answer'.data) = Tells(request.conn, request.listing)
    BY <1>1 DEF Tells
<1>4. Tells(request.conn, request.listing) \subseteq Tells(request.conn, None)
    BY <1>2, TellsGrow DEF StateTypes
<1>. QED  BY <1>1, <1>2, <1>3, <1>4

(* While what was answered is in the copy, a new request is let through,   *)
(* and one that has the copy open is answered with as much.                *)
LEMMA AnswersGrow ==
    ASSUME ViewsInv, [Next]_vars, answer.code = 200, status # "DELETED", ~ torn',
           answer' # answer
    PROVE  answer'.code = 200 /\ Facts(answer.data) \subseteq Facts(answer'.data)
<1>1. /\ Reveals(copy)
      /\ request = None \/ request.conn = {} \/ Reveals(request.conn)
    BY DEF ViewsInv, AnswerInv
<1>2. HasTables(copy) /\ copy # {}
    BY <1>1 DEF Reveals, HasTables
<1>3. status \notin _PRE_EXECUTION_STATUSES
    BY <1>2 DEF ViewsInv, StateTypes, CopyInv, _PRE_EXECUTION_STATUSES
<1>4. ~ Asks
    BY <1>2, <1>3 DEF Asks, RequireSnkmt
<1>5. ~ Connects
    BY <1>2 DEF Connects, HasTables
<1>6. ~ Selects
    BY DEF Selects
<1>7. Responds
    BY <1>4, <1>5, <1>6, RequestUntouched DEF ViewsInv, TornAnswer
<1>8. Reveals(request.conn)
    BY <1>1, <1>7, AllGot DEF ViewsInv
<1>9. WellFormed(request.conn)
    BY <1>7, AllGot DEF ViewsInv, RequestOK
<1>10. answer'.code = 200 /\ Facts(answer'.data) = Tells(request.conn, request.listing)
    BY <1>7, <1>8, AnswerReveals DEF ViewsInv, Reveals
<1>11. Tells(request.conn, None) \subseteq Tells(request.conn, request.listing)
    BY <1>8, <1>9, TellsGrow DEF ViewsInv, StateTypes, Reveals
<1>. QED  BY <1>8, <1>10, <1>11 DEF Reveals

(* A response is made of nothing but what was got and listed, for where    *)
(* the job runs and what is polled stay.                                   *)
LEMMA SameResponse ==
    ASSUME backend' = backend, NEW view, NEW got, NEW workflow_files
    PROVE  Response(view, got, workflow_files)' = Response(view, got, workflow_files)
<1>1. ASSUME NEW job, NEW files
      PROVE  ResolvedLog(job, files)' = ResolvedLog(job, files)
    BY DEF ResolvedLog
<1>2. ASSUME NEW jobs, NEW files
      PROVE  Finished(jobs, files)' = Finished(jobs, files)
    BY <1>1 DEF Finished
<1>3. ASSUME NEW jobs, NEW filerows, NEW files
      PROVE  JobResponses(jobs, filerows, files)' = JobResponses(jobs, filerows, files)
    BY <1>2 DEF JobResponses
<1>. QED  BY <1>3 DEF Response

LEMMA AnswerKept == ViewsInv /\ [Next]_vars => AnswerInv'
<1>. SUFFICES ASSUME ViewsInv, [Next]_vars, answer'.code = 200, status' # "DELETED"
              PROVE  /\ Reveals(copy)'
                     /\ (request = None \/ request.conn = {} \/ Reveals(request.conn))'
    BY DEF AnswerInv
<1>1. /\ asked \in Asked /\ asked' = asked /\ backend' = backend
      /\ status # "DELETED" /\ copy \subseteq copy' /\ WellFormed(copy) /\ WellFormed(copy')
    <2>1. asked' = asked /\ backend' = backend
        BY DEF Next, Launches, Lists, Cancels, Syncs, Tears, Deletes, Asks, Connects,
               Selects, Responds
    <2>. QED  BY <2>1, CopyGrows, CopyKept DEF ViewsInv, StateTypes, CopyInv
<1>2. \A db : Reveals(db)' <=> /\ HasTables(db) /\ Finds(db)
                               /\ Facts(answer'.data) \subseteq Tells(db, None)
  <2>. SUFFICES ASSUME NEW db
                PROVE  Reveals(db)' <=> /\ HasTables(db) /\ Finds(db)
                                        /\ Facts(answer'.data) \subseteq Tells(db, None)
    OBVIOUS
  <2>. DEFINE got == GotFrom(db, asked.view, asked.arg)
  <2>1. got' = got /\ Finds(db)' = Finds(db)
    BY <1>1 DEF Finds
  <2>2. \A data : Facts(data)' = Facts(data)
    BY <1>1 DEF Facts
  <2>3. Response(asked.view, got, None)' = Response(asked.view, got, None)
    BY <1>1, SameResponse
  <2>4. Tells(db, None)' = Tells(db, None)
    BY <2>2, <2>3 DEF Tells
  <2>. QED  BY <2>1, <2>2, <2>4 DEF Reveals
<1>3. CASE UNCHANGED answer
  <2>1. /\ Reveals(copy)
        /\ request = None \/ request.conn = {} \/ Reveals(request.conn)
    BY <1>1, <1>3 DEF ViewsInv, AnswerInv
  <2>2. Reveals(copy')
    BY <1>1, <2>1, RevealsGrow
  <2>3. request' = None \/ request'.conn = {} \/ request'.conn = copy
        \/ (request # None /\ request'.conn = request.conn)
    <3>1. CASE Asks
        BY <1>3, <3>1 DEF Asks, Answers
    <3>2. CASE Connects
        BY <3>2 DEF Connects, Answers, ViewsInv, RequestInv, RequestOK
    <3>3. CASE Selects
        BY <3>3 DEF Selects, ViewsInv, RequestInv, RequestOK
    <3>4. CASE Responds
        BY <3>4 DEF Responds, Answers
    <3>5. CASE ~ Asks /\ ~ Connects /\ ~ Selects /\ ~ Responds
        BY <3>5, RequestUntouched DEF ViewsInv, TornAnswer
    <3>. QED  BY <3>1, <3>2, <3>3, <3>4, <3>5
  <2>. QED  BY <1>2, <1>3, <2>1, <2>2, <2>3 DEF Reveals
<1>4. CASE answer' # answer
  <2>1. CASE Responds
    <3>1. Finds(request.conn) /\ request' = None /\ UNCHANGED copy
        BY <2>1, AllGot DEF ViewsInv
    <3>2. WellFormed(request.conn) /\ request.conn \subseteq copy
        BY <1>1, <2>1, AllGot DEF ViewsInv, RequestOK
    <3>3. HasTables(copy)
        BY <2>1, <3>1, <3>2, AnswerReveals DEF ViewsInv, HasTables
    <3>4. Finds(copy) /\ Tells(request.conn, None) \subseteq Tells(copy, None)
        BY <1>1, <3>1, <3>2, TellsGrow
    <3>5. Facts(answer'.data) \subseteq Tells(copy, None)
        BY <2>1, <3>1, <3>4, AnswerReveals DEF ViewsInv
    <3>. QED  BY <1>2, <3>1, <3>3, <3>4, <3>5
  <2>2. CASE ~ Responds
    <3>1. CASE Asks
        BY <1>4, <3>1 DEF Asks, Answers
    <3>2. CASE Connects
        BY <1>4, <3>2 DEF Connects, Answers
    <3>3. CASE Selects
        BY <1>4, <3>3 DEF Selects
    <3>4. CASE ~ Asks /\ ~ Connects /\ ~ Selects
        BY <1>4, <2>2, <3>4, RequestUntouched DEF ViewsInv, TornAnswer
    <3>. QED  BY <3>1, <3>2, <3>3, <3>4
  <2>. QED  BY <2>1, <2>2
<1>. QED  BY <1>3, <1>4

LEMMA ViewsInvariant == Spec => []ViewsInv
<1>1. ViewsInv /\ [Next]_vars => ViewsInv'
    BY TypesKept, CopyKept, ListingKept, RequestKept, AnswerKept DEF ViewsInv
<1>. QED  BY InitialViews, <1>1, PTL DEF Spec

-----------------------------------------------------------------------------

(* A request's progress, the copy and the answers are what they should be. *)
THEOREM TypeCorrect == Spec => []TypeOK
<1>1. ViewsInv => TypeOK
  <2>. SUFFICES ASSUME ViewsInv PROVE TypeOK
    OBVIOUS
  <2>1. StateTypes /\ ListingInv /\ copy \subseteq Row /\ Cardinality(copy) <= MaxRows
    BY DEF ViewsInv, CopyInv, WellFormed
  <2>2. ASSUME RequestOK(request)
        PROVE  /\ request.at \in 0..Len(Fetch(asked.view))
               /\ DOMAIN request.got \subseteq Range(Fetch(asked.view))
    <3>1. request.at \in 0..Len(Fetch(asked.view))
          /\ DOMAIN request.got = {Fetch(asked.view)[i] : i \in 1..request.at}
        BY <2>2 DEF RequestOK
    <3>2. Len(Fetch(asked.view)) \in Nat
          /\ {Fetch(asked.view)[i] : i \in 1..Len(Fetch(asked.view))} = Range(Fetch(asked.view))
        BY <2>1 DEF StateTypes, Asked, Fetch, Range
    <3>. QED  BY <3>1, <3>2
  <2>. QED  BY <2>1, <2>2 DEF TypeOK, StateTypes, ListingInv, ViewsInv, RequestInv
<1>. QED  BY ViewsInvariant, <1>1, PTL

(* The views of one database tell the same.                                *)
THEOREM RoutesAlwaysAgree == Spec => []RoutesAgree
<1>1. ViewsInv => RoutesAgree
    BY ViewsAgree DEF ViewsInv, CopyInv
<1>. QED  BY ViewsInvariant, <1>1, PTL

(* What the SELECTs of the overview find belongs together.                 *)
THEOREM OverviewAlwaysWhole == Spec => []OverviewIsWhole
<1>1. ViewsInv => OverviewIsWhole
  <2>. SUFFICES ASSUME ViewsInv, request # None, asked.view = "overview",
                       request.at = Len(Fetch("overview"))
                PROVE  /\ \A j \in request.got["jobs"] : j.rule_name # None =>
                             \E r \in request.got["rules"] : r.name = j.rule_name
                       /\ \A f \in request.got["files"] :
                             \E j \in request.got["jobs"] : j.id = f.job_id
    BY DEF OverviewIsWhole
  <2>. DEFINE db == request.conn
  <2>1. /\ request.got["jobs"] = Select(db, "jobs", asked.arg)
        /\ request.got["rules"] = Select(db, "rules", asked.arg)
        /\ request.got["files"] = Select(db, "files", asked.arg)
    <3>1. Len(Fetch("overview")) = 5 /\ Fetch("overview")[2] = "rules"
          /\ Fetch("overview")[3] = "jobs" /\ Fetch("overview")[4] = "files"
        BY DEF Fetch
    <3>2. request.at = 5
          /\ request.got = [q \in {Fetch("overview")[i] : i \in 1..request.at} |->
                               Select(db, q, asked.arg)]
        BY <3>1 DEF ViewsInv, RequestInv, RequestOK
    <3>. QED  BY <3>1, <3>2
  <2>2. CASE Table(db, "workflows") = {}
    BY <2>1, <2>2 DEF Select, IfWorkflow, get_single_workflow_id
  <2>3. CASE Table(db, "workflows") # {}
    <3>1. /\ request.got["jobs"] = get_jobs(db) /\ request.got["rules"] = Table(db, "rules")
          /\ request.got["files"] = get_all_files(db)
        BY <2>1, <2>3, Selected
    <3>2. \A f \in get_all_files(db) : \E j \in get_jobs(db) : j.id = f.job_id
        <4>1. \A job \in Table(db, "jobs") : JobRow(db, job) \in get_jobs(db)
                                              /\ JobRow(db, job).id = job.id
            BY DEF get_jobs, JobRow
        <4>. QED  BY <4>1 DEF get_all_files
    <3>. QED  BY <3>1, <3>2, JobsHaveRules
  <2>. QED  BY <2>2, <2>3
<1>. QED  BY ViewsInvariant, <1>1, PTL

(* The logs that have content are those that are shown.                    *)
THEOREM LogsShown == Spec => []LogsAreThoseWithContent
<1>1. ViewsInv => LogsAreThoseWithContent
    BY LogsAre DEF ViewsInv, CopyInv
<1>. QED  BY ViewsInvariant, <1>1, PTL

(* What was answered is answered again, with as much, until the job is     *)
(* deleted, unless the copy is torn then.                                  *)
THEOREM AnswersStay == Spec => AnswersPersist
<1>1. ViewsInv /\ [Next]_vars =>
         (answer.code = 200 /\ status # "DELETED" /\ ~ torn' /\ answer' # answer =>
             answer'.code = 200 /\ Facts(answer.data) \subseteq Facts(answer'.data))
  <2>1. ASSUME ViewsInv, [Next]_vars, answer.code = 200, status # "DELETED", ~ torn',
               answer' # answer
        PROVE  answer'.code = 200 /\ Facts(answer.data) \subseteq Facts(answer'.data)
    BY <2>1, AnswersGrow
  <2>. QED  BY <2>1
<1>. QED  BY ViewsInvariant, <1>1, PTL DEF Spec, AnswersPersist

=============================================================================
