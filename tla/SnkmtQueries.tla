---------------------------- MODULE SnkmtQueries -----------------------------
(***************************************************************************)
(* app.snkmt: the queries on a copy of a job's snkmt.db.  A database is    *)
(* the set of its rows, with one for the file and one for its schema, so   *)
(* that {} is no file and {File} one without tables.  snakemake runs once  *)
(* in a work directory, so there is at most one workflow and its id needs  *)
(* no column.  What a query finds one row or none of is a set of at most   *)
(* one.                                                                    *)
(***************************************************************************)
EXTENDS Naturals, FiniteSets

CONSTANT None  \* NULL, None

File   == [table |-> "header"]
Schema == [table |-> "sqlite_master"]

Workflow(rulegraph) == [table |-> "workflows", rulegraph_data |-> rulegraph]

Rule(id, name) == [table |-> "rules", id |-> id, name |-> name]

Job(id, rule_id, wildcards) ==
    [table |-> "jobs", id |-> id, snakemake_id |-> id - 1, rule_id |-> rule_id,
     wildcards |-> wildcards]

FileRow(job_id, path, file_type) ==
    [table |-> "files", job_id |-> job_id, path |-> path, file_type |-> file_type]

Table(db, name) == {row \in db : row.table = name}

-----------------------------------------------------------------------------

(* jobs j LEFT JOIN rules r ON j.rule_id = r.id                            *)
RuleName(db, job) ==
    LET names == {r.name : r \in {x \in Table(db, "rules") : x.id = job.rule_id}}
    IN  IF names = {} THEN None ELSE CHOOSE name \in names : TRUE

JobRow(db, job) ==
    [id |-> job.id, snakemake_id |-> job.snakemake_id, wildcards |-> job.wildcards,
     rule_name |-> RuleName(db, job)]

get_single_workflow_id(db) == Table(db, "workflows")

get_workflow(db) == Table(db, "workflows")

get_rules(db) == Table(db, "rules")

get_jobs(db) == {JobRow(db, job) : job \in Table(db, "jobs")}

get_all_files(db) ==
    {f \in Table(db, "files") : \E job \in Table(db, "jobs") : job.id = f.job_id}

(* Faulty: the number in the path is taken for the primary key.            *)
files_by_primary_key(db, snakemake_id) ==
    {f \in Table(db, "files") : f.job_id = snakemake_id}

get_job_files_by_snakemake_id(db, snakemake_id) ==
    {f \in Table(db, "files") :
        \E job \in Table(db, "jobs") :
            job.id = f.job_id /\ job.snakemake_id = snakemake_id}

get_rulegraph(db) ==
    {w.rulegraph_data : w \in Table(db, "workflows")} \ {None}

get_files_for_jobs(db, job_ids) == {f \in Table(db, "files") : f.job_id \in job_ids}

get_jobs_by_rule(db, rule_name) == {j \in get_jobs(db) : j.rule_name = rule_name}

get_rule_by_name(db, rule_name) == {r \in Table(db, "rules") : r.name = rule_name}

(* Without a workflow there is nothing to look for.                        *)
IfWorkflow(db, rows) == IF get_single_workflow_id(db) = {} THEN {} ELSE rows

(* What one SELECT of a fetch_* function finds; arg is the rule's name or  *)
(* the job's snakemake_id.                                                 *)
Select(db, query, arg) ==
    CASE query = "workflow"  -> get_workflow(db)
      [] query = "rules"     -> IfWorkflow(db, get_rules(db))
      [] query = "jobs"      -> IfWorkflow(db, get_jobs(db))
      [] query = "files"     -> IfWorkflow(db, get_all_files(db))
      [] query = "rulegraph" -> IfWorkflow(db, get_rulegraph(db))
      [] query = "rule"      -> IfWorkflow(db, get_rule_by_name(db, arg))
      [] query = "rule_jobs" -> IfWorkflow(db, get_jobs_by_rule(db, arg))
      [] query = "rule_files" ->
            get_files_for_jobs(db, {j.id : j \in get_jobs_by_rule(db, arg)})
      [] query = "job_files" -> get_job_files_by_snakemake_id(db, arg)

(* fetch_workflow_data, fetch_workflow_jobs, fetch_rule_jobs,              *)
(* fetch_job_files and fetch_rulegraph: the SELECTs of each in order.      *)
Fetch(view) ==
    CASE view = "overview"  -> <<"workflow", "rules", "jobs", "files", "rulegraph">>
      [] view = "jobs"      -> <<"jobs", "files">>
      [] view = "rule"      -> <<"rule", "rule_jobs", "rule_files">>
      [] view = "files"     -> <<"job_files">>
      [] view = "rulegraph" -> <<"rulegraph">>

=============================================================================
