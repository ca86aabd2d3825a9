-------------------------- MODULE ContractLifecycle --------------------------
(***************************************************************************)
(* One row of uploaded_contracts, its file in storage, and everything that *)
(* writes to them: the upload request, delete requests, and the background *)
(* runs that POST /api/contracts/{id}/process schedules.                   *)
(*                                                                         *)
(* A run works on the copy of the row it loaded (the session is created    *)
(* with expire_on_commit=False), and an ORM flush sends only the columns   *)
(* whose value differs from that copy.  Every commit of a run is one       *)
(* action; the slow call before it (storage, OCR, an LLM stage, the        *)
(* translator) is the nondeterministic outcome of that action.  A value a  *)
(* run computes is represented by the run that computed it.                *)
(***************************************************************************)
EXTENDS FiniteSets, Naturals

CONSTANTS
    Runs,        \* background runs, each scheduled at most once
    Deletes,     \* DELETE requests, each sent at most once
    None,        \* the SQL NULL of a column
    NoRow,       \* the row is not (or no longer) committed
    Overlap,     \* may a run be scheduled while another one is unfinished?
    Translates,  \* target_language # 'en'
    MaxCrashes   \* bound on the number of process crashes

ASSUME NullNotRun == None \notin Runs
ASSUME OverlapBool == Overlap \in BOOLEAN
ASSUME TranslatesBool == Translates \in BOOLEAN
ASSUME MaxCrashesNat == MaxCrashes \in Nat

VARIABLES
    row,      \* the committed row, or NoRow
    file,     \* is there a file under the row's storage key?
    upload,   \* progress of the upload request that owns the row's id
    deleter,  \* progress of each delete request
    pc,       \* progress of each background run
    mem,      \* the row as each run's session sees it
    crashes   \* process crashes so far

vars == <<row, file, upload, deleter, pc, mem, crashes>>

Statuses == {"uploaded", "ocr_pending", "ocr_done", "processing", "ready", "failed"}
Settled == {"uploaded", "ready", "failed"}

Value == Runs \cup {None}
Translation == {"absent", "done", "error"}

Stages == [s1 : Value, s2 : Value, s3 : Value, rendered : BOOLEAN, tr : Translation]

Row == [status : Statuses, err : Value, ocr : Value, stages : Stages]

NoStages == [s1 |-> None, s2 |-> None, s3 |-> None, rendered |-> FALSE, tr |-> "absent"]

FreshRow == [status |-> "uploaded", err |-> None, ocr |-> None, stages |-> NoStages]

ASSUME NoRowNotRow == NoRow \notin Row

UploadSteps == {"idle", "flushed", "saved", "committed", "refused"}
DeleteSteps == {"idle", "loaded", "unlinked", "flushed", "done", "aborted"}
Working == {"loaded", "reset", "ocr_pending", "read", "unreadable", "ocr_done",
            "processing", "stage_1", "stage_2", "stage_3"}
Interrupted == {"raised", "crashed"}
RunSteps == {"idle", "queued", "missing", "finished"} \cup Working \cup Interrupted

TypeOK ==
    /\ row \in Row \cup {NoRow}
    /\ file \in BOOLEAN
    /\ upload \in UploadSteps
    /\ deleter \in [Deletes -> DeleteSteps]
    /\ pc \in [Runs -> RunSteps]
    /\ mem \in [Runs -> Row]
    /\ crashes \in 0 .. MaxCrashes

Init ==
    /\ row = NoRow
    /\ file = FALSE
    /\ upload = "idle"
    /\ deleter = [d \in Deletes |-> "idle"]
    /\ pc = [r \in Runs |-> "idle"]
    /\ mem = [r \in Runs |-> FreshRow]
    /\ crashes = 0

Exists == row # NoRow

\* A flushed DELETE holds the row's lock until its transaction ends.
RowLocked == \E d \in Deletes : deleter[d] = "flushed"

Unfinished(r) == pc[r] \in {"queued"} \cup Working

-----------------------------------------------------------------------------
(* Upload: the row is inserted first, the file saved second, and the       *)
(* request's transaction commits after the handler returned.               *)

\* A request that fails validation leaves no trace.
UploadRefused ==
    /\ upload = "idle"
    /\ upload' = "refused"
    /\ UNCHANGED <<row, file, deleter, pc, mem, crashes>>

UploadInsert ==
    /\ upload = "idle"
    /\ upload' = "flushed"
    /\ UNCHANGED <<row, file, deleter, pc, mem, crashes>>

UploadSave ==
    /\ upload = "flushed"
    /\ file' = TRUE
    /\ upload' = "saved"
    /\ UNCHANGED <<row, deleter, pc, mem, crashes>>

\* Mutated form: the failed save is logged and the upload goes on.
UploadSaveFailureIgnored ==
    /\ upload = "flushed"
    /\ upload' = "saved"
    /\ UNCHANGED <<row, file, deleter, pc, mem, crashes>>

\* The storage write fails: the pending row goes, nothing is at the key.
UploadSaveFails ==
    /\ upload = "flushed"
    /\ upload' = "refused"
    /\ UNCHANGED <<row, file, deleter, pc, mem, crashes>>

UploadCommit ==
    /\ upload = "saved"
    /\ row' = FreshRow
    /\ upload' = "committed"
    /\ UNCHANGED <<file, deleter, pc, mem, crashes>>

\* The commit fails after the save: the file stays without a row.
UploadCommitFails ==
    /\ upload = "saved"
    /\ upload' = "refused"
    /\ UNCHANGED <<row, file, deleter, pc, mem, crashes>>

Upload ==
    \/ UploadRefused
    \/ UploadInsert
    \/ UploadSave
    \/ UploadSaveFails
    \/ UploadCommit
    \/ UploadCommitFails

-----------------------------------------------------------------------------
(* Delete: the file first, the row second, the commit last.                *)

DeleteLoad(d) ==
    /\ deleter[d] = "idle"
    /\ Exists
    /\ deleter' = [deleter EXCEPT ![d] = "loaded"]
    /\ UNCHANGED <<row, file, upload, pc, mem, crashes>>

DeleteUnlink(d) ==
    /\ deleter[d] = "loaded"
    /\ file' = FALSE
    /\ deleter' = [deleter EXCEPT ![d] = "unlinked"]
    /\ UNCHANGED <<row, upload, pc, mem, crashes>>

\* The DELETE waits for a concurrent one; it may find the row gone, which
\* the ORM only warns about.
DeleteFlush(d) ==
    /\ deleter[d] = "unlinked"
    /\ ~RowLocked
    /\ deleter' = [deleter EXCEPT ![d] = "flushed"]
    /\ UNCHANGED <<row, file, upload, pc, mem, crashes>>

DeleteCommit(d) ==
    /\ deleter[d] = "flushed"
    /\ row' = NoRow
    /\ deleter' = [deleter EXCEPT ![d] = "done"]
    /\ UNCHANGED <<file, upload, pc, mem, crashes>>

\* The storage, the DELETE or the commit raises: the transaction rolls back.
DeleteFails(d) ==
    /\ deleter[d] \in {"loaded", "unlinked", "flushed"}
    /\ deleter' = [deleter EXCEPT ![d] = "aborted"]
    /\ UNCHANGED <<row, file, upload, pc, mem, crashes>>

Delete(d) ==
    \/ DeleteLoad(d)
    \/ DeleteUnlink(d)
    \/ DeleteFlush(d)
    \/ DeleteCommit(d)
    \/ DeleteFails(d)

-----------------------------------------------------------------------------
(* A background run.                                                       *)

\* POST .../process: an existing row schedules a run, whatever its status.
Post(r) ==
    /\ pc[r] = "idle"
    /\ Exists
    /\ Overlap \/ \A q \in Runs : ~Unfinished(q)
    /\ pc' = [pc EXCEPT ![r] = "queued"]
    /\ UNCHANGED <<row, file, upload, deleter, mem, crashes>>

\* Mutated form: a row that looks busy is left alone.
BeginUnlessBusy(r) ==
    /\ pc[r] = "queued"
    /\ IF Exists /\ row.status \in Settled
         THEN /\ pc' = [pc EXCEPT ![r] = "loaded"]
              /\ mem' = [mem EXCEPT ![r] = row]
         ELSE /\ pc' = [pc EXCEPT ![r] = "missing"]
              /\ UNCHANGED mem
    /\ UNCHANGED <<row, file, upload, deleter, crashes>>

Begin(r) ==
    /\ pc[r] = "queued"
    /\ IF Exists
         THEN /\ pc' = [pc EXCEPT ![r] = "loaded"]
              /\ mem' = [mem EXCEPT ![r] = row]
         ELSE /\ pc' = [pc EXCEPT ![r] = "missing"]
              /\ UNCHANGED mem
    /\ UNCHANGED <<row, file, upload, deleter, crashes>>

\* What the UPDATE leaves in a column: the session sends a value only when
\* it differs from the one it loaded or wrote last.
Column(stored, loaded, new) == IF new = loaded THEN stored ELSE new

Flushed(stored, loaded, new) ==
    [status |-> Column(stored.status, loaded.status, new.status),
     err    |-> Column(stored.err, loaded.err, new.err),
     ocr    |-> Column(stored.ocr, loaded.ocr, new.ocr),
     stages |-> Column(stored.stages, loaded.stages, new.stages)]

\* Mutated form: the run merges its copy, which inserts a row that has gone.
CommitMerges(r, from, to, new) ==
    /\ pc[r] = from
    /\ ~RowLocked
    /\ row' = IF Exists THEN Flushed(row, mem[r], new) ELSE new
    /\ mem' = [mem EXCEPT ![r] = new]
    /\ pc' = [pc EXCEPT ![r] = to]
    /\ UNCHANGED <<file, upload, deleter, crashes>>

\* Run r goes from one step to the next by committing `new`.  Without a row
\* the UPDATE matches nothing, which the ORM reports as an error.
CommitStep(r, from, to, new) ==
    /\ pc[r] = from
    /\ Exists
    /\ ~RowLocked
    /\ row' = Flushed(row, mem[r], new)
    /\ mem' = [mem EXCEPT ![r] = new]
    /\ pc' = [pc EXCEPT ![r] = to]
    /\ UNCHANGED <<file, upload, deleter, crashes>>

With(r, status) == [mem[r] EXCEPT !.status = status]

\* Mutated form: a lost message.
FailingSilently(r) == [mem[r] EXCEPT !.status = "failed"]

Failing(r) == [mem[r] EXCEPT !.status = "failed", !.err = r]

\* _merge_stages: the keys of the earlier stages are kept.
Merged(r, stages) == [mem[r] EXCEPT !.stages = stages]

\* Mutated form: the re-run keeps the old error.
ResetKeepsError(r) == CommitStep(r, "loaded", "reset", mem[r])

Reset(r) == CommitStep(r, "loaded", "reset", [mem[r] EXCEPT !.err = None])

StartOcr(r) == CommitStep(r, "reset", "ocr_pending", With(r, "ocr_pending"))

\* The read finds the file, or finds it missing, or fails.
ReadFile(r) ==
    /\ pc[r] = "ocr_pending"
    /\ \/ file /\ pc' = [pc EXCEPT ![r] = "read"]
       \/ pc' = [pc EXCEPT ![r] = "unreadable"]
    /\ UNCHANGED <<row, file, upload, deleter, mem, crashes>>

FileFails(r) == CommitStep(r, "unreadable", "finished", Failing(r))

\* Mutated forms: the text is assigned after the commit; two statuses in one.
OcrDoneWithoutText(r) == CommitStep(r, "read", "ocr_done", With(r, "ocr_done"))
OcrDoneAndProcessing(r) ==
    CommitStep(r, "read", "ocr_done", [With(r, "processing") EXCEPT !.ocr = r])

OcrDone(r) ==
    CommitStep(r, "read", "ocr_done", [With(r, "ocr_done") EXCEPT !.ocr = r])

\* Mutated form: the early return without _fail.
OcrFailsSilently(r) ==
    /\ pc[r] = "read"
    /\ pc' = [pc EXCEPT ![r] = "finished"]
    /\ UNCHANGED <<row, file, upload, deleter, mem, crashes>>

OcrFails(r) == CommitStep(r, "read", "finished", Failing(r))

StartProcessing(r) == CommitStep(r, "ocr_done", "processing", With(r, "processing"))

Stage1(r) ==
    CommitStep(r, "processing", "stage_1", Merged(r, [mem[r].stages EXCEPT !.s1 = r]))

Stage1Fails(r) == CommitStep(r, "processing", "finished", Failing(r))

\* A failure of Stage 2 is recorded in its output and is not an outcome of
\* its own; one of Stage 3 leaves nothing rendered.
Stage2(r) ==
    CommitStep(r, "stage_1", "stage_2", Merged(r, [mem[r].stages EXCEPT !.s2 = r]))

Stage3(r) ==
    \E ok \in BOOLEAN :
        CommitStep(r, "stage_2", "stage_3",
                   Merged(r, [mem[r].stages EXCEPT !.s3 = r, !.rendered = ok, !.tr = "absent"]))

\* The translation, when there is one, is committed together with 'ready'.
Finish(r) ==
    \E tr \in IF Translates /\ mem[r].stages.rendered THEN {"done", "error"} ELSE {"absent"} :
        CommitStep(r, "stage_3", "finished", [With(r, "ready") EXCEPT !.stages.tr = tr])

\* A commit raises: the row has gone, or the database fails.  The wrapper
\* logs and swallows the exception, the rest of the run is dropped.  A call of
\* a model or of the database that never returns (neither has a timeout) drops
\* the rest of the run as well and is this outcome too.
Raises(r) ==
    /\ pc[r] \in Working \ {"ocr_pending"}
    /\ ~RowLocked
    /\ pc' = [pc EXCEPT ![r] = "raised"]
    /\ UNCHANGED <<row, file, upload, deleter, mem, crashes>>

Run(r) ==
    \/ Begin(r)
    \/ Reset(r)
    \/ StartOcr(r)
    \/ ReadFile(r)
    \/ FileFails(r)
    \/ OcrDone(r)
    \/ OcrFails(r)
    \/ StartProcessing(r)
    \/ Stage1(r)
    \/ Stage1Fails(r)
    \/ Stage2(r)
    \/ Stage3(r)
    \/ Finish(r)
    \/ Raises(r)

-----------------------------------------------------------------------------
\* The process dies: requests and runs in flight are lost, open transactions
\* roll back, the committed row and the files stay.
Crash ==
    /\ crashes < MaxCrashes
    /\ crashes' = crashes + 1
    /\ upload' = IF upload \in {"flushed", "saved"} THEN "refused" ELSE upload
    /\ deleter' = [d \in Deletes |->
                     IF deleter[d] \in {"loaded", "unlinked", "flushed"}
                       THEN "aborted" ELSE deleter[d]]
    /\ pc' = [r \in Runs |-> IF Unfinished(r) THEN "crashed" ELSE pc[r]]
    /\ UNCHANGED <<row, file, mem>>

Next ==
    \/ Upload
    \/ \E d \in Deletes : Delete(d)
    \/ \E r \in Runs : Post(r) \/ Run(r)
    \/ Crash

Spec == Init /\ [][Next]_vars

\* A run goes on, or is cut off by Raises, and transactions end (a delete's
\* calls of storage and database are taken to return); nobody is obliged to
\* upload, delete or POST.
Fairness ==
    /\ \A r \in Runs : WF_vars(Run(r))
    /\ \A d \in Deletes : WF_vars(deleter[d] # "idle" /\ Delete(d))

FairSpec == Spec /\ Fairness

-----------------------------------------------------------------------------
(* Properties of any number of concurrent runs.                            *)

InProgress == Exists /\ row.status \notin Settled

\* processor.py promises that no step, crash or re-run ever puts the row
\* back to 'uploaded' once processing has begun.
NeverRevertsToUploaded ==
    [][Exists /\ row.status # "uploaded" /\ row' # NoRow
         => row'.status # "uploaded"]_vars

\* A committed delete leaves neither the row nor the file (delete_contract:
\* file first, row second), and neither a second delete nor a run still in
\* flight ever brings one of them back.
DeletedForGood == (\E d \in Deletes : deleter[d] = "done") => ~Exists /\ ~file

\* A row whose file is missing was the target of a delete that got past the
\* storage call: the upload commits no row before its file is saved.
FileMissingOnlyAfterDelete ==
    Exists /\ ~file => \E d \in Deletes : deleter[d] \notin {"idle", "loaded"}

\* The viewer opens the text at 'ocr_done' and the clauses at 'ready'
\* whichever of several runs wrote that status and whichever wrote the text.
TextBehindStatus ==
    Exists =>
        /\ row.status \in {"ocr_done", "processing", "ready"} => row.ocr # None
        /\ row.status = "ready" => row.stages.s1 # None

\* A run that read the file and was neither killed nor cut off ends in
\* 'ready' or 'failed'; together with the others it leaves no row in an
\* intermediate status, which the UI would poll for ever.
RunsSettleTheRow ==
    InProgress ~> (~InProgress \/ \E r \in Runs : pc[r] \in Interrupted)

\* A row that a killed or aborted run left in progress can be resumed: the
\* next run settles it unless it is cut off as well.
RetrySettlesTheRow ==
    \A r \in Runs :
        InProgress /\ pc[r] = "queued" ~> (~InProgress \/ pc[r] \in Interrupted)

-----------------------------------------------------------------------------
(* Properties of a row that is processed by one run at a time.             *)

\* A 'ready' row carries one run's work only: text, clauses, risks and
\* renditions that refer to each other's clause ids, the translation the
\* worker asked for (or its error), and no error of an earlier attempt.
ReadyIsOneRunsWork ==
    Exists /\ row.status = "ready" =>
        /\ row.err = None
        /\ row.ocr # None
        /\ \A s \in {row.stages.s1, row.stages.s2, row.stages.s3} : s = row.ocr
        /\ Translates /\ row.stages.rendered => row.stages.tr # "absent"

\* A 'failed' row says why, except when a re-run cleared the message and has
\* not moved the status yet (or was cut off just then).
FailedSaysWhy ==
    Exists /\ row.status = "failed" /\ row.err = None =>
        \E r \in Runs : pc[r] \in {"reset"} \cup Interrupted

\* The status a client sees, before the upload and after the deletion too.
StatusSeen ==
    IF Exists THEN row.status
    ELSE IF upload = "committed" THEN "deleted" ELSE "absent"

StatusMachine == INSTANCE ContractStatus WITH status <- StatusSeen

\* The row's status follows the status machine the module docs draw.
FollowsStatusMachine == StatusMachine!Spec

=============================================================================
