----------------------- MODULE ContractLifecycleProofs -----------------------
(***************************************************************************)
(* Theorems about ContractLifecycle for any number of runs and of delete   *)
(* requests, with or without crashes: first with runs that may overlap,    *)
(* then (ASSUME ~Overlap) with one run at a time.                          *)
(***************************************************************************)
EXTENDS ContractLifecycle, TLAPS

-----------------------------------------------------------------------------
(* What a run's commit writes.                                             *)

\* The row an upload inserts is typed.
LEMMA FreshRowIsRow == FreshRow \in Row
BY DEF FreshRow, Row, NoStages, Stages, Statuses, Value, Translation

\* An UPDATE writes columns of the right type.
LEMMA FlushedIsRow ==
    ASSUME NEW stored \in Row, NEW loaded \in Row, NEW new \in Row
    PROVE  Flushed(stored, loaded, new) \in Row
BY DEF Flushed, Column, Row

\* The copies of the row that the run's steps commit have the type of a row.
LEMMA NewCopies ==
    ASSUME TypeOK, NEW r \in Runs
    PROVE  /\ \A s \in Statuses : With(r, s) \in Row
           /\ Failing(r) \in Row
           /\ [mem[r] EXCEPT !.err = None] \in Row
           /\ [With(r, "ocr_done") EXCEPT !.ocr = r] \in Row
           /\ \A s \in Stages : Merged(r, s) \in Row
           /\ [mem[r].stages EXCEPT !.s1 = r] \in Stages
           /\ [mem[r].stages EXCEPT !.s2 = r] \in Stages
           /\ \A ok \in BOOLEAN :
                [mem[r].stages EXCEPT !.s3 = r, !.rendered = ok, !.tr = "absent"] \in Stages
           /\ \A tr \in Translation : [With(r, "ready") EXCEPT !.stages.tr = tr] \in Row
<1>1. mem[r] \in Row
  BY DEF TypeOK
<1>2. mem[r].stages \in Stages
  BY <1>1 DEF Row
<1> QED
  BY <1>1, <1>2 DEF With, Failing, Merged, Row, Stages, Statuses, Value, Translation

\* A run's commit keeps the state typed.
LEMMA CommitKeepsType ==
    ASSUME TypeOK, NEW r \in Runs, NEW from, NEW to \in RunSteps, NEW new \in Row,
           CommitStep(r, from, to, new)
    PROVE  TypeOK'
<1>1. row' \in Row
  BY FlushedIsRow DEF CommitStep, TypeOK, Exists
<1> QED
  BY <1>1 DEF CommitStep, TypeOK

-----------------------------------------------------------------------------
(* Type correctness.                                                       *)

\* The initial state is typed.
LEMMA TypeInit == Init => TypeOK
<1> SUFFICES ASSUME Init
             PROVE  TypeOK
  OBVIOUS
<1>1. crashes \in 0 .. MaxCrashes
  BY MaxCrashesNat DEF Init
<1>2. mem \in [Runs -> Row]
  BY FreshRowIsRow DEF Init
<1> QED
  BY <1>1, <1>2 DEF Init, TypeOK, UploadSteps, DeleteSteps, RunSteps

\* Every step keeps the state typed.
LEMMA TypeNext == TypeOK /\ [Next]_vars => TypeOK'
<1> SUFFICES ASSUME TypeOK, [Next]_vars
             PROVE  TypeOK'
  OBVIOUS
<1>1. CASE Upload
  BY <1>1, FreshRowIsRow
  DEF TypeOK, Upload, UploadRefused, UploadInsert, UploadSave, UploadSaveFails,
      UploadCommit, UploadCommitFails, UploadSteps
<1>2. ASSUME NEW d \in Deletes, Delete(d)
      PROVE  TypeOK'
  BY <1>2
  DEF TypeOK, Delete, DeleteLoad, DeleteUnlink, DeleteFlush, DeleteCommit, DeleteFails,
      DeleteSteps
<1>3. ASSUME NEW r \in Runs, Post(r)
      PROVE  TypeOK'
  BY <1>3 DEF TypeOK, Post, RunSteps
<1>4. ASSUME NEW r \in Runs, Run(r)
      PROVE  TypeOK'
  <2>1. CASE Begin(r)
    BY <2>1 DEF TypeOK, Begin, Exists, RunSteps, Working
  <2>2. CASE Reset(r)
    BY <2>2, NewCopies, CommitKeepsType DEF Reset, RunSteps, Working
  <2>3. CASE StartOcr(r)
    BY <2>3, NewCopies, CommitKeepsType DEF StartOcr, RunSteps, Working, Statuses
  <2>4. CASE ReadFile(r)
    BY <2>4 DEF TypeOK, ReadFile, RunSteps, Working
  <2>5. CASE FileFails(r)
    BY <2>5, NewCopies, CommitKeepsType DEF FileFails, RunSteps
  <2>6. CASE OcrDone(r)
    BY <2>6, NewCopies, CommitKeepsType DEF OcrDone, RunSteps, Working
  <2>7. CASE OcrFails(r)
    BY <2>7, NewCopies, CommitKeepsType DEF OcrFails, RunSteps
  <2>8. CASE StartProcessing(r)
    BY <2>8, NewCopies, CommitKeepsType DEF StartProcessing, RunSteps, Working, Statuses
  <2>9. CASE Stage1(r)
    BY <2>9, NewCopies, CommitKeepsType DEF Stage1, RunSteps, Working
  <2>10. CASE Stage1Fails(r)
    BY <2>10, NewCopies, CommitKeepsType DEF Stage1Fails, RunSteps
  <2>11. CASE Stage2(r)
    BY <2>11, NewCopies, CommitKeepsType DEF Stage2, RunSteps, Working
  <2>12. CASE Stage3(r)
    <3>1. PICK ok \in BOOLEAN :
            CommitStep(r, "stage_2", "stage_3",
              Merged(r, [mem[r].stages EXCEPT !.s3 = r, !.rendered = ok, !.tr = "absent"]))
      BY <2>12 DEF Stage3
    <3> QED
      BY <3>1, NewCopies, CommitKeepsType DEF RunSteps, Working
  <2>13. CASE Finish(r)
    <3>1. PICK tr \in Translation :
            CommitStep(r, "stage_3", "finished", [With(r, "ready") EXCEPT !.stages.tr = tr])
      BY <2>13 DEF Finish, Translation
    <3> QED
      BY <3>1, NewCopies, CommitKeepsType DEF RunSteps
  <2>14. CASE Raises(r)
    BY <2>14 DEF TypeOK, Raises, RunSteps, Interrupted
  <2> QED
    BY <1>4, <2>1, <2>2, <2>3, <2>4, <2>5, <2>6, <2>7, <2>8, <2>9, <2>10, <2>11, <2>12,
       <2>13, <2>14 DEF Run
<1>5. CASE Crash
  BY <1>5, MaxCrashesNat
  DEF TypeOK, Crash, UploadSteps, DeleteSteps, RunSteps, Interrupted
<1>6. CASE UNCHANGED vars
  BY <1>6 DEF TypeOK, vars
<1> QED
  BY <1>1, <1>2, <1>3, <1>4, <1>5, <1>6 DEF Next

\* Every reachable state has the declared types; in particular a run never
\* writes a status outside the CHECK constraint of the table.
THEOREM TypeCorrect == Spec => []TypeOK
BY TypeInit, TypeNext, PTL DEF Spec

-----------------------------------------------------------------------------
(* Deletion.                                                               *)

\* The invariant behind both claims about files: no row is committed and no
\* delete or run can start before the upload's commit, which comes after its save;
\* a delete that got past the storage call left no file, and nothing but an
\* upload that has not committed yet writes one.
FileInv ==
    /\ upload # "committed" => /\ row = NoRow
                               /\ \A d \in Deletes : deleter[d] = "idle"
                               /\ \A r \in Runs : pc[r] = "idle"
    /\ upload = "saved" => file
    /\ \A d \in Deletes : deleter[d] \in {"unlinked", "flushed", "done"} => ~file
    /\ DeletedForGood
    /\ FileMissingOnlyAfterDelete

\* A run touches neither the file nor the requests, and a row it updates was
\* there before and is there afterwards.
LEMMA RunFrame ==
    ASSUME TypeOK, NEW r \in Runs, Run(r)
    PROVE  /\ file' = file /\ upload' = upload /\ deleter' = deleter
           /\ row' = row \/ (row # NoRow /\ row' # NoRow)
           /\ pc[r] # "idle"
<1> USE DEF Working
<1>1. ASSUME NEW from \in Working, NEW to, NEW new \in Row, CommitStep(r, from, to, new)
      PROVE  /\ file' = file /\ upload' = upload /\ deleter' = deleter
             /\ row # NoRow /\ row' # NoRow
             /\ pc[r] # "idle"
  BY <1>1, FlushedIsRow, NoRowNotRow DEF CommitStep, TypeOK, Exists
<1>2. CASE Begin(r) \/ ReadFile(r) \/ Raises(r)
  BY <1>2 DEF Begin, ReadFile, Raises
<1>3. CASE Stage3(r)
  BY <1>1, <1>3, NewCopies DEF Stage3
<1>4. CASE Finish(r)
  <2>1. PICK tr \in Translation :
          CommitStep(r, "stage_3", "finished", [With(r, "ready") EXCEPT !.stages.tr = tr])
    BY <1>4 DEF Finish, Translation
  <2> QED
    BY <1>1, <2>1, NewCopies
<1>5. CASE \/ Reset(r) \/ StartOcr(r) \/ FileFails(r) \/ OcrDone(r) \/ OcrFails(r)
           \/ StartProcessing(r) \/ Stage1(r) \/ Stage1Fails(r) \/ Stage2(r)
  BY <1>1, <1>5, NewCopies
  DEF Reset, StartOcr, FileFails, OcrDone, OcrFails, StartProcessing, Stage1,
      Stage1Fails, Stage2, Statuses
<1> QED
  BY <1>2, <1>3, <1>4, <1>5 DEF Run

\* The invariant on row and file holds at first.
LEMMA FileInvInit == Init => FileInv
BY DEF Init, FileInv, DeletedForGood, FileMissingOnlyAfterDelete, Exists

\* Every step keeps the invariant on row and file.
LEMMA FileInvNext == TypeOK /\ FileInv /\ [Next]_vars => FileInv'
<1> SUFFICES ASSUME TypeOK, FileInv, [Next]_vars
             PROVE  FileInv'
  OBVIOUS
<1> USE DEF FileInv, DeletedForGood, FileMissingOnlyAfterDelete, Exists
<1>1. CASE Upload
  <2>1. FreshRow # NoRow
    BY FreshRowIsRow, NoRowNotRow
  <2> QED
    BY <1>1, <2>1
    DEF Upload, UploadRefused, UploadInsert, UploadSave, UploadSaveFails, UploadCommit,
        UploadCommitFails
<1>2. ASSUME NEW d \in Deletes, Delete(d)
      PROVE  FileInv'
  <2>1. CASE DeleteLoad(d)
    BY <2>1 DEF DeleteLoad, TypeOK
  <2>2. CASE DeleteUnlink(d)
    BY <2>2 DEF DeleteUnlink, TypeOK
  <2>3. CASE DeleteFlush(d)
    BY <2>3 DEF DeleteFlush, TypeOK
  <2>4. CASE DeleteCommit(d)
    BY <2>4 DEF DeleteCommit, TypeOK
  <2>5. CASE DeleteFails(d)
    BY <2>5 DEF DeleteFails, TypeOK
  <2> QED
    BY <1>2, <2>1, <2>2, <2>3, <2>4, <2>5 DEF Delete
<1>3. ASSUME NEW r \in Runs, Post(r)
      PROVE  FileInv'
  BY <1>3 DEF Post
<1>4. ASSUME NEW r \in Runs, Run(r)
      PROVE  FileInv'
  BY <1>4, RunFrame
<1>5. CASE Crash
  BY <1>5 DEF Crash, TypeOK, Unfinished, Working
<1>6. CASE UNCHANGED vars
  BY <1>6 DEF vars
<1> QED
  BY <1>1, <1>2, <1>3, <1>4, <1>5, <1>6 DEF Next

\* Row and file agree with the progress of uploads and deletes.
LEMMA FileInvHolds == Spec => []FileInv
<1>1. Spec => []TypeOK
  BY TypeCorrect
<1> QED
  BY <1>1, FileInvInit, FileInvNext, PTL DEF Spec

\* Once a delete has committed there is neither row nor file, and neither a
\* second delete nor a run still in flight brings one of them back.
THEOREM DeleteIsComplete == Spec => []DeletedForGood
<1>1. FileInv => DeletedForGood
  BY DEF FileInv
<1> QED
  BY <1>1, FileInvHolds, PTL

\* A listed contract without its file was the target of a delete that failed
\* or is still under way; an upload never produces one.
THEOREM UploadNeverDangles == Spec => []FileMissingOnlyAfterDelete
<1>1. FileInv => FileMissingOnlyAfterDelete
  BY DEF FileInv
<1> QED
  BY <1>1, FileInvHolds, PTL

-----------------------------------------------------------------------------
(* Status and text.                                                        *)

\* A run's commit that changes its own copy's status only to something other
\* than 'uploaded' does not make the row 'uploaded'.
LEMMA CommitNeverUploads ==
    ASSUME NEW r \in Runs, NEW from, NEW to, NEW new \in Row,
           CommitStep(r, from, to, new),
           new.status # "uploaded" \/ new.status = mem[r].status,
           row.status # "uploaded"
    PROVE  row'.status # "uploaded"
BY DEF CommitStep, Flushed, Column

\* No step of a run writes 'uploaded'.
LEMMA RunNeverUploads ==
    ASSUME TypeOK, NEW r \in Runs, Run(r), Exists, row.status # "uploaded"
    PROVE  row'.status # "uploaded"
<1>1. mem[r] \in Row
  BY DEF TypeOK
<1>2. ASSUME NEW from, NEW to, NEW stages \in Stages,
             CommitStep(r, from, to, Merged(r, stages))
      PROVE  row'.status # "uploaded"
  <2>1. Merged(r, stages).status = mem[r].status
    BY <1>1 DEF Merged, Row
  <2> QED
    BY <1>2, <2>1, NewCopies, CommitNeverUploads
<1>3. ASSUME NEW from, NEW to, CommitStep(r, from, to, Failing(r))
      PROVE  row'.status # "uploaded"
  <2>1. Failing(r).status = "failed"
    BY <1>1 DEF Failing, Row
  <2> QED
    BY <1>3, <2>1, NewCopies, CommitNeverUploads
<1>4. ASSUME NEW from, NEW to, NEW s \in Statuses \ {"uploaded"},
             CommitStep(r, from, to, With(r, s))
      PROVE  row'.status # "uploaded"
  <2>1. With(r, s).status = s
    BY <1>1 DEF With, Row
  <2> QED
    BY <1>4, <2>1, NewCopies, CommitNeverUploads
<1>5. CASE Begin(r) \/ ReadFile(r) \/ Raises(r)
  BY <1>5 DEF Begin, ReadFile, Raises
<1>6. CASE Reset(r)
  <2>1. [mem[r] EXCEPT !.err = None].status = mem[r].status
    BY <1>1 DEF Row
  <2> QED
    BY <1>6, <2>1, NewCopies, CommitNeverUploads DEF Reset
<1>7. CASE StartOcr(r) \/ StartProcessing(r)
  BY <1>4, <1>7 DEF StartOcr, StartProcessing, Statuses
<1>8. CASE FileFails(r) \/ OcrFails(r) \/ Stage1Fails(r)
  BY <1>3, <1>8 DEF FileFails, OcrFails, Stage1Fails
<1>9. CASE OcrDone(r)
  <2>1. [With(r, "ocr_done") EXCEPT !.ocr = r].status = "ocr_done"
    BY <1>1 DEF With, Row
  <2> QED
    BY <1>9, <2>1, NewCopies, CommitNeverUploads DEF OcrDone
<1>10. CASE Stage1(r) \/ Stage2(r) \/ Stage3(r)
  BY <1>2, <1>10, NewCopies DEF Stage1, Stage2, Stage3
<1>11. CASE Finish(r)
  <2>1. PICK tr \in Translation :
          CommitStep(r, "stage_3", "finished", [With(r, "ready") EXCEPT !.stages.tr = tr])
    BY <1>11 DEF Finish, Translation
  <2>2. [With(r, "ready") EXCEPT !.stages.tr = tr].status = "ready"
    BY <1>1 DEF With, Row
  <2> QED
    BY <2>1, <2>2, NewCopies, CommitNeverUploads
<1> QED
  BY <1>5, <1>6, <1>7, <1>8, <1>9, <1>10, <1>11 DEF Run

\* The promise of processor.py's head comment, for any interleaving of runs,
\* crashes and deletes: the row never goes back to 'uploaded'.
THEOREM NoSilentRevert == Spec => NeverRevertsToUploaded
<1> DEFINE Keeps == Exists /\ row.status # "uploaded" /\ row' # NoRow
                      => row'.status # "uploaded"
<1>1. TypeOK /\ FileInv /\ [Next]_vars => [Keeps]_vars
  <2> SUFFICES ASSUME TypeOK, FileInv, [Next]_vars, Exists, row.status # "uploaded",
                      row' # NoRow
               PROVE  row'.status # "uploaded"
    BY DEF vars
  <2>1. CASE Upload
    BY <2>1
    DEF FileInv, Exists, Upload, UploadRefused, UploadInsert, UploadSave,
        UploadSaveFails, UploadCommit, UploadCommitFails
  <2>2. CASE \E d \in Deletes : Delete(d)
    BY <2>2
    DEF Delete, DeleteLoad, DeleteUnlink, DeleteFlush, DeleteCommit, DeleteFails
  <2>3. CASE \E r \in Runs : Post(r)
    BY <2>3 DEF Post
  <2>4. CASE \E r \in Runs : Run(r)
    BY <2>4, RunNeverUploads
  <2>5. CASE Crash \/ UNCHANGED vars
    BY <2>5 DEF Crash, vars
  <2> QED
    BY <2>1, <2>2, <2>3, <2>4, <2>5 DEF Next
<1> QED
  BY <1>1, TypeCorrect, FileInvHolds, PTL DEF Spec, NeverRevertsToUploaded

-----------------------------------------------------------------------------

\* What makes TextBehindStatus inductive: a text or a first stage that a run
\* has seen is still in the row, since no commit clears the column, and a run
\* past a step has seen that step's output.
TextInv ==
    /\ TextBehindStatus
    /\ \A r \in Runs :
         /\ pc[r] \in Working /\ Exists =>
              /\ mem[r].ocr # None => row.ocr # None
              /\ mem[r].stages.s1 # None => row.stages.s1 # None
         /\ pc[r] \in {"ocr_done", "processing", "stage_1", "stage_2", "stage_3"} =>
              mem[r].ocr # None
         /\ pc[r] \in {"stage_1", "stage_2", "stage_3"} => mem[r].stages.s1 # None

\* The invariant on the texts holds at first.
LEMMA TextInvInit == Init => TextInv
BY DEF Init, TextInv, TextBehindStatus, Exists, Working

\* One commit, whatever it writes, keeps TextInv when the new copy loses
\* nothing the old one had and carries what its step and status promise.
LEMMA CommitKeepsText ==
    ASSUME TypeOK, TextInv, NEW r \in Runs, NEW from \in Working, NEW to, NEW new \in Row,
           CommitStep(r, from, to, new),
           mem[r].ocr # None => new.ocr # None,
           mem[r].stages.s1 # None => new.stages.s1 # None,
           new.ocr = mem[r].ocr \/ new.ocr # None,
           new.stages = mem[r].stages \/ new.stages.s1 # None,
           new.status # mem[r].status /\ new.status \in {"ocr_done", "processing", "ready"}
             => new.ocr # None,
           new.status # mem[r].status /\ new.status = "ready" => new.stages.s1 # None,
           to \in {"ocr_done", "processing", "stage_1", "stage_2", "stage_3"}
             => new.ocr # None,
           to \in {"stage_1", "stage_2", "stage_3"} => new.stages.s1 # None
    PROVE  TextInv'
<1>1. /\ row \in Row /\ mem[r] \in Row
      /\ row' = Flushed(row, mem[r], new)
      /\ mem' = [mem EXCEPT ![r] = new] /\ pc' = [pc EXCEPT ![r] = to]
      /\ Exists
  BY DEF CommitStep, TypeOK, Exists
<1>2. /\ row'.ocr = Column(row.ocr, mem[r].ocr, new.ocr)
      /\ row'.stages = Column(row.stages, mem[r].stages, new.stages)
      /\ row'.status = Column(row.status, mem[r].status, new.status)
  BY <1>1 DEF Flushed
<1>3. /\ mem[r].ocr # None => row.ocr # None
      /\ mem[r].stages.s1 # None => row.stages.s1 # None
  BY <1>1 DEF TextInv, CommitStep
<1>4. /\ row.ocr # None => row'.ocr # None
      /\ new.ocr # None => row'.ocr # None
  BY <1>2, <1>3 DEF Column
<1>5. /\ row.stages.s1 # None => row'.stages.s1 # None
      /\ new.stages.s1 # None => row'.stages.s1 # None
  BY <1>2, <1>3 DEF Column
<1>6. TextBehindStatus'
  BY <1>1, <1>2, <1>4, <1>5 DEF TextInv, TextBehindStatus, Column
<1>7. ASSUME NEW q \in Runs
      PROVE  /\ pc'[q] \in Working /\ Exists' =>
                  /\ mem'[q].ocr # None => row'.ocr # None
                  /\ mem'[q].stages.s1 # None => row'.stages.s1 # None
             /\ pc'[q] \in {"ocr_done", "processing", "stage_1", "stage_2", "stage_3"} =>
                  mem'[q].ocr # None
             /\ pc'[q] \in {"stage_1", "stage_2", "stage_3"} => mem'[q].stages.s1 # None
  <2>1. CASE q = r
    <3>1. mem'[q] = new /\ pc'[q] = to
      BY <1>1, <2>1 DEF TypeOK
    <3> QED
      BY <3>1, <1>4, <1>5
  <2>2. CASE q # r
    <3>1. mem'[q] = mem[q] /\ pc'[q] = pc[q]
      BY <1>1, <2>2 DEF TypeOK
    <3> QED
      BY <3>1, <1>1, <1>4, <1>5 DEF TextInv
  <2> QED
    BY <2>1, <2>2
<1> QED
  BY <1>6, <1>7 DEF TextInv

\* Every step of a run keeps the invariant on the texts.
LEMMA RunKeepsText ==
    ASSUME TypeOK, TextInv, NEW r \in Runs, Run(r)
    PROVE  TextInv'
<1>1. mem[r] \in Row /\ mem[r].stages \in Stages
  BY DEF TypeOK, Row
<1>2. r # None
  BY NullNotRun
<1> USE DEF Working
<1>3. CASE Begin(r)
  BY <1>3, NoRowNotRow DEF Begin, TypeOK, TextInv, TextBehindStatus, Exists
<1>4. CASE ReadFile(r) \/ Raises(r)
  BY <1>4 DEF ReadFile, Raises, TypeOK, TextInv, TextBehindStatus, Exists
<1>5. CASE Reset(r)
  <2> DEFINE new == [mem[r] EXCEPT !.err = None]
  <2>1. /\ new.status = mem[r].status /\ new.ocr = mem[r].ocr
        /\ new.stages = mem[r].stages
    BY <1>1 DEF Row
  <2> QED
    BY <1>5, <2>1, NewCopies, CommitKeepsText DEF Reset
<1>6. CASE StartOcr(r) \/ StartProcessing(r)
  <2>1. ASSUME NEW s \in Statuses
        PROVE  /\ With(r, s).status = s /\ With(r, s).ocr = mem[r].ocr
               /\ With(r, s).stages = mem[r].stages
    BY <1>1 DEF With, Row
  <2>2. CASE StartOcr(r)
    BY <2>1, <2>2, NewCopies, CommitKeepsText DEF StartOcr, Statuses
  <2>3. CASE StartProcessing(r)
    <3>1. pc[r] = "ocr_done"
      BY <2>3 DEF StartProcessing, CommitStep
    <3>2. mem[r].ocr # None
      BY <3>1 DEF TextInv
    <3> QED
      BY <2>1, <2>3, <3>2, NewCopies, CommitKeepsText DEF StartProcessing, Statuses
  <2> QED
    BY <1>6, <2>2, <2>3
<1>7. CASE FileFails(r) \/ OcrFails(r) \/ Stage1Fails(r)
  <2>1. /\ Failing(r).status = "failed" /\ Failing(r).ocr = mem[r].ocr
        /\ Failing(r).stages = mem[r].stages
    BY <1>1 DEF Failing, Row
  <2> QED
    BY <1>7, <2>1, NewCopies, CommitKeepsText DEF FileFails, OcrFails, Stage1Fails
<1>8. CASE OcrDone(r)
  <2> DEFINE new == [With(r, "ocr_done") EXCEPT !.ocr = r]
  <2>1. new.status = "ocr_done" /\ new.ocr = r /\ new.stages = mem[r].stages
    BY <1>1 DEF With, Row
  <2> QED
    BY <1>2, <1>8, <2>1, NewCopies, CommitKeepsText DEF OcrDone
<1>9. ASSUME NEW from \in {"processing", "stage_1", "stage_2"},
             NEW to \in {"stage_1", "stage_2", "stage_3"}, NEW stages \in Stages,
             stages.s1 # None, CommitStep(r, from, to, Merged(r, stages))
      PROVE  TextInv'
  <2>1. /\ Merged(r, stages).status = mem[r].status
        /\ Merged(r, stages).ocr = mem[r].ocr
        /\ Merged(r, stages).stages = stages
    BY <1>1 DEF Merged, Row
  <2>2. mem[r].ocr # None
    BY <1>9 DEF TextInv, CommitStep
  <2> QED
    BY <1>9, <2>1, <2>2, NewCopies, CommitKeepsText
<1>10. CASE Stage1(r)
  <2>1. [mem[r].stages EXCEPT !.s1 = r].s1 = r
    BY <1>1 DEF Stages
  <2> QED
    BY <1>2, <1>9, <1>10, <2>1, NewCopies DEF Stage1
<1>11. CASE Stage2(r)
  <2>1. [mem[r].stages EXCEPT !.s2 = r].s1 = mem[r].stages.s1
    BY <1>1 DEF Stages
  <2>2. mem[r].stages.s1 # None
    BY <1>11 DEF Stage2, CommitStep, TextInv
  <2> QED
    BY <1>9, <1>11, <2>1, <2>2, NewCopies DEF Stage2
<1>12. CASE Stage3(r)
  <2>1. PICK ok \in BOOLEAN :
          CommitStep(r, "stage_2", "stage_3",
            Merged(r, [mem[r].stages EXCEPT !.s3 = r, !.rendered = ok, !.tr = "absent"]))
    BY <1>12 DEF Stage3
  <2>2. [mem[r].stages EXCEPT !.s3 = r, !.rendered = ok, !.tr = "absent"].s1
          = mem[r].stages.s1
    BY <1>1 DEF Stages
  <2>3. mem[r].stages.s1 # None
    BY <2>1 DEF CommitStep, TextInv
  <2> QED
    BY <1>9, <2>1, <2>2, <2>3, NewCopies
<1>13. CASE Finish(r)
  <2>1. PICK tr \in Translation :
          CommitStep(r, "stage_3", "finished", [With(r, "ready") EXCEPT !.stages.tr = tr])
    BY <1>13 DEF Finish, Translation
  <2> DEFINE new == [With(r, "ready") EXCEPT !.stages.tr = tr]
  <2>2. /\ new.status = "ready" /\ new.ocr = mem[r].ocr
        /\ new.stages.s1 = mem[r].stages.s1
    BY <1>1 DEF With, Row, Stages
  <2>3. mem[r].ocr # None /\ mem[r].stages.s1 # None
    BY <2>1 DEF CommitStep, TextInv
  <2>4. new \in Row
    BY NewCopies
  <2> QED
    BY <2>1, <2>2, <2>3, <2>4, CommitKeepsText
<1> QED
  BY <1>3, <1>4, <1>5, <1>6, <1>7, <1>8, <1>10, <1>11, <1>12, <1>13 DEF Run

\* Every step keeps the invariant on the texts.
LEMMA TextInvNext == TypeOK /\ FileInv /\ TextInv /\ [Next]_vars => TextInv'
<1> SUFFICES ASSUME TypeOK, FileInv, TextInv, [Next]_vars
             PROVE  TextInv'
  OBVIOUS
<1>1. CASE UploadCommit
  BY <1>1 DEF UploadCommit, FileInv, FreshRow, TextInv, TextBehindStatus, Working
<1>2. CASE Upload /\ ~UploadCommit
  BY <1>2
  DEF Upload, UploadRefused, UploadInsert, UploadSave, UploadSaveFails,
      UploadCommitFails, TextInv, TextBehindStatus, Exists
<1>3. CASE \E d \in Deletes : Delete(d)
  BY <1>3
  DEF Delete, DeleteLoad, DeleteUnlink, DeleteFlush, DeleteCommit, DeleteFails,
      TextInv, TextBehindStatus, Exists
<1>4. CASE \E r \in Runs : Post(r)
  BY <1>4 DEF Post, TypeOK, TextInv, TextBehindStatus, Exists, Working
<1>5. CASE \E r \in Runs : Run(r)
  BY <1>5, RunKeepsText
<1>6. CASE Crash
  BY <1>6 DEF Crash, TypeOK, TextInv, TextBehindStatus, Exists, Working
<1>7. CASE UNCHANGED vars
  BY <1>7 DEF vars, TextInv, TextBehindStatus, Exists
<1> QED
  BY <1>1, <1>2, <1>3, <1>4, <1>5, <1>6, <1>7 DEF Next

\* Whichever of several overlapping runs wrote the status, the text the
\* viewer opens at that status is in the row.
THEOREM StatusHasItsText == Spec => []TextBehindStatus
<1>1. TextInv => TextBehindStatus
  BY DEF TextInv
<1> QED
  BY <1>1, TextInvInit, TextInvNext, TypeCorrect, FileInvHolds, PTL DEF Spec

-----------------------------------------------------------------------------
(* Without overlap: when a row is processed by one run at a time, as the   *)
(* UI's buttons intend, the run's copy is the row itself, so nothing is    *)
(* lost between two commits, and the row follows the status machine of     *)
(* ContractStatus.                                                         *)

Analysing == {"processing", "stage_1", "stage_2", "stage_3"}

\* What the row shows when run r has reached a step.
StepShows(r) ==
    /\ pc[r] \in Working \ {"loaded"} => row.err = None
    /\ pc[r] \in {"ocr_pending", "read", "unreadable"} => row.status = "ocr_pending"
    /\ pc[r] = "ocr_done" => row.status = "ocr_done" /\ row.ocr = r
    /\ pc[r] \in Analysing => row.status = "processing" /\ row.ocr = r
    /\ pc[r] \in {"stage_1", "stage_2", "stage_3"} => row.stages.s1 = r
    /\ pc[r] \in {"stage_2", "stage_3"} => row.stages.s2 = r
    /\ pc[r] = "stage_3" => row.stages.s3 = r

\* At most one run is unfinished, its copy of the row is the row, and the
\* row shows exactly the progress of that run.
SerialInv ==
    /\ \A r, q \in Runs : Unfinished(r) /\ Unfinished(q) => r = q
    /\ \A r \in Runs : pc[r] \in Working /\ Exists => mem[r] = row /\ StepShows(r)
    /\ ReadyIsOneRunsWork
    /\ FailedSaysWhy

\* The invariant of serial runs holds at first.
LEMMA SerialInit == Init => SerialInv
BY DEF Init, SerialInv, ReadyIsOneRunsWork, FailedSaysWhy, Exists, Unfinished, Working

\* With an up-to-date copy the UPDATE leaves the new copy in the row.
LEMMA CommitWritesCopy ==
    ASSUME TypeOK, SerialInv, NEW r \in Runs, NEW from \in Working, NEW to,
           NEW new \in Row, CommitStep(r, from, to, new)
    PROVE  /\ row' = new /\ mem'[r] = new /\ pc'[r] = to /\ pc[r] = from
           /\ Exists /\ Exists' /\ mem[r] = row /\ StepShows(r)
           /\ \A q \in Runs \ {r} : pc'[q] = pc[q] /\ ~Unfinished(q)
<1>1. pc[r] = from /\ Exists /\ mem[r] = row /\ StepShows(r)
  BY DEF CommitStep, SerialInv
<1>2. row \in Row
  BY <1>1 DEF TypeOK, Exists
<1>3. row' = new
  BY <1>1, <1>2 DEF CommitStep, Flushed, Column, Row
<1>4. mem'[r] = new /\ pc'[r] = to
  BY DEF CommitStep, TypeOK
<1>5. ASSUME NEW q \in Runs \ {r}
      PROVE  pc'[q] = pc[q] /\ ~Unfinished(q)
  BY <1>1 DEF CommitStep, TypeOK, SerialInv, Unfinished
<1> QED
  BY <1>1, <1>3, <1>4, <1>5, NoRowNotRow DEF Exists

\* A commit keeps the invariant when the new row shows the step it leads to.
LEMMA CommitKeepsSerial ==
    ASSUME TypeOK, SerialInv, NEW r \in Runs, NEW from \in Working, NEW to,
           NEW new \in Row, CommitStep(r, from, to, new),
           row' = new /\ pc'[r] = to =>
             StepShows(r)' /\ ReadyIsOneRunsWork' /\ FailedSaysWhy'
    PROVE  SerialInv'
BY CommitWritesCopy DEF SerialInv, Unfinished

\* Every step of the one unfinished run keeps the invariant.
LEMMA RunKeepsSerial ==
    ASSUME TypeOK, SerialInv, NEW r \in Runs, Run(r)
    PROVE  SerialInv'
<1>1. mem[r] \in Row /\ mem[r].stages \in Stages /\ r # None
  BY NullNotRun DEF TypeOK, Row
<1>0. ASSUME NEW from \in Working, NEW to, NEW new, CommitStep(r, from, to, new)
      PROVE  pc[r] = from /\ Exists /\ mem[r] = row /\ StepShows(r)
  BY <1>0 DEF SerialInv, CommitStep
<1>2. CASE Begin(r)
  BY <1>2
  DEF Begin, TypeOK, SerialInv, StepShows, Analysing, ReadyIsOneRunsWork, FailedSaysWhy,
      Exists, Unfinished, Working, Interrupted
<1>3. CASE ReadFile(r) \/ Raises(r)
  BY <1>3
  DEF ReadFile, Raises, TypeOK, SerialInv, StepShows, Analysing, ReadyIsOneRunsWork,
      FailedSaysWhy, Exists, Unfinished, Working, Interrupted
<1> DEFINE Kept(new, to) ==
             row' = new /\ pc'[r] = to =>
               StepShows(r)' /\ ReadyIsOneRunsWork' /\ FailedSaysWhy'
<1>4. CASE Reset(r)
  <2> DEFINE new == [mem[r] EXCEPT !.err = None]
  <2>1. mem[r] = row /\ Exists
    BY <1>0, <1>4 DEF Reset, Working
  <2>2. /\ new.err = None /\ new.status = row.status
        /\ new.ocr = row.ocr /\ new.stages = row.stages /\ new \in Row
    BY <1>1, <2>1, NewCopies DEF Row
  <2>3. ReadyIsOneRunsWork
    BY DEF SerialInv
  <2> HIDE DEF new
  <2>4. Kept(new, "reset")
    BY <2>1, <2>2, <2>3
    DEF StepShows, Analysing, ReadyIsOneRunsWork, FailedSaysWhy, Exists
  <2> QED
    BY <1>4, <2>2, <2>4, CommitKeepsSerial DEF Reset, Working, new
<1>5. CASE StartOcr(r)
  <2>1. /\ With(r, "ocr_pending") \in Row
        /\ With(r, "ocr_pending").status = "ocr_pending"
        /\ With(r, "ocr_pending").err = mem[r].err
    <3>1. With(r, "ocr_pending") \in Row
      BY NewCopies DEF Statuses
    <3> QED
      BY <1>1, <3>1 DEF With, Row
  <2>3. mem[r].err = None
    BY <1>0, <1>5 DEF StartOcr, Working, StepShows
  <2>2. Kept(With(r, "ocr_pending"), "ocr_pending")
    BY <2>1, <2>3 DEF StepShows, Analysing, ReadyIsOneRunsWork, FailedSaysWhy
  <2> QED
    BY <1>5, <2>1, <2>2, CommitKeepsSerial DEF StartOcr, Working
<1>6. CASE FileFails(r) \/ OcrFails(r) \/ Stage1Fails(r)
  <2>1. /\ Failing(r) \in Row
        /\ Failing(r).status = "failed" /\ Failing(r).err = r
    BY <1>1, NewCopies DEF Failing, Row
  <2>2. Kept(Failing(r), "finished")
    BY <1>1, <2>1 DEF StepShows, Analysing, ReadyIsOneRunsWork, FailedSaysWhy, Working
  <2> QED
    BY <1>6, <2>1, <2>2, CommitKeepsSerial DEF FileFails, OcrFails, Stage1Fails, Working
<1>7. CASE OcrDone(r)
  <2> DEFINE new == [With(r, "ocr_done") EXCEPT !.ocr = r]
  <2>1. /\ new \in Row /\ new.status = "ocr_done" /\ new.ocr = r
        /\ new.err = mem[r].err
    BY <1>1, NewCopies DEF With, Row
  <2>2. mem[r].err = None
    BY <1>0, <1>7 DEF OcrDone, Working, StepShows
  <2> HIDE DEF new
  <2>3. Kept(new, "ocr_done")
    BY <2>1, <2>2 DEF StepShows, Analysing, ReadyIsOneRunsWork, FailedSaysWhy
  <2> QED
    BY <1>7, <2>1, <2>3, CommitKeepsSerial DEF OcrDone, Working, new
<1>8. CASE StartProcessing(r)
  <2>1. /\ With(r, "processing") \in Row
        /\ With(r, "processing").status = "processing"
        /\ With(r, "processing").err = mem[r].err
        /\ With(r, "processing").ocr = mem[r].ocr
    <3>1. With(r, "processing") \in Row
      BY NewCopies DEF Statuses
    <3> QED
      BY <1>1, <3>1 DEF With, Row
  <2>3. mem[r].err = None /\ mem[r].ocr = r
    BY <1>0, <1>8 DEF StartProcessing, Working, StepShows
  <2>2. Kept(With(r, "processing"), "processing")
    BY <2>1, <2>3 DEF StepShows, Analysing, ReadyIsOneRunsWork, FailedSaysWhy
  <2> QED
    BY <1>8, <2>1, <2>2, CommitKeepsSerial DEF StartProcessing, Working
<1>9. ASSUME NEW from \in {"processing", "stage_1", "stage_2"}, NEW to \in Working,
             NEW stages \in Stages, CommitStep(r, from, to, Merged(r, stages)),
             to \in {"stage_1", "stage_2", "stage_3"},
             stages.s1 = r,
             to \in {"stage_2", "stage_3"} => stages.s2 = r,
             to = "stage_3" => stages.s3 = r
      PROVE  SerialInv'
  <2>1. /\ Merged(r, stages) \in Row /\ Merged(r, stages).status = mem[r].status
        /\ Merged(r, stages).err = mem[r].err /\ Merged(r, stages).ocr = mem[r].ocr
        /\ Merged(r, stages).stages = stages
    BY <1>1, NewCopies DEF Merged, Row
  <2>2. mem[r].status = "processing" /\ mem[r].err = None /\ mem[r].ocr = r
    BY <1>0, <1>9 DEF Working, StepShows, Analysing
  <2>3. Kept(Merged(r, stages), to)
    BY <1>9, <2>1, <2>2 DEF StepShows, Analysing, ReadyIsOneRunsWork, FailedSaysWhy
  <2> QED
    BY <1>9, <2>1, <2>3, CommitKeepsSerial DEF Working
<1>10. CASE Stage1(r)
  <2> DEFINE st == [mem[r].stages EXCEPT !.s1 = r]
  <2>1. st \in Stages /\ st.s1 = r
    BY <1>1, NewCopies DEF Stages
  <2>2. CommitStep(r, "processing", "stage_1", Merged(r, st))
    BY <1>10 DEF Stage1
  <2> HIDE DEF st
  <2> QED
    BY <1>9, <2>1, <2>2 DEF Working
<1>11. CASE Stage2(r)
  <2> DEFINE st == [mem[r].stages EXCEPT !.s2 = r]
  <2>1. mem[r].stages.s1 = r
    BY <1>0, <1>11 DEF Stage2, Working, StepShows
  <2>2. st \in Stages /\ st.s1 = r /\ st.s2 = r
    BY <1>1, <2>1, NewCopies DEF Stages
  <2>3. CommitStep(r, "stage_1", "stage_2", Merged(r, st))
    BY <1>11 DEF Stage2
  <2> HIDE DEF st
  <2> QED
    BY <1>9, <2>2, <2>3 DEF Working
<1>12. CASE Stage3(r)
  <2>1. PICK ok \in BOOLEAN :
          CommitStep(r, "stage_2", "stage_3",
            Merged(r, [mem[r].stages EXCEPT !.s3 = r, !.rendered = ok, !.tr = "absent"]))
    BY <1>12 DEF Stage3
  <2> DEFINE st == [mem[r].stages EXCEPT !.s3 = r, !.rendered = ok, !.tr = "absent"]
  <2>2. /\ st \in Stages /\ st.s1 = mem[r].stages.s1 /\ st.s2 = mem[r].stages.s2
        /\ st.s3 = r
    BY <1>1, NewCopies DEF Stages
  <2>3. mem[r].stages.s1 = r /\ mem[r].stages.s2 = r
    BY <1>0, <2>1 DEF Working, StepShows
  <2> HIDE DEF st
  <2> QED
    BY <1>9, <2>1, <2>2, <2>3 DEF Working, st
<1>13. CASE Finish(r)
  <2>1. PICK tr \in IF Translates /\ mem[r].stages.rendered
                      THEN {"done", "error"} ELSE {"absent"} :
          CommitStep(r, "stage_3", "finished", [With(r, "ready") EXCEPT !.stages.tr = tr])
    BY <1>13 DEF Finish
  <2> DEFINE new == [With(r, "ready") EXCEPT !.stages.tr = tr]
  <2>2. tr \in Translation
    BY <2>1 DEF Translation
  <2>3. /\ new \in Row /\ new.status = "ready" /\ new.err = mem[r].err
        /\ new.ocr = mem[r].ocr /\ new.stages.s1 = mem[r].stages.s1
        /\ new.stages.s2 = mem[r].stages.s2 /\ new.stages.s3 = mem[r].stages.s3
        /\ new.stages.tr = tr /\ new.stages.rendered = mem[r].stages.rendered
    BY <1>1, <2>2, NewCopies DEF With, Row, Stages
  <2>4. /\ mem[r].err = None /\ mem[r].ocr = r /\ mem[r].stages.s1 = r
        /\ mem[r].stages.s2 = r /\ mem[r].stages.s3 = r
    BY <1>0, <2>1 DEF Working, StepShows, Analysing
  <2> HIDE DEF new
  <2>5. Kept(new, "finished")
    BY <1>1, <2>1, <2>3, <2>4
    DEF StepShows, Analysing, ReadyIsOneRunsWork, FailedSaysWhy, Working
  <2> QED
    BY <2>1, <2>3, <2>5, CommitKeepsSerial DEF Working, new
<1> QED
  BY <1>2, <1>3, <1>4, <1>5, <1>6, <1>7, <1>8, <1>10, <1>11, <1>12, <1>13 DEF Run

\* Every step keeps the invariant while runs do not overlap.
LEMMA SerialNext == ~Overlap /\ TypeOK /\ FileInv /\ SerialInv /\ [Next]_vars => SerialInv'
<1> SUFFICES ASSUME ~Overlap, TypeOK, FileInv, SerialInv, [Next]_vars
             PROVE  SerialInv'
  OBVIOUS
<1>1. CASE UploadCommit
  BY <1>1
  DEF UploadCommit, FileInv, FreshRow, SerialInv, ReadyIsOneRunsWork, FailedSaysWhy,
      Exists, Unfinished, Working
<1>2. CASE Upload /\ ~UploadCommit
  BY <1>2
  DEF Upload, UploadRefused, UploadInsert, UploadSave, UploadSaveFails,
      UploadCommitFails, SerialInv, StepShows, ReadyIsOneRunsWork, FailedSaysWhy,
      Exists, Unfinished
<1>3. CASE \E d \in Deletes : Delete(d)
  BY <1>3
  DEF Delete, DeleteLoad, DeleteUnlink, DeleteFlush, DeleteCommit, DeleteFails,
      SerialInv, StepShows, ReadyIsOneRunsWork, FailedSaysWhy, Exists, Unfinished
<1>4. ASSUME NEW r \in Runs, Post(r)
      PROVE  SerialInv'
  BY <1>4
  DEF Post, TypeOK, SerialInv, StepShows, Analysing, ReadyIsOneRunsWork, FailedSaysWhy,
      Exists, Unfinished, Working, Interrupted
<1>5. CASE \E r \in Runs : Run(r)
  BY <1>5, RunKeepsSerial
<1>6. CASE Crash
  BY <1>6
  DEF Crash, TypeOK, SerialInv, StepShows, ReadyIsOneRunsWork, FailedSaysWhy, Exists,
      Unfinished, Working, Interrupted
<1>7. CASE UNCHANGED vars
  BY <1>7
  DEF vars, SerialInv, StepShows, ReadyIsOneRunsWork, FailedSaysWhy, Exists, Unfinished
<1> QED
  BY <1>1, <1>2, <1>3, <1>4, <1>5, <1>6, <1>7 DEF Next

\* Without overlap the row shows the progress of its one run.
LEMMA SerialInvHolds == ASSUME ~Overlap PROVE Spec => []SerialInv
BY SerialInit, SerialNext, TypeCorrect, FileInvHolds, PTL DEF Spec

\* What a worker reads as 'ready' is the complete work of one run.
THEOREM ReadyIsCoherent == ASSUME ~Overlap PROVE Spec => []ReadyIsOneRunsWork
<1>1. SerialInv => ReadyIsOneRunsWork
  BY DEF SerialInv
<1> QED
  BY <1>1, SerialInvHolds, PTL

\* A failure is never without its message, but for the moment in which the
\* next run has cleared it.
THEOREM FailureIsExplained == ASSUME ~Overlap PROVE Spec => []FailedSaysWhy
<1>1. SerialInv => FailedSaysWhy
  BY DEF SerialInv
<1> QED
  BY <1>1, SerialInvHolds, PTL

-----------------------------------------------------------------------------
(* Refinement of the status machine.                                       *)

\* The status that a run's step leaves is the one the machine prescribes.
LEMMA RunFollowsMachine ==
    ASSUME TypeOK, SerialInv, NEW r \in Runs, Run(r)
    PROVE  StatusMachine!Next \/ StatusSeen' = StatusSeen
<1>1. mem[r] \in Row
  BY DEF TypeOK
<1> USE DEF Working
<1>2. ASSUME NEW from \in Working, NEW to, NEW new \in Row, CommitStep(r, from, to, new)
      PROVE  /\ pc[r] = from /\ StepShows(r) /\ mem[r] = row
             /\ StatusSeen = row.status /\ StatusSeen' = new.status
  BY <1>2, CommitWritesCopy DEF StatusSeen
<1>3. CASE Begin(r) \/ ReadFile(r) \/ Raises(r)
  BY <1>3 DEF Begin, ReadFile, Raises, StatusSeen, Exists
<1>4. CASE Reset(r)
  <2>1. [mem[r] EXCEPT !.err = None].status = mem[r].status
    BY <1>1 DEF Row
  <2> QED
    BY <1>2, <1>4, <2>1, NewCopies DEF Reset
<1>5. CASE StartOcr(r)
  <2>1. With(r, "ocr_pending").status = "ocr_pending" /\ With(r, "ocr_pending") \in Row
    <3>1. With(r, "ocr_pending") \in Row
      BY NewCopies DEF Statuses
    <3> QED
      BY <1>1, <3>1 DEF With, Row
  <2>2. StatusSeen = mem[r].status /\ StatusSeen' = "ocr_pending"
    BY <1>2, <1>5, <2>1 DEF StartOcr
  <2> QED
    BY <1>1, <2>2 DEF Row, Statuses, StatusMachine!Next, StatusMachine!Start,
       StatusMachine!Present
<1>6. CASE FileFails(r) \/ OcrFails(r) \/ Stage1Fails(r)
  <2>1. Failing(r).status = "failed" /\ Failing(r) \in Row
    BY <1>1, NewCopies DEF Failing, Row
  <2>2. /\ StatusSeen \in {"ocr_pending", "processing"}
        /\ StatusSeen' = "failed"
    BY <1>2, <1>6, <2>1 DEF FileFails, OcrFails, Stage1Fails, StepShows, Analysing
  <2> QED
    BY <2>2 DEF StatusMachine!Next, StatusMachine!Fail
<1>7. CASE OcrDone(r)
  <2> DEFINE new == [With(r, "ocr_done") EXCEPT !.ocr = r]
  <2>1. new.status = "ocr_done" /\ new \in Row
    BY <1>1, NewCopies DEF With, Row
  <2>2. StatusSeen = "ocr_pending" /\ StatusSeen' = "ocr_done"
    BY <1>2, <1>7, <2>1 DEF OcrDone, StepShows
  <2> QED
    BY <2>2 DEF StatusMachine!Next, StatusMachine!TextRead
<1>8. CASE StartProcessing(r)
  <2>1. With(r, "processing").status = "processing" /\ With(r, "processing") \in Row
    <3>1. With(r, "processing") \in Row
      BY NewCopies DEF Statuses
    <3> QED
      BY <1>1, <3>1 DEF With, Row
  <2>2. StatusSeen = "ocr_done" /\ StatusSeen' = "processing"
    BY <1>2, <1>8, <2>1 DEF StartProcessing, StepShows
  <2> QED
    BY <2>2 DEF StatusMachine!Next, StatusMachine!Analyse
<1>9. CASE Stage1(r) \/ Stage2(r) \/ Stage3(r)
  <2>1. ASSUME NEW from \in Working, NEW to, NEW stages \in Stages,
               CommitStep(r, from, to, Merged(r, stages))
        PROVE  StatusSeen' = StatusSeen
    <3>1. Merged(r, stages).status = mem[r].status /\ Merged(r, stages) \in Row
      BY <1>1, NewCopies DEF Merged, Row
    <3> QED
      BY <1>2, <2>1, <3>1
  <2> QED
    BY <1>9, <2>1, NewCopies DEF Stage1, Stage2, Stage3
<1>10. CASE Finish(r)
  <2>1. PICK tr \in Translation :
          CommitStep(r, "stage_3", "finished", [With(r, "ready") EXCEPT !.stages.tr = tr])
    BY <1>10 DEF Finish, Translation
  <2> DEFINE new == [With(r, "ready") EXCEPT !.stages.tr = tr]
  <2>2. new.status = "ready" /\ new \in Row
    BY <1>1, NewCopies DEF With, Row
  <2>3. StatusSeen = "processing" /\ StatusSeen' = "ready"
    BY <1>2, <2>1, <2>2 DEF StepShows, Analysing
  <2> QED
    BY <2>3 DEF StatusMachine!Next, StatusMachine!Complete
<1> QED
  BY <1>3, <1>4, <1>5, <1>6, <1>7, <1>8, <1>9, <1>10 DEF Run

\* The row follows the status machine of the docs as long as no run is
\* scheduled while another one is unfinished.
THEOREM ImplementsStatusMachine == ASSUME ~Overlap PROVE Spec => FollowsStatusMachine
<1>1. Init => StatusMachine!Init
  BY DEF Init, StatusMachine!Init, StatusSeen, Exists
<1>2. TypeOK /\ FileInv /\ SerialInv /\ [Next]_vars
        => [StatusMachine!Next]_StatusSeen
  <2> SUFFICES ASSUME TypeOK, FileInv, SerialInv, [Next]_vars
               PROVE  StatusMachine!Next \/ StatusSeen' = StatusSeen
    OBVIOUS
  <2>1. CASE UploadCommit
    <3>1. StatusSeen = "absent" /\ StatusSeen' = "uploaded"
      BY <2>1, FreshRowIsRow, NoRowNotRow
      DEF UploadCommit, FileInv, StatusSeen, Exists, FreshRow
    <3> QED
      BY <3>1 DEF StatusMachine!Next, StatusMachine!Upload
  <2>2. CASE Upload /\ ~UploadCommit
    BY <2>2
    DEF Upload, UploadRefused, UploadInsert, UploadSave, UploadSaveFails,
        UploadCommitFails, StatusSeen, Exists
  <2>3. ASSUME NEW d \in Deletes, DeleteCommit(d)
        PROVE  StatusMachine!Next \/ StatusSeen' = StatusSeen
    <3>1. upload = "committed" /\ upload' = upload /\ row' = NoRow
      BY <2>3 DEF DeleteCommit, FileInv
    <3>2. StatusSeen' = "deleted"
      BY <3>1 DEF StatusSeen, Exists
    <3>3. Exists => StatusSeen \in StatusMachine!Present
      BY DEF StatusSeen, Exists, TypeOK, Row, Statuses, StatusMachine!Present
    <3>4. ~Exists => StatusSeen = "deleted"
      BY <3>1 DEF StatusSeen
    <3> QED
      BY <3>2, <3>3, <3>4 DEF StatusMachine!Next, StatusMachine!Delete
  <2>4. ASSUME NEW d \in Deletes, Delete(d), ~DeleteCommit(d)
        PROVE  StatusSeen' = StatusSeen
    BY <2>4 DEF Delete, DeleteLoad, DeleteUnlink, DeleteFlush, DeleteFails, StatusSeen, Exists
  <2>5. CASE \E r \in Runs : Post(r)
    BY <2>5 DEF Post, StatusSeen, Exists
  <2>6. CASE \E r \in Runs : Run(r)
    BY <2>6, RunFollowsMachine
  <2>7. CASE Crash
    <3>1. row' = row /\ (upload' = "committed" <=> upload = "committed")
      BY <2>7 DEF Crash
    <3> QED
      BY <3>1 DEF StatusSeen, Exists
  <2>8. CASE UNCHANGED vars
    BY <2>8 DEF vars, StatusSeen, Exists
  <2> QED
    BY <2>1, <2>2, <2>3, <2>4, <2>5, <2>6, <2>7, <2>8 DEF Next
<1> QED
  BY <1>1, <1>2, SerialInvHolds, TypeCorrect, FileInvHolds, PTL
  DEF Spec, FollowsStatusMachine, StatusMachine!Spec
=============================================================================
