---------------------------- MODULE ContractStatus ----------------------------
(***************************************************************************)
(* What the contract reader promises about the status of one contract: the *)
(* status machine drawn in the docstring of UploadedContract and at the    *)
(* head of processor.py, extended with the row's creation and deletion and *)
(* with the re-runs that the process endpoint allows from any status.      *)
(***************************************************************************)

VARIABLE status

Present == {"uploaded", "ocr_pending", "ocr_done", "processing", "ready", "failed"}

TypeOK == status \in Present \cup {"absent", "deleted"}

Init == status = "absent"

Upload == status = "absent" /\ status' = "uploaded"

\* A run starts over from whatever status it finds.
Start == status \in Present /\ status' = "ocr_pending"

TextRead == status = "ocr_pending" /\ status' = "ocr_done"

Analyse == status = "ocr_done" /\ status' = "processing"

Complete == status = "processing" /\ status' = "ready"

Fail == status \in {"ocr_pending", "processing"} /\ status' = "failed"

\* Deletion is final.
Delete == status \in Present /\ status' = "deleted"

Next == Upload \/ Start \/ TextRead \/ Analyse \/ Complete \/ Fail \/ Delete

Spec == Init /\ [][Next]_status
=============================================================================
