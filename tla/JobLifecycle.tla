---------------------------- MODULE JobLifecycle ----------------------------
(***************************************************************************)
(* What the job queue promises, without saying how: the COMPLETE.* markers *)
(* record which processing steps of a job are done (README.md, "Directory  *)
(* structure").  A step is recorded once and for ever.  PDFs are delivered *)
(* at least once, and only when the document is converted and its          *)
(* originals are uploaded; a job is only recorded as finished when a PDF   *)
(* was delivered, unless the user took the converted PDF away.             *)
(***************************************************************************)
EXTENDS Naturals

CONSTANT JobId

VARIABLES
    done,       \* the steps recorded as done, for each job
    delivered,  \* how many PDFs of each job were delivered
    withdrawn   \* jobs of which the user took the converted PDF away

vars == <<done, delivered, withdrawn>>

Step == {"scan", "convert", "uploadoriginals", "uploadpdf"}

Uploadable(id) == {"convert", "uploadoriginals"} \subseteq done[id]

Init ==
    /\ done = [id \in JobId |-> {}]
    /\ delivered = [id \in JobId |-> 0]
    /\ withdrawn = {}

\* A step that may be recorded at any time: scanning, converting, archiving.
Record(id, step) ==
    /\ step # "uploadpdf"
    /\ done' = [done EXCEPT ![id] = @ \cup {step}]
    /\ UNCHANGED <<delivered, withdrawn>>

Deliver(id) ==
    /\ Uploadable(id)
    /\ delivered' = [delivered EXCEPT ![id] = @ + 1]
    /\ UNCHANGED <<done, withdrawn>>

Finish(id) ==
    /\ Uploadable(id)
    /\ delivered[id] > 0 \/ id \in withdrawn
    /\ done' = [done EXCEPT ![id] = @ \cup {"uploadpdf"}]
    /\ UNCHANGED <<delivered, withdrawn>>

Withdraw(id) ==
    /\ withdrawn' = withdrawn \cup {id}
    /\ UNCHANGED <<done, delivered>>

Next ==
    \E id \in JobId :
        \/ \E step \in Step : Record(id, step)
        \/ Deliver(id)
        \/ Finish(id)
        \/ Withdraw(id)

Spec == Init /\ [][Next]_vars
=============================================================================
