----------------------------- MODULE TaskRecord -----------------------------
(***************************************************************************)
(* The task record of backend/api/task_store.py: what a record holds, the  *)
(* status table, and the pure part of every update the code makes to one.  *)
(*                                                                         *)
(* A task is identified by its id.  The request body it was created from   *)
(* is the id itself (`input'), and the engine's answer to that body is     *)
(* Solution(input): all the properties need is whose body and whose answer *)
(* a record carries.                                                       *)
(***************************************************************************)
EXTENDS Integers

CONSTANTS
    Tasks,      \* the task ids (uuid4 strings)
    Nil,        \* Python's None
    MaxAge      \* settings.TASK_MAX_AGE_SECONDS, in units of the model clock

Solution(input) == <<"routes", input>>

-----------------------------------------------------------------------------

Open     == {"PENDING", "PROCESSING"}
Terminal == {"SUCCESS", "FAILED"}
VALID_STATUSES == Open \cup Terminal

NoError  == "none"
Messages == {"not enqueued", "expired", "worker failed"}

TaskRecords ==
    [ status  : VALID_STATUSES,
      input   : Tasks,
      result  : {Solution(t) : t \in Tasks} \cup {Nil},
      error   : Messages \cup {NoError},
      created : Nat ]

ASSUME RecordAssumption ==
    /\ Nil \notin Tasks \cup TaskRecords
    /\ \A t \in Tasks : Solution(t) # Nil
    /\ MaxAge \in Nat \ {0}

\* The table that allows a status only itself once it is terminal.
ALLOWED_STATUS_TRANSITIONS ==
    [ PENDING    |-> {"PENDING", "PROCESSING", "FAILED"},
      PROCESSING |-> {"PROCESSING", "SUCCESS", "FAILED"},
      SUCCESS    |-> {"SUCCESS"},
      FAILED     |-> {"FAILED"} ]

\* update_task accepts a status for the record it has just read.
MayMove(rec, status) == status \in ALLOWED_STATUS_TRANSITIONS[rec.status]

-----------------------------------------------------------------------------

NewTask(t, now) ==
    [ status |-> "PENDING", input |-> t, result |-> Nil,
      error |-> NoError, created |-> now ]

\* update_task(status="PROCESSING"): result and error keep their values.
MarkProcessing_TouchesCreated(rec) ==
    [rec EXCEPT !.status = "PROCESSING", !.created = @ + 1]
MarkProcessing(rec) == [rec EXCEPT !.status = "PROCESSING"]

\* update_task(status="SUCCESS", result_data=result, error_message=None)
MarkSuccess_ForgetsResult(rec, result) ==
    [rec EXCEPT !.status = "SUCCESS", !.error = NoError]
MarkSuccess(rec, result) ==
    [rec EXCEPT !.status = "SUCCESS", !.result = result, !.error = NoError]

\* update_task(status="FAILED", error_message=message): result is left unset.
MarkFailed_KeepsStatus(rec, message) == [rec EXCEPT !.error = message]
MarkFailed(rec, message) ==
    [rec EXCEPT !.status = "FAILED", !.error = message]

\* _record_failure's update: FAILED, with the result reset as well.
MarkFailedWithoutResult(rec, message) ==
    [rec EXCEPT !.status = "FAILED", !.result = Nil, !.error = message]

\* The age test of fail_stale_task.
IsStale_Never(rec, now) == FALSE
IsStale(rec, now) == rec.status \in Open /\ now - rec.created >= MaxAge

-----------------------------------------------------------------------------

(***************************************************************************)
(* What a stored record promises to whoever reads it: it answers the body  *)
(* it was created from, a result is there exactly when the task succeeded, *)
(* and an error message exactly when it failed.                            *)
(***************************************************************************)
Consistent(t, rec) ==
    /\ rec.input = t
    /\ rec.result = IF rec.status = "SUCCESS" THEN Solution(t) ELSE Nil
    /\ rec.status = "FAILED" <=> rec.error # NoError

=============================================================================
