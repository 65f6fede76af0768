---------------------------- MODULE TaskRegister ----------------------------
(***************************************************************************)
(* What the task store promises its readers, with no process, no message   *)
(* and no command in sight: a register per task id.  A register is filled  *)
(* once, with a PENDING record of the body that was posted; it then moves  *)
(* from one coherent record of that body to another, never back to PENDING *)
(* and never from PENDING straight to SUCCESS; it is emptied when its time *)
(* is over.                                                                *)
(*                                                                         *)
(* Two things a stronger promise would exclude are allowed here, because   *)
(* update_task is a GET followed by a SET without xx: a final status may   *)
(* change, and a write that comes late may fill an emptied register again. *)
(***************************************************************************)
EXTENDS TaskRecord

VARIABLES
    register,   \* register[t]: the record a reader of t finds, or Nil
    spent       \* the ids whose register has been filled, or never will be

registerVars == <<register, spent>>

RegisterInit ==
    /\ register = [t \in Tasks |-> Nil]
    /\ spent = {}

Replace(t, rec) == register' = [register EXCEPT ![t] = rec]

Fill(t) ==
    /\ t \notin spent
    /\ register'[t] # Nil
    /\ Replace(t, NewTask(t, register'[t].created))
    /\ spent' = spent \cup {t}

\* Ids whose POST came to nothing: their registers will not be filled.
Withdraw(S) ==
    /\ S # {}
    /\ S \cap spent = {}
    /\ spent' = spent \cup S
    /\ UNCHANGED register

Advance(t) ==
    /\ register[t] # Nil
    /\ register'[t] # Nil
    /\ LET old == register[t]
           new == register'[t]
       IN  /\ Consistent(t, new)
           /\ new.created = old.created
           /\ new.status # "PENDING"
           /\ new.status = "SUCCESS" => old.status # "PENDING"
           /\ Replace(t, new)
    /\ UNCHANGED spent

\* Time is over for some registers.
Empty(S) ==
    /\ register' = [t \in Tasks |-> IF t \in S THEN Nil ELSE register[t]]
    /\ UNCHANGED spent

\* A write that was overtaken by the end of the retention time.
Refill(t) ==
    /\ t \in spent
    /\ register[t] = Nil
    /\ register'[t] # Nil
    /\ Consistent(t, register'[t])
    /\ register'[t].status # "PENDING"
    /\ Replace(t, register'[t])
    /\ UNCHANGED spent

RegisterNext ==
    \/ \E t \in Tasks : Fill(t) \/ Advance(t) \/ Refill(t)
    \/ \E S \in SUBSET Tasks : Empty(S) \/ Withdraw(S)

RegisterSpec == RegisterInit /\ [][RegisterNext]_registerVars

=============================================================================
