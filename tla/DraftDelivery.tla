--------------------------- MODULE DraftDelivery ----------------------------
(***************************************************************************)
(* What uploading promises, without its workers, queue and API: for every  *)
(* task that is asked for a draft is opened at TikTok, and one more for    *)
(* every loss (an attempt that dies, an answer that never comes) at most;  *)
(* "uploaded" is said only when a draft is in the creator's inbox; and     *)
(* what has been said of a task is taken back after a loss only.  Upload   *)
(* implements it.                                                          *)
(***************************************************************************)
EXTENDS Naturals

CONSTANT Tasks

VARIABLES
  report,    \* [Tasks]: "none", "pending", "uploaded", "given up", "forgotten"
  opened,    \* [Tasks]: drafts 1..opened[t] have been opened
  inbox,     \* [Tasks]: those that have reached the inbox
  lost       \* attempts and answers lost so far

vars == <<report, opened, inbox, lost>>

Settled == {"uploaded", "given up"}
Becomes(t, r) == report' = [report EXCEPT ![t] = r]

Init ==
  /\ report = [t \in Tasks |-> "none"]
  /\ opened = [t \in Tasks |-> 0]
  /\ inbox = [t \in Tasks |-> {}]
  /\ lost = 0

Ask(t) ==
  /\ report[t] = "none"
  /\ Becomes(t, "pending")
  /\ UNCHANGED <<opened, inbox, lost>>

Settle(t) ==
  /\ report[t] = "pending"
  /\ \/ inbox[t] # {} /\ Becomes(t, "uploaded")
     \/ Becomes(t, "given up")
  /\ UNCHANGED <<opened, inbox, lost>>

Retract(t) ==
  /\ lost > 0
  /\ report[t] \in Settled
  /\ Becomes(t, "pending") \/ Becomes(t, "given up")
  /\ UNCHANGED <<opened, inbox, lost>>

(* Rows go in groups, with the clip they belong to.                         *)
Forget ==
  \E gone \in SUBSET {t \in Tasks : report[t] # "none"} :
    /\ report' = [t \in Tasks |-> IF t \in gone THEN "forgotten" ELSE report[t]]
    /\ UNCHANGED <<opened, inbox, lost>>

Lose ==
  /\ lost' = lost + 1
  /\ \/ UNCHANGED report
     \/ \E t \in Tasks : report[t] \in Settled \cup {"pending"} /\ Becomes(t, "given up")
  /\ UNCHANGED <<opened, inbox>>

MayOpen(t) == report[t] # "none" /\ opened[t] <= lost

Open(t) ==
  /\ MayOpen(t)
  /\ opened' = [opened EXCEPT ![t] = @ + 1]
  /\ UNCHANGED <<report, inbox, lost>>

OpenAndLose(t) ==  \* the draft is opened, and the answer lost
  /\ MayOpen(t)
  /\ opened' = [opened EXCEPT ![t] = @ + 1]
  /\ lost' = lost + 1
  /\ \/ UNCHANGED report
     \/ report[t] = "pending" /\ Becomes(t, "given up")
  /\ UNCHANGED inbox

Deliver(t) ==
  \E d \in (1..opened[t]) \ inbox[t] :
    /\ inbox' = [inbox EXCEPT ![t] = @ \cup {d}]
    /\ UNCHANGED <<report, opened, lost>>

Next ==
  \/ Forget \/ Lose
  \/ \E t \in Tasks : \/ Ask(t) \/ Settle(t) \/ Retract(t)
                      \/ Open(t) \/ OpenAndLose(t) \/ Deliver(t)

Spec == Init /\ [][Next]_vars
=============================================================================
