------------------------ MODULE NotificationPromise ------------------------
(***************************************************************************)
(* What the commit phase promises about notifications, without saying how: *)
(* a remind disappears from further processing only once its notification  *)
(* is in the hands of the task queue, and a notification leaves the queue  *)
(* only by being sent or because the user deleted the remind.              *)
(***************************************************************************)
CONSTANT Reminds

VARIABLES
    handed,     \* accepted by the queue at least once
    pending,    \* waiting in the queue
    sent,       \* taken out of the queue at the schedule time
    hidden,     \* no later run will process it
    withdrawn   \* deleted by the user

vars == <<handed, pending, sent, hidden, withdrawn>>

Init ==
    /\ handed = {} /\ pending = {} /\ sent = {}
    /\ hidden = {} /\ withdrawn = {}

HandOver(r) ==
    /\ handed' = handed \cup {r}
    /\ pending' = pending \cup {r}
    /\ UNCHANGED <<sent, hidden, withdrawn>>

Hide(r) ==
    /\ r \in handed
    /\ r \in pending \cup sent \cup withdrawn
    /\ hidden' = hidden \cup {r}
    /\ UNCHANGED <<handed, pending, sent, withdrawn>>

\* A marker may be forgotten again.
Reveal(r) ==
    /\ hidden' = hidden \ {r}
    /\ UNCHANGED <<handed, pending, sent, withdrawn>>

Send(r) ==
    /\ r \in pending
    /\ pending' = pending \ {r}
    /\ sent' = sent \cup {r}
    /\ UNCHANGED <<handed, hidden, withdrawn>>

Withdraw(rs) ==
    /\ withdrawn' = withdrawn \cup rs
    /\ UNCHANGED <<handed, pending, sent, hidden>>

Cancel(r) ==
    /\ r \in withdrawn
    /\ pending' = pending \ {r}
    /\ UNCHANGED <<handed, sent, hidden, withdrawn>>

Next ==
    \/ \E r \in Reminds :
          HandOver(r) \/ Hide(r) \/ Reveal(r) \/ Send(r) \/ Cancel(r)
    \/ \E rs \in SUBSET Reminds : Withdraw(rs)

Spec == Init /\ [][Next]_vars
=============================================================================
