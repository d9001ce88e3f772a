-------------------------- MODULE ScheduleContract --------------------------
(***************************************************************************)
(* What scheduled tasks promise of an occurrence, without dispatchers,      *)
(* leases, reservations, locks or a clock.  It is recorded once, waits,      *)
(* is taken, may be put back, and is settled once as admitted, failed or     *)
(* skipped; it has at most one chat.  A schedule has one open occurrence at  *)
(* a time, and a deleted one puts none back.  Once a dispatcher was          *)
(* overtaken by a newer claim, a chat may start late and a failure may be    *)
(* recorded beside it; nothing else is lost.                                 *)
(***************************************************************************)
EXTENDS Integers

CONSTANTS Schedules, Numbers

VARIABLES deleted, record, chat, overtaken

contractVars == <<deleted, record, chat, overtaken>>

Occurrences == Schedules \X Numbers
Open == {"pending", "taken"}

Init ==
    /\ deleted = {}
    /\ record = [k \in Occurrences |-> "none"] /\ chat = [k \in Occurrences |-> "none"]
    /\ overtaken = 0

\* An occurrence of the schedule is open, or its chat goes on.
Busy(s) ==
    \E k \in Occurrences : /\ k[1] = s
                           /\ record[k] \in Open \/ (record[k] = "admitted" /\ chat[k] \in {"active", "resumed"})

\* At most one occurrence of each of several schedules; it is skipped when an
\* earlier one is under way.
Record(S) ==
    /\ \A k \in S : record[k] = "none" /\ k[1] \notin deleted
    /\ \A k, j \in S : k[1] = j[1] => k = j
    /\ record' = [k \in Occurrences |-> IF k \notin S THEN record[k]
                                        ELSE IF Busy(k[1]) THEN "skipped" ELSE "pending"]
    /\ UNCHANGED <<deleted, chat, overtaken>>

\* The user changes the schedule or deletes it: what nobody took is skipped.
Skip(s) == record' = [k \in Occurrences |-> IF k[1] = s /\ record[k] = "pending" THEN "skipped" ELSE record[k]]

Change(s) ==
    /\ s \notin deleted /\ Skip(s)
    /\ UNCHANGED <<deleted, chat, overtaken>>

Delete(s) ==
    /\ s \notin deleted /\ Skip(s)
    /\ deleted' = deleted \cup {s}
    /\ UNCHANGED <<chat, overtaken>>

\* What has its chat is settled, and some of the others are taken.
Take(A, S) ==
    /\ \A k \in A : record[k] \in Open /\ chat[k] # "none"
    /\ \A k \in S : record[k] \in Open /\ chat[k] = "none"
    /\ record' = [k \in Occurrences |-> IF k \in A THEN "admitted" ELSE IF k \in S THEN "taken" ELSE record[k]]
    /\ UNCHANGED <<deleted, chat, overtaken>>

Settle(k, outcome) ==
    /\ record[k] = "taken"
    /\ record' = [record EXCEPT ![k] = outcome]
    /\ UNCHANGED <<deleted, chat, overtaken>>

Admit(k) == chat[k] # "none" /\ Settle(k, "admitted")
Fail(k) == (chat[k] = "none" \/ overtaken > 0) /\ Settle(k, "failed")
PutBack(k) == k[1] \notin deleted /\ Settle(k, "pending")

Start(k) ==
    /\ chat[k] = "none" /\ record[k] # "none" /\ (record[k] = "taken" \/ overtaken > 0)
    /\ chat' = [chat EXCEPT ![k] = "active"]
    /\ UNCHANGED <<deleted, record, overtaken>>

End(k) ==
    /\ chat[k] \in {"active", "resumed", "held"}
    /\ chat' = [chat EXCEPT ![k] = "ended"]
    /\ UNCHANGED <<deleted, record, overtaken>>

\* A chat held for review does not keep the schedule busy, and may be resumed
\* beside the next occurrence's.
Hold(k) ==
    /\ chat[k] \in {"active", "resumed"}
    /\ chat' = [chat EXCEPT ![k] = "held"]
    /\ UNCHANGED <<deleted, record, overtaken>>

Recover(k) ==
    /\ chat[k] = "held"
    /\ chat' = [chat EXCEPT ![k] = "resumed"]
    /\ UNCHANGED <<deleted, record, overtaken>>

Overtake ==
    /\ overtaken' = overtaken + 1
    /\ UNCHANGED <<deleted, record, chat>>

Next ==
    \/ \E S \in SUBSET Occurrences : Record(S)
    \/ \E A, S \in SUBSET Occurrences : Take(A, S)
    \/ \E s \in Schedules : Change(s) \/ Delete(s)
    \/ \E k \in Occurrences : Admit(k) \/ Fail(k) \/ PutBack(k) \/ Start(k)
                                \/ End(k) \/ Hold(k) \/ Recover(k)
    \/ Overtake

Spec == Init /\ [][Next]_contractVars
=============================================================================
