--------------------------- MODULE OutboxContract ---------------------------
(***************************************************************************)
(* What the outbox promises of a row that needs a delivery receipt, without *)
(* dispatchers, leases or jobs: numbered attempts, each published at most   *)
(* as itself, and an end that is one of three.                              *)
(*   done       the latest attempt was received;                            *)
(*   dead       every attempt was used, or the row could not be sent;       *)
(*   withdrawn  the row's run, or the API, no longer needs it.              *)
(* A Reopenable row may be opened again after any of them; its attempts are *)
(* not counted anew.                                                        *)
(***************************************************************************)
EXTENDS Naturals

CONSTANTS Items, Reopenable, Unsendable, MaxTries

VARIABLES status, tries, sent, got

contractVars == <<status, tries, sent, got>>

Init ==
    /\ status = [i \in Items |-> "open"]
    /\ tries = [i \in Items |-> 0]
    /\ sent = [i \in Items |-> {}] /\ got = [i \in Items |-> {}]

Open(S) == \A i \in S : status[i] = "open"

SetStatus(S, value) == status' = [i \in Items |-> IF i \in S THEN value ELSE status[i]]

\* A dispatcher starts one more attempt of each row of its batch.
Attempt(S) ==
    /\ Open(S) /\ \A i \in S : tries[i] < MaxTries
    /\ tries' = [i \in Items |-> IF i \in S THEN tries[i] + 1 ELSE tries[i]]
    /\ UNCHANGED <<status, sent, got>>

\* An attempt, the latest or a late one, enters the queue.
Publish(i, n) ==
    /\ n \in 1 .. tries[i] /\ i \notin Unsendable
    /\ sent' = [sent EXCEPT ![i] = @ \cup {n}]
    /\ UNCHANGED <<status, tries, got>>

\* A worker processes a published attempt; only the latest closes the row.
Receive(i, n, closes) ==
    /\ n \in sent[i]
    /\ got' = [got EXCEPT ![i] = @ \cup {n}]
    /\ IF closes THEN /\ n = tries[i] /\ status[i] = "open"
                      /\ SetStatus({i}, "done")
                 ELSE UNCHANGED status
    /\ UNCHANGED <<tries, sent>>

DeadLetter(S) ==
    /\ Open(S) /\ \A i \in S \ Unsendable : tries[i] >= MaxTries
    /\ SetStatus(S, "dead")
    /\ UNCHANGED <<tries, sent, got>>

Withdraw(S) ==
    /\ Open(S)
    /\ SetStatus(S, "withdrawn")
    /\ UNCHANGED <<tries, sent, got>>

Reopen(S) ==
    /\ S \subseteq Reopenable
    /\ SetStatus(S, "open")
    /\ UNCHANGED <<tries, sent, got>>

Next ==
    \/ \E S \in SUBSET Items :
          Attempt(S) \/ DeadLetter(S) \/ Withdraw(S) \/ Reopen(S)
    \/ \E i \in Items, n \in 1 .. MaxTries : Publish(i, n)
    \/ \E i \in Items, n \in 1 .. MaxTries, closes \in BOOLEAN : Receive(i, n, closes)

Spec == Init /\ [][Next]_contractVars
=============================================================================
