------------------------- MODULE AdmissionContract -------------------------
(***************************************************************************)
(* What admission and the budget promise of a turn request, without         *)
(* attempts, leases, ledger entries, sweeps or a lock.  A request waits,     *)
(* runs, ends and may be restarted, or is cancelled before it ever runs.     *)
(* Each of its generations has one account, which is opened at an estimate   *)
(* or denied, raised only while the request runs on it, and closed once, at  *)
(* no more than what it held and what one call may cost beyond its estimate. *)
(***************************************************************************)
EXTENDS Integers

CONSTANTS Requests, Generations, Estimate, CallEstimate, CallExcess

VARIABLES request, generation, account, charge

contractVars == <<request, generation, account, charge>>

Accounts == Requests \X Generations

Init ==
    /\ request = [r \in Requests |-> "waiting"]
    /\ generation = [r \in Requests |-> 0]
    /\ account = [k \in Accounts |-> "none"]
    /\ charge = [k \in Accounts |-> 0]

Book(k, standing, amount) ==
    /\ account' = [account EXCEPT ![k] = standing]
    /\ charge' = [charge EXCEPT ![k] = amount]

Open(k, amount) ==
    /\ account[k] = "none" /\ amount \in {0, Estimate}
    /\ Book(k, "open", amount)
    /\ UNCHANGED <<request, generation>>

Deny(k) ==
    /\ account[k] = "none"
    /\ Book(k, "denied", 0)
    /\ UNCHANGED <<request, generation>>

\* One more call of the request that runs on the account, and what the call
\* before it cost too much.
Raise(k, amount) ==
    /\ account[k] = "open" /\ request[k[1]] = "running" /\ generation[k[1]] = k[2]
    /\ amount \in 1 .. CallEstimate + CallExcess
    /\ Book(k, "open", charge[k] + amount)
    /\ UNCHANGED <<request, generation>>

\* Nothing is charged: a preparation or a recovery failed, or nobody came back.
Release(k) ==
    /\ account[k] = "open"
    /\ Book(k, "closed", 0)
    /\ UNCHANGED <<request, generation>>

Cancel(r) ==
    /\ request[r] = "waiting"
    /\ request' = [request EXCEPT ![r] = "cancelled"]
    /\ UNCHANGED <<generation, account, charge>>

Start(r) ==
    /\ request[r] = "waiting" /\ account[<<r, 0>>] = "open"
    /\ request' = [request EXCEPT ![r] = "running"]
    /\ UNCHANGED <<generation, account, charge>>

\* The account is closed with the run, unless it was released before.
Finish(r) ==
    /\ request[r] \in {"running", "ended"}
    /\ request' = [request EXCEPT ![r] = "ended"]
    /\ LET k == <<r, generation[r]>>
       IN  IF account[k] = "open"
           THEN \E amount \in 0 .. charge[k] + CallExcess : Book(k, "closed", amount)
           ELSE UNCHANGED <<account, charge>>
    /\ UNCHANGED generation

Restart(r) ==
    /\ request[r] = "ended" /\ generation[r] + 1 \in Generations
    /\ request' = [request EXCEPT ![r] = "running"]
    /\ generation' = [generation EXCEPT ![r] = @ + 1]
    /\ UNCHANGED <<account, charge>>

Next ==
    \/ \E k \in Accounts : \/ \E amount \in {0, Estimate} : Open(k, amount)
                           \/ \E amount \in 1 .. CallEstimate + CallExcess : Raise(k, amount)
                           \/ Deny(k) \/ Release(k)
    \/ \E r \in Requests : Cancel(r) \/ Start(r) \/ Finish(r) \/ Restart(r)

Spec == Init /\ [][Next]_contractVars
=============================================================================
