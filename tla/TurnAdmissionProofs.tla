------------------------ MODULE TurnAdmissionProofs ------------------------
(***************************************************************************)
(* Theorems about TurnAdmission, for any requests, preparers, amounts and    *)
(* bounds: type correctness, the ledger agrees with the reservations, an     *)
(* intent is admitted exactly when its run exists, a cancelled request never *)
(* runs, and a run is funded until it ends and charged what it cost; the     *)
(* hard limit is kept, and AdmissionContract implemented, when calls cost at *)
(* most their estimate.                                                      *)
(***************************************************************************)
EXTENDS TurnAdmission, FiniteSetTheorems, WellFoundedInduction, TLAPS

\* The constants are naturals.
LEMMA ConstantsAreNat ==
    /\ Estimate \in Nat /\ CallEstimate \in Nat /\ MaxCallCost \in Nat /\ HardLimit \in Nat
    /\ MaxAttempts \in Nat /\ MaxCalls \in Nat /\ MaxGenerations \in Nat /\ MaxErrors \in Nat
BY AmountsAssumption, BoundsAssumption

\* A reservation is named by its request and its generation.
LEMMA KeyNames ==
    /\ \A r \in Requests : \A g \in 0 .. MaxGenerations : <<r, g>> \in Keys
    /\ \A k \in Keys : k[1] \in Requests /\ k[2] \in 0 .. MaxGenerations /\ k = <<k[1], k[2]>>
BY ConstantsAreNat DEF Keys

\* The check against the limit answers yes or no.
LEMMA ExceedsIsBoolean == \A amount : Exceeds(amount) \in BOOLEAN
BY DEF Exceeds

\* The initial state.
LEMMA InitInv == Init => AdmissionInv
<1> SUFFICES ASSUME Init PROVE AdmissionInv
    OBVIOUS
<1> USE ConstantsAreNat, SentinelAssumption DEF Init
<1>1. TypeOK
  BY DEF TypeOK, IntentType, RunType, ResType, PrepType, Idle, Entry, NoEntry, Kinds
<1>2. PreparersDistinct /\ CheckedIsNew
  BY DEF PreparersDistinct, CheckedIsNew, Idle
<1>3. LedgerKept
  BY DEF LedgerKept, KeptAt, NoEntry, Kinds
<1>4. RecoveryHolds /\ IntentMatchesRun /\ AdmittedAlone
  BY DEF RecoveryHolds, IntentMatchesRun, AdmittedAlone
<1>5. RunIsFunded /\ EndedIsSettled
  BY DEF RunIsFunded, EndedIsSettled, Active, Ended
<1> QED
  BY <1>1, <1>2, <1>3, <1>4, <1>5 DEF AdmissionInv

-----------------------------------------------------------------------------
(* What the operations on a reservation do.                                  *)

\* The reservations and their ledger after a step that touches one of them.
OnlyAt(k) == \A j \in Keys : j # k => res'[j] = res[j] /\ ledger'[j] = ledger[j]

\* What is left to show of the books after a step that touches one reservation.
LEMMA OneReservation ==
    ASSUME TypeOK, LedgerKept, NEW k \in Keys,
           NEW row \in ResType, NEW entries \in [Kinds -> Entry],
           res' = [res EXCEPT ![k] = row], ledger' = [ledger EXCEPT ![k] = entries], KeptAt(k)'
    PROVE  /\ res' \in [Keys -> ResType] /\ ledger' \in [Keys -> [Kinds -> Entry]]
           /\ LedgerKept' /\ OnlyAt(k)
<1>1. res \in [Keys -> ResType] /\ ledger \in [Keys -> [Kinds -> Entry]]
  BY DEF TypeOK
<1>2. res' \in [Keys -> ResType] /\ ledger' \in [Keys -> [Kinds -> Entry]] /\ OnlyAt(k)
  BY <1>1 DEF OnlyAt
<1>3. ASSUME NEW j \in Keys, j # k PROVE KeptAt(j)'
  BY <1>2, <1>3 DEF LedgerKept, KeptAt, OnlyAt
<1>4. \A j \in Keys : KeptAt(j)'
  BY <1>3
<1>5. LedgerKept'
  BY <1>4 DEF LedgerKept
<1> QED
  BY <1>2, <1>5

\* Settling a reservation that is open closes it at the given amount; any other
\* is left alone.
LEMMA SettleKept ==
    ASSUME TypeOK, LedgerKept, NEW k \in Keys, NEW actual \in Int, NEW at \in Nat,
           Settle(k, actual, at)
    PROVE  /\ res' \in [Keys -> ResType] /\ ledger' \in [Keys -> [Kinds -> Entry]]
           /\ LedgerKept' /\ OnlyAt(k)
           /\ res[k].status = "reserved" => res'[k].status = "reconciled" /\ res'[k].actual = actual
           /\ res[k].status # "reserved" => res' = res /\ ledger' = ledger
<1>1. res \in [Keys -> ResType] /\ ledger \in [Keys -> [Kinds -> Entry]] /\ KeptAt(k)
  BY DEF TypeOK, LedgerKept
<1>2. CASE res[k].status # "reserved"
  BY <1>1, <1>2 DEF Settle, OnlyAt, LedgerKept, KeptAt
<1>3. CASE res[k].status = "reserved"
  <2> DEFINE row == [res[k] EXCEPT !.status = "reconciled", !.actual = actual]
             entries == [ledger[k] EXCEPT !["reconcile"] =
                            [posted |-> TRUE, amount |-> actual - res[k].reserved, cycle |-> at]]
  <2>1. row \in ResType /\ entries \in [Kinds -> Entry]
    <3>1. row \in ResType
      BY <1>1 DEF ResType
    <3>2. [posted |-> TRUE, amount |-> actual - res[k].reserved, cycle |-> at] \in Entry
      BY <1>1 DEF ResType, Entry
    <3>3. entries \in [Kinds -> Entry]
      BY <1>1, <3>2
    <3> QED
      BY <3>1, <3>3
  <2>2. ~ledger[k]["reconcile"].posted
    BY <1>1, <1>3 DEF KeptAt
  <2>3. res' = [res EXCEPT ![k] = row] /\ ledger' = [ledger EXCEPT ![k] = entries]
    BY <1>1, <1>3, <2>2 DEF Settle, Post, ResType
  <2>4. res'[k] = row /\ ledger'[k] = entries
    BY <1>1, <2>3
  <2>5. /\ row.status = "reconciled" /\ row.actual = actual /\ row.reserved = res[k].reserved
        /\ entries["reserve"] = ledger[k]["reserve"] /\ entries["release"] = ledger[k]["release"]
        /\ entries["reconcile"] = [posted |-> TRUE, amount |-> actual - res[k].reserved, cycle |-> at]
    BY <1>1 DEF ResType, Kinds
  <2> HIDE DEF row, entries
  <2>6. KeptAt(k)'
    BY <1>1, <1>3, <2>4, <2>5 DEF KeptAt
  <2> QED
    BY <1>3, <2>1, <2>3, <2>4, <2>5, <2>6, OneReservation
<1> QED
  BY <1>2, <1>3

\* An inserted reservation is open at its amount, or blocked at none.
LEMMA InsertKept ==
    ASSUME TypeOK, LedgerKept, NEW k \in Keys, NEW amount \in Int, NEW exceeded \in BOOLEAN,
           NEW at \in Nat, res[k].status = "none", Insert(k, amount, exceeded, at)
    PROVE  /\ res' \in [Keys -> ResType] /\ ledger' \in [Keys -> [Kinds -> Entry]]
           /\ LedgerKept' /\ OnlyAt(k)
<1>1. res \in [Keys -> ResType] /\ ledger \in [Keys -> [Kinds -> Entry]] /\ KeptAt(k)
  BY DEF TypeOK, LedgerKept
<1> DEFINE row == [status |-> IF exceeded THEN "blocked" ELSE "reserved",
                   reserved |-> IF exceeded THEN 0 ELSE amount, actual |-> 0, cycle |-> at]
           entry == [posted |-> TRUE, amount |-> amount, cycle |-> at]
           entries == IF exceeded THEN ledger[k] ELSE [ledger[k] EXCEPT !["reserve"] = entry]
<1>2. row \in ResType /\ entry \in Entry
  BY <1>1 DEF ResType, Entry
<1>3. entries \in [Kinds -> Entry]
  BY <1>1, <1>2
<1>4. ~ledger[k]["reserve"].posted
  BY <1>1 DEF KeptAt
<1>5. res' = [res EXCEPT ![k] = row] /\ ledger' = [ledger EXCEPT ![k] = entries]
  BY <1>1, <1>4 DEF Insert, Post
<1>6. res'[k] = row /\ ledger'[k] = entries
  BY <1>1, <1>5
<1>7. /\ exceeded => row.status = "blocked" /\ row.reserved = 0 /\ entries = ledger[k]
      /\ ~exceeded => /\ row.status = "reserved" /\ row.reserved = amount
                      /\ entries["reserve"].posted /\ entries["reserve"].amount = amount
                      /\ entries["reconcile"] = ledger[k]["reconcile"]
                      /\ entries["release"] = ledger[k]["release"]
  BY <1>1 DEF Kinds
<1> HIDE DEF row, entries, entry
<1>8. KeptAt(k)'
  BY <1>1, <1>6, <1>7 DEF KeptAt
<1> QED
  BY <1>2, <1>3, <1>5, <1>8, OneReservation

\* A released orphan is closed at nothing.
LEMMA ReleaseKept ==
    ASSUME TypeOK, LedgerKept, NEW k \in Keys, ReleaseOrphan(k)
    PROVE  /\ res' \in [Keys -> ResType] /\ ledger' \in [Keys -> [Kinds -> Entry]]
           /\ LedgerKept' /\ OnlyAt(k) /\ res'[k].status = "released"
<1>1. /\ res \in [Keys -> ResType] /\ ledger \in [Keys -> [Kinds -> Entry]] /\ KeptAt(k) /\ cycle \in Nat
      /\ res[k].status = "reserved"
  BY DEF TypeOK, LedgerKept, ReleaseOrphan
<1> DEFINE row == [status |-> "released", reserved |-> res[k].reserved, actual |-> 0, cycle |-> res[k].cycle]
           entry == [posted |-> TRUE, amount |-> -res[k].reserved, cycle |-> cycle]
           entries == [ledger[k] EXCEPT !["release"] = entry]
<1>2. row \in ResType /\ entry \in Entry
  <2>1. row \in ResType /\ res[k].reserved \in Int
    BY <1>1 DEF ResType
  <2>2. entry \in Entry
    BY <1>1, <2>1 DEF Entry
  <2> QED
    BY <2>1, <2>2
<1>3. entries \in [Kinds -> Entry]
  BY <1>1, <1>2
<1>4. ~ledger[k]["release"].posted
  BY <1>1 DEF KeptAt
<1>5. res' = [res EXCEPT ![k] = row] /\ ledger' = [ledger EXCEPT ![k] = entries]
  BY <1>1, <1>4 DEF ReleaseOrphan, Post
<1>6. res'[k] = row /\ ledger'[k] = entries
  BY <1>1, <1>5
<1>7. /\ row.status = "released" /\ row.reserved = res[k].reserved
      /\ entries["release"].posted /\ entries["release"].amount = -res[k].reserved
      /\ entries["reconcile"] = ledger[k]["reconcile"] /\ entries["reserve"] = ledger[k]["reserve"]
  BY <1>1 DEF ResType, Kinds
<1> HIDE DEF row, entries, entry
<1>8. KeptAt(k)'
  BY <1>1, <1>6, <1>7 DEF KeptAt
<1> QED
  BY <1>2, <1>3, <1>5, <1>6, <1>7, <1>8, OneReservation

\* An extension raises an open reservation and its entry by the same amount.
LEMMA ExtendKept ==
    ASSUME TypeOK, LedgerKept, NEW r \in Requests, res[Key(r)].status = "reserved", Extend(r)
    PROVE  /\ res' \in [Keys -> ResType] /\ ledger' \in [Keys -> [Kinds -> Entry]]
           /\ LedgerKept' /\ OnlyAt(Key(r)) /\ res'[Key(r)].status = "reserved"
<1>0. run \in [Requests -> RunType]
  BY DEF TypeOK
<1>1. PICK k \in Keys : k = Key(r)
  BY <1>0, KeyNames DEF Key, RunType
<1>2. res \in [Keys -> ResType] /\ ledger \in [Keys -> [Kinds -> Entry]] /\ KeptAt(k)
  BY <1>1 DEF TypeOK, LedgerKept
<1>3. PICK more \in Int : more = Additional(r)
  BY <1>0, <1>1, <1>2, ConstantsAreNat DEF Additional, RunType, ResType
<1> DEFINE row == [res[k] EXCEPT !.reserved = @ + more]
           entry == [ledger[k]["reserve"] EXCEPT !.amount = @ + more]
           entries == [ledger[k] EXCEPT !["reserve"] = entry]
<1>4. ledger[k]["reserve"] \in Entry /\ res[k] \in ResType
  BY <1>1, <1>2 DEF Kinds
<1>5. row \in ResType /\ entry \in Entry
  BY <1>3, <1>4 DEF ResType, Entry
<1>6. entries \in [Kinds -> Entry]
  BY <1>1, <1>2, <1>5
<1>7. res' = [res EXCEPT ![k] = row] /\ ledger' = [ledger EXCEPT ![k] = entries]
  BY <1>1, <1>2, <1>3 DEF Extend
<1>8. res'[k] = row /\ ledger'[k] = entries
  BY <1>1, <1>2, <1>7
<1>9. /\ row.status = "reserved" /\ row.reserved = res[k].reserved + more
      /\ entries["reserve"].posted <=> ledger[k]["reserve"].posted
      /\ entries["reserve"].amount = ledger[k]["reserve"].amount + more
      /\ entries["reconcile"] = ledger[k]["reconcile"] /\ entries["release"] = ledger[k]["release"]
  BY <1>1, <1>2, <1>4 DEF ResType, Kinds, Entry
<1> HIDE DEF row, entries, entry
<1>10. KeptAt(k)'
  BY <1>1, <1>2, <1>8, <1>9 DEF KeptAt
<1> QED
  BY <1>1, <1>5, <1>6, <1>7, <1>8, <1>9, <1>10, OneReservation

-----------------------------------------------------------------------------
(* Steps of the preparers.                                                   *)

\* A preparer that goes on with its attempt, or ends, leaves the others as they
\* are and the lock with its holder.
LEMMA PreparerMoves ==
    ASSUME AdmissionInv, NEW p \in Preparers, NEW row \in PrepType, prep' = [prep EXCEPT ![p] = row],
           \/ row = Idle
           \/ /\ row.pc # "idle" /\ prep[p].pc # "idle"
              /\ row.req = prep[p].req /\ row.attempt = prep[p].attempt,
           IF row.pc = "checked" THEN lock = Free /\ lock' = p ELSE lock' = IF lock = p THEN Free ELSE lock,
           \A r \in Requests : /\ intent'[r].attempt = intent[r].attempt
                               /\ intent'[r].state = "admitted" => intent[r].state = "admitted",
           \A q \in Preparers : prep'[q].pc = "checked" => res'[<<prep'[q].req, 0>>].status = "none"
    PROVE  /\ prep' \in [Preparers -> PrepType] /\ lock' \in Preparers \cup {Free}
           /\ \A q \in Preparers : lock' = q <=> prep'[q].pc = "checked"
           /\ PreparersDistinct' /\ CheckedIsNew' /\ AdmittedAlone'
<1> USE DEF AdmissionInv
<1>1. /\ prep \in [Preparers -> PrepType] /\ lock \in Preparers \cup {Free}
      /\ \A q \in Preparers : lock = q <=> prep[q].pc = "checked"
  BY DEF TypeOK
<1>2. prep' \in [Preparers -> PrepType] /\ \A q \in Preparers : prep'[q] = IF q = p THEN row ELSE prep[q]
  BY <1>1
<1>3. lock' \in Preparers \cup {Free} /\ \A q \in Preparers : lock' = q <=> prep'[q].pc = "checked"
  BY <1>1, <1>2, SentinelAssumption DEF Idle
<1>4. CheckedIsNew'
  BY DEF CheckedIsNew
<1>5. \A q \in Preparers : \/ prep'[q].pc = "idle" /\ prep'[q].req = NoRequest
                           \/ /\ prep'[q].pc # "idle" /\ prep[q].pc # "idle"
                              /\ prep'[q].req = prep[q].req /\ prep'[q].attempt = prep[q].attempt
  BY <1>2 DEF PreparersDistinct, Idle
<1>6. \A q \in Preparers : prep[q].pc # "idle" => prep[q].req \in Requests
  BY <1>1 DEF PreparersDistinct, PrepType
<1>7. PreparersDistinct'
  BY <1>5, <1>6, SentinelAssumption DEF PreparersDistinct
<1>8. AdmittedAlone'
  BY <1>5, <1>6, SentinelAssumption DEF AdmittedAlone
<1> QED
  BY <1>2, <1>3, <1>4, <1>7, <1>8

\* A step of a preparer that writes no row keeps the invariant.
LEMMA PreparerOnly ==
    ASSUME AdmissionInv, NEW p \in Preparers, NEW row \in PrepType, prep' = [prep EXCEPT ![p] = row],
           \/ row = Idle
           \/ /\ row.pc # "idle" /\ prep[p].pc # "idle"
              /\ row.req = prep[p].req /\ row.attempt = prep[p].attempt,
           IF row.pc = "checked" THEN /\ lock = Free /\ lock' = p
                                      /\ res[<<row.req, 0>>].status = "none"
                                 ELSE lock' = IF lock = p THEN Free ELSE lock,
           UNCHANGED <<intent, run, res, ledger, recovery, cycle>>, errors' \in Nat
    PROVE  AdmissionInv'
<1> USE DEF AdmissionInv
<1>1. prep \in [Preparers -> PrepType]
  BY DEF TypeOK
<1>2. \A q \in Preparers : prep'[q].pc = "checked" => res'[<<prep'[q].req, 0>>].status = "none"
  BY <1>1 DEF CheckedIsNew
<1>3. /\ prep' \in [Preparers -> PrepType] /\ lock' \in Preparers \cup {Free}
      /\ \A q \in Preparers : lock' = q <=> prep'[q].pc = "checked"
      /\ PreparersDistinct' /\ CheckedIsNew' /\ AdmittedAlone'
  BY <1>2, PreparerMoves
<1>4. TypeOK'
  BY <1>3 DEF TypeOK
<1>5. LedgerKept' /\ RecoveryHolds' /\ IntentMatchesRun' 
  BY DEF LedgerKept, KeptAt, RecoveryHolds, IntentMatchesRun
<1>6. RunIsFunded' /\ EndedIsSettled'
  BY DEF RunIsFunded, EndedIsSettled, Key, FirstOfItsKind
<1> QED
  BY <1>3, <1>4, <1>5, <1>6

\* A preparer under way has a request; its row keeps request and attempt when
\* only the program counter moves.
LEMMA UnderWay ==
    ASSUME AdmissionInv, NEW p \in Preparers, prep[p].pc # "idle"
    PROVE  /\ prep[p] \in PrepType /\ prep[p].req \in Requests /\ <<prep[p].req, 0>> \in Keys
           /\ \A pc \in {"began", "checked", "reserved", "failing", "superseded", "closing"} :
                 LET row == [prep[p] EXCEPT !.pc = pc]
                 IN  /\ row \in PrepType /\ row.pc = pc
                     /\ row.req = prep[p].req /\ row.attempt = prep[p].attempt
<1>1. prep[p] \in PrepType
  BY DEF AdmissionInv, TypeOK
<1>2. prep[p].req \in Requests
  BY <1>1 DEF AdmissionInv, PreparersDistinct, PrepType
<1>3. <<prep[p].req, 0>> \in Keys
  BY <1>2, KeyNames, ConstantsAreNat
<1> QED
  BY <1>1, <1>2, <1>3 DEF PrepType

\* Abandoning, failing, reusing and checking write no row.
LEMMA PreparerSteps ==
    ASSUME AdmissionInv, NEW p \in Preparers,
           Abandon(p) \/ PreparationFails(p) \/ ReuseReservation(p) \/ CheckBudget(p)
    PROVE  AdmissionInv'
<1>a. /\ prep \in [Preparers -> PrepType] /\ errors \in Nat
      /\ \A q \in Preparers : lock = q <=> prep[q].pc = "checked"
  BY DEF AdmissionInv, TypeOK
<1>1. CASE Abandon(p)
  <2>1. Idle \in PrepType /\ Idle.pc # "checked"
    BY DEF Idle, PrepType
  <2>2. errors' \in Nat
    BY <1>1, <1>a DEF Abandon
  <2> QED
    BY <1>1, <2>1, <2>2, PreparerOnly DEF Abandon
<1>2. CASE PreparationFails(p)
  <2> DEFINE row == [prep[p] EXCEPT !.pc = "failing"]
  <2>1. /\ prep[p].pc # "idle" /\ prep' = [prep EXCEPT ![p] = row] /\ errors' \in Nat
        /\ lock' = lock /\ lock # p
    BY <1>2, <1>a DEF PreparationFails, Go
  <2>2. row \in PrepType /\ row.pc = "failing" /\ row.req = prep[p].req /\ row.attempt = prep[p].attempt
    BY <2>1, UnderWay
  <2> HIDE DEF row
  <2> QED
    BY <1>2, <2>1, <2>2, PreparerOnly DEF PreparationFails
<1>3. CASE ReuseReservation(p)
  <2>1. PICK pc \in {"reserved", "failing"} : prep' = [prep EXCEPT ![p].pc = pc]
    BY <1>3 DEF ReuseReservation, Go
  <2> DEFINE row == [prep[p] EXCEPT !.pc = pc]
  <2>2. prep[p].pc # "idle" /\ prep' = [prep EXCEPT ![p] = row] /\ lock' = lock /\ lock # p /\ errors' \in Nat
    BY <1>3, <1>a, <2>1 DEF ReuseReservation
  <2>3. row \in PrepType /\ row.pc = pc /\ row.req = prep[p].req /\ row.attempt = prep[p].attempt
    BY <1>a, <2>1 DEF PrepType
  <2> HIDE DEF row
  <2> QED
    BY <1>3, <2>2, <2>3, PreparerOnly DEF ReuseReservation
<1>4. CASE CheckBudget(p)
  <2>1. PICK over \in BOOLEAN : over = Exceeds(Estimate)
    BY ExceedsIsBoolean
  <2>a. PICK at \in prep[p].at .. cycle :
             prep' = [prep EXCEPT ![p].pc = "checked", ![p].exceeded = over, ![p].at = at]
    BY <1>4, <2>1 DEF CheckBudget
  <2>b. at \in Nat
    BY <1>a DEF PrepType, AdmissionInv, TypeOK
  <2> DEFINE row == [prep[p] EXCEPT !.pc = "checked", !.exceeded = over, !.at = at]
  <2>2. /\ prep[p].pc = "began" /\ prep' = [prep EXCEPT ![p] = row] /\ lock = Free /\ lock' = p
        /\ errors' \in Nat /\ res[<<prep[p].req, 0>>].status = "none"
    BY <1>4, <1>a, <2>a DEF CheckBudget, LockFree
  <2>3. row \in PrepType /\ row.pc = "checked" /\ row.req = prep[p].req /\ row.attempt = prep[p].attempt
    BY <2>1, <2>b, <1>a DEF PrepType
  <2> HIDE DEF row
  <2> QED
    BY <1>4, <2>2, <2>3, PreparerOnly DEF CheckBudget
<1> QED
  BY <1>1, <1>2, <1>3, <1>4

\* A step that touches the reservation of no run that the two properties of runs
\* are about keeps them.
LEMMA BooksElsewhere ==
    ASSUME AdmissionInv, NEW k \in Keys, OnlyAt(k), run' = run,
           \A r \in Requests : intent'[r].attempt = intent[r].attempt,
           \A r \in Requests : k = <<r, 0>> /\ run[r].state # "none" /\ intent[r].attempt = 1
                               => res'[k] = res[k]
    PROVE  RunIsFunded' /\ EndedIsSettled'
<1>1. run \in [Requests -> RunType]
  BY DEF AdmissionInv, TypeOK
<1>2. ASSUME NEW r \in Requests, run[r].state # "none", FirstOfItsKind(r)'
      PROVE  FirstOfItsKind(r) /\ Key(r)' = Key(r) /\ res'[Key(r)] = res[Key(r)]
  <2>1. FirstOfItsKind(r) /\ Key(r)' = Key(r) /\ Key(r) = <<r, 0>> /\ Key(r) \in Keys
    BY <1>1, <1>2, KeyNames, ConstantsAreNat DEF FirstOfItsKind, Key
  <2> QED
    BY <1>2, <2>1 DEF FirstOfItsKind, OnlyAt
<1>3. RunIsFunded'
  BY <1>1, <1>2 DEF AdmissionInv, RunIsFunded, Active
<1>4. EndedIsSettled'
  BY <1>1, <1>2 DEF AdmissionInv, EndedIsSettled, Ended
<1> QED
  BY <1>3, <1>4

\* reserve's insert, under the lock.
LEMMA InsertStep ==
    ASSUME AdmissionInv, NEW p \in Preparers, InsertReservation(p)
    PROVE  AdmissionInv'
<1> USE DEF AdmissionInv
<1>1. /\ prep \in [Preparers -> PrepType] /\ prep[p].pc = "checked" /\ lock = p /\ lock' = Free
      /\ \A q \in Preparers : lock = q <=> prep[q].pc = "checked"
  BY DEF TypeOK, InsertReservation
<1>2. PICK k \in Keys : k = <<prep[p].req, 0>>
  BY <1>1, UnderWay
<1>3. prep[p].exceeded \in BOOLEAN /\ prep[p].at \in Nat /\ res[k].status = "none"
  BY <1>1, <1>2 DEF PrepType, CheckedIsNew
<1>4. /\ res' \in [Keys -> ResType] /\ ledger' \in [Keys -> [Kinds -> Entry]]
      /\ LedgerKept' /\ OnlyAt(k)
  BY <1>2, <1>3, InsertKept, ConstantsAreNat DEF InsertReservation
<1>5. PICK pc \in {"failing", "reserved"} : prep' = [prep EXCEPT ![p].pc = pc]
  BY DEF InsertReservation, Go
<1> DEFINE row == [prep[p] EXCEPT !.pc = pc]
<1>6. /\ row \in PrepType /\ row.pc = pc /\ row.req = prep[p].req /\ row.attempt = prep[p].attempt
      /\ prep' = [prep EXCEPT ![p] = row]
  BY <1>1, <1>5 DEF PrepType
<1> HIDE DEF row
<1>7. \A q \in Preparers : prep'[q].pc # "checked"
  BY <1>1, <1>5, <1>6
<1>8. /\ prep' \in [Preparers -> PrepType] /\ lock' \in Preparers \cup {Free}
      /\ \A q \in Preparers : lock' = q <=> prep'[q].pc = "checked"
      /\ PreparersDistinct' /\ CheckedIsNew' /\ AdmittedAlone'
  BY <1>1, <1>5, <1>6, <1>7, PreparerMoves DEF InsertReservation
<1>9. TypeOK'
  BY <1>4, <1>8 DEF TypeOK, InsertReservation
<1>10. RecoveryHolds' /\ IntentMatchesRun'
  BY DEF RecoveryHolds, IntentMatchesRun, InsertReservation
<1>11. \A r \in Requests : k = <<r, 0>> => ~(run[r].state # "none" /\ intent[r].attempt = 1)
  BY <1>1, <1>2 DEF AdmittedAlone, IntentMatchesRun
<1>12. RunIsFunded' /\ EndedIsSettled'
  BY <1>4, <1>11, BooksElsewhere DEF InsertReservation
<1> QED
  BY <1>4, <1>8, <1>9, <1>10, <1>12

\* The catch block's settlement by request id.
LEMMA ReleaseFailedStep ==
    ASSUME AdmissionInv, NEW p \in Preparers, ReleaseFailed(p)
    PROVE  AdmissionInv'
<1> USE DEF AdmissionInv
<1>1. /\ prep \in [Preparers -> PrepType] /\ prep[p].pc \in {"failing", "superseded"}
      /\ \A q \in Preparers : lock = q <=> prep[q].pc = "checked"
      /\ res \in [Keys -> ResType] /\ ledger \in [Keys -> [Kinds -> Entry]]
  BY DEF TypeOK, ReleaseFailed
<1>2. PICK k \in Keys : k = <<prep[p].req, 0>>
  BY <1>1, UnderWay
<1>3. /\ res' \in [Keys -> ResType] /\ ledger' \in [Keys -> [Kinds -> Entry]]
      /\ LedgerKept' /\ OnlyAt(k) /\ (res[k].status = "none" => res' = res)
  <2>1. CASE prep[p].pc = "superseded"
    BY <1>1, <2>1 DEF ReleaseFailed, OnlyAt, LedgerKept, KeptAt
  <2>2. CASE prep[p].pc = "failing"
    <3>1. res[k].cycle \in Nat /\ Settle(k, 0, res[k].cycle)
      BY <1>1, <1>2, <2>2 DEF ReleaseFailed, Reconcile, ResType
    <3> QED
      BY <3>1, SettleKept
  <2> QED
    BY <1>1, <2>1, <2>2
<1> DEFINE row == [prep[p] EXCEPT !.pc = "closing"]
<1>4. /\ row \in PrepType /\ row.pc = "closing" /\ row.req = prep[p].req /\ row.attempt = prep[p].attempt
      /\ prep' = [prep EXCEPT ![p] = row] /\ lock' = lock /\ lock # p
  BY <1>1 DEF PrepType, ReleaseFailed, Go
<1> HIDE DEF row
<1>5. ASSUME NEW q \in Preparers, prep'[q].pc = "checked"
      PROVE  res'[<<prep'[q].req, 0>>].status = "none"
  <2>1. q # p /\ prep'[q] = prep[q] /\ res[<<prep[q].req, 0>>].status = "none" /\ <<prep[q].req, 0>> \in Keys
    BY <1>1, <1>4, <1>5, UnderWay DEF CheckedIsNew
  <2> QED
    BY <1>3, <2>1 DEF OnlyAt
<1>6. /\ prep' \in [Preparers -> PrepType] /\ lock' \in Preparers \cup {Free}
      /\ \A q \in Preparers : lock' = q <=> prep'[q].pc = "checked"
      /\ PreparersDistinct' /\ CheckedIsNew' /\ AdmittedAlone'
  BY <1>1, <1>4, <1>5, PreparerMoves DEF ReleaseFailed
<1>7. TypeOK'
  BY <1>3, <1>6 DEF TypeOK, ReleaseFailed
<1>8. RecoveryHolds' /\ IntentMatchesRun'
  BY DEF RecoveryHolds, IntentMatchesRun, ReleaseFailed
<1>9. \A r \in Requests : k = <<r, 0>> => ~(run[r].state # "none" /\ intent[r].attempt = 1)
  BY <1>1, <1>2 DEF AdmittedAlone, IntentMatchesRun
<1>10. RunIsFunded' /\ EndedIsSettled'
  BY <1>3, <1>9, BooksElsewhere DEF ReleaseFailed
<1> QED
  BY <1>3, <1>6, <1>7, <1>8, <1>10

\* A step that leaves runs, reservations and attempts alone keeps the two
\* properties of runs, and the books.
LEMMA RunsUntouched ==
    ASSUME AdmissionInv, UNCHANGED <<run, res, ledger, recovery>>,
           \A r \in Requests : intent'[r].attempt = intent[r].attempt
    PROVE  RunIsFunded' /\ EndedIsSettled' /\ LedgerKept' /\ RecoveryHolds'
<1>1. RunIsFunded' /\ EndedIsSettled'
  BY DEF AdmissionInv, RunIsFunded, EndedIsSettled, Key, FirstOfItsKind
<1>2. LedgerKept' /\ RecoveryHolds'
  BY DEF AdmissionInv, LedgerKept, KeptAt, RecoveryHolds
<1> QED
  BY <1>1, <1>2

\* failAdmission of the own attempt.
LEMMA FailAdmissionStep ==
    ASSUME AdmissionInv, NEW p \in Preparers, FailAdmission(p)
    PROVE  AdmissionInv'
<1> USE DEF AdmissionInv
<1>1. /\ prep \in [Preparers -> PrepType] /\ prep[p].pc = "closing" /\ lock' = lock
      /\ \A q \in Preparers : lock = q <=> prep[q].pc = "checked"
      /\ intent \in [Requests -> IntentType] /\ prep' = [prep EXCEPT ![p] = Idle]
  BY DEF TypeOK, FailAdmission
<1>2. Idle \in PrepType /\ Idle.pc = "idle" /\ lock # p /\ prep[p].req \in Requests
  BY <1>1, UnderWay DEF Idle, PrepType
<1>3. /\ intent' \in [Requests -> IntentType]
      /\ \A r \in Requests : /\ intent'[r].attempt = intent[r].attempt
                             /\ intent'[r].state = "admitted" <=> intent[r].state = "admitted"
  BY <1>1, <1>2 DEF FailAdmission, CurrentAttempt, IntentType
<1>4. \A q \in Preparers : prep'[q].pc = "checked" => res'[<<prep'[q].req, 0>>].status = "none"
  BY <1>1, <1>2 DEF FailAdmission, CheckedIsNew
<1>5. /\ prep' \in [Preparers -> PrepType] /\ lock' \in Preparers \cup {Free}
      /\ \A q \in Preparers : lock' = q <=> prep'[q].pc = "checked"
      /\ PreparersDistinct' /\ CheckedIsNew' /\ AdmittedAlone'
  BY <1>1, <1>2, <1>3, <1>4, PreparerMoves
<1>6. TypeOK'
  BY <1>3, <1>5 DEF TypeOK, FailAdmission
<1>7. IntentMatchesRun'
  BY <1>3 DEF IntentMatchesRun, FailAdmission
<1>8. RunIsFunded' /\ EndedIsSettled' /\ LedgerKept' /\ RecoveryHolds'
  BY <1>3, RunsUntouched DEF FailAdmission
<1> QED
  BY <1>5, <1>6, <1>7, <1>8

\* admit: the refusals write no row; the admission ends the preparer, which is
\* the only one when its attempt is the first.
LEMMA AdmitStep ==
    ASSUME AdmissionInv, NEW p \in Preparers, Admit(p)
    PROVE  AdmissionInv'
<1> USE DEF AdmissionInv
<1>1. /\ prep \in [Preparers -> PrepType] /\ prep[p].pc = "reserved" /\ lock' = lock
      /\ \A q \in Preparers : lock = q <=> prep[q].pc = "checked"
      /\ intent \in [Requests -> IntentType] /\ run \in [Requests -> RunType]
      /\ errors' \in Nat
  BY DEF TypeOK, Admit
<1>2. PICK r \in Requests : r = prep[p].req
  BY <1>1, UnderWay
<1>3. lock # p /\ Idle \in PrepType /\ Idle.pc = "idle"
  BY <1>1 DEF Idle, PrepType
<1>4. CASE UNCHANGED <<intent, run>> /\ prep' = [prep EXCEPT ![p] = Idle]
  BY <1>1, <1>3, <1>4, PreparerOnly DEF Admit
<1>5. ASSUME UNCHANGED <<intent, run>>, NEW pc \in {"failing", "superseded"}, Go(p, pc)
      PROVE  AdmissionInv'
  <2> DEFINE row == [prep[p] EXCEPT !.pc = pc]
  <2>1. /\ row \in PrepType /\ row.pc = pc /\ row.req = prep[p].req /\ row.attempt = prep[p].attempt
        /\ prep' = [prep EXCEPT ![p] = row]
    BY <1>1, <1>5 DEF PrepType, Go
  <2> HIDE DEF row
  <2> QED
    BY <1>1, <1>3, <1>5, <2>1, PreparerOnly DEF Admit
<1>6. CASE /\ CurrentAttempt(p) /\ res[<<r, 0>>].status = "reserved"
           /\ run' = [run EXCEPT ![r].state = "running"]
           /\ intent' = [intent EXCEPT ![r].state = "admitted", ![r].leased = "none"]
           /\ prep' = [prep EXCEPT ![p] = Idle]
  <2>1. /\ intent[r].state = "preparing" /\ intent[r].attempt = prep[p].attempt
        /\ run[r].state = "none" /\ recovery[r] = "none"
    BY <1>2, <1>6 DEF CurrentAttempt, IntentMatchesRun, RecoveryHolds
  <2>2. /\ intent' \in [Requests -> IntentType]
        /\ \A q \in Requests : /\ intent'[q].attempt = intent[q].attempt
                               /\ intent'[q].state = "admitted" <=> q = r \/ intent[q].state = "admitted"
    BY <1>1, <1>6 DEF IntentType
  <2>3. /\ run' \in [Requests -> RunType] /\ run'[r].state = "running"
        /\ \A q \in Requests : run'[q].generation = run[q].generation /\ (q # r => run'[q] = run[q])
    BY <1>1, <1>6 DEF RunType, Active
  <2>4. /\ prep' \in [Preparers -> PrepType] /\ \A q \in Preparers : prep'[q] = IF q = p THEN Idle ELSE prep[q]
    BY <1>1, <1>3, <1>6
  <2>5. UNCHANGED <<res, ledger, recovery, lock, errors, cycle>>
    BY DEF Admit
  <2>6. TypeOK'
    BY <1>1, <1>3, <2>2, <2>3, <2>4, <2>5 DEF TypeOK
  <2>7. PreparersDistinct'
    <3>1. \A q \in Preparers : (prep'[q].pc = "idle" /\ prep'[q].req = NoRequest) \/ prep'[q] = prep[q]
      BY <2>4 DEF Idle
    <3>2. \A q \in Preparers : prep[q].pc # "idle" => prep[q].req \in Requests
      BY UnderWay
    <3> QED
      BY <2>2, <3>1, <3>2 DEF PreparersDistinct
  <2>8. CheckedIsNew' /\ LedgerKept'
    BY <1>3, <2>4, <2>5 DEF CheckedIsNew, LedgerKept, KeptAt
  <2>9. RecoveryHolds' /\ IntentMatchesRun'
    BY <2>1, <2>2, <2>3, <2>5 DEF RecoveryHolds, IntentMatchesRun
  <2>10. AdmittedAlone'
    <3>1. SUFFICES ASSUME NEW s \in Requests, intent'[s].state = "admitted", intent'[s].attempt = 1,
                          NEW q \in Preparers, prep'[q].req = s
                   PROVE  FALSE
      BY DEF AdmittedAlone
    <3>2. q # p /\ prep[q].req = s /\ prep[q].pc # "idle"
      BY <1>1, <2>4, <3>1, SentinelAssumption DEF Idle, PreparersDistinct
    <3>3. CASE s # r
      BY <2>2, <3>1, <3>2, <3>3 DEF AdmittedAlone
    <3>4. CASE s = r
      <4>1. prep[q].attempt \in 1 .. 1 /\ prep[p].attempt = 1
        BY <2>1, <2>2, <3>1, <3>2, <3>4 DEF PreparersDistinct
      <4> QED
        BY <1>1, <1>2, <3>2, <3>4, <4>1 DEF PreparersDistinct
    <3> QED
      BY <3>3, <3>4
  <2>11. RunIsFunded'
    BY <1>6, <2>2, <2>3, <2>5 DEF RunIsFunded, Key, FirstOfItsKind
  <2>12. EndedIsSettled'
    BY <2>2, <2>3, <2>5 DEF EndedIsSettled, Key, FirstOfItsKind, Ended
  <2> QED
    BY <2>6, <2>7, <2>8, <2>9, <2>10, <2>11, <2>12
<1> QED
  BY <1>2, <1>4, <1>5, <1>6 DEF Admit

\* beginAdmission starts a new attempt of a request without a run.
LEMMA BeginStep ==
    ASSUME AdmissionInv, NEW p \in Preparers, NEW r \in Requests, BeginAdmission(p, r)
    PROVE  AdmissionInv'
<1> USE DEF AdmissionInv
<1>1. /\ prep \in [Preparers -> PrepType] /\ prep[p].pc = "idle" /\ UNCHANGED <<run, res, ledger, recovery, lock, errors, cycle>>
      /\ \A q \in Preparers : lock = q <=> prep[q].pc = "checked"
      /\ intent \in [Requests -> IntentType] /\ intent[r].state \notin {"admitted", "cancelled"}
  BY DEF TypeOK, BeginAdmission, MayBegin
<1>2. PICK n \in Nat : n = intent[r].attempt
  BY <1>1 DEF IntentType
<1> DEFINE row == [pc |-> "began", req |-> r, attempt |-> n + 1, exceeded |-> FALSE, at |-> cycle]
           new == [state |-> "preparing", attempt |-> n + 1, leased |-> "live"]
<1>3. row \in PrepType /\ new \in IntentType
  BY <1>2 DEF PrepType, IntentType, TypeOK
<1>4. prep' = [prep EXCEPT ![p] = row] /\ intent' = [intent EXCEPT ![r] = new]
  BY <1>2 DEF BeginAdmission
<1>5. /\ prep' \in [Preparers -> PrepType] /\ \A q \in Preparers : prep'[q] = IF q = p THEN row ELSE prep[q]
      /\ intent' \in [Requests -> IntentType] /\ \A q \in Requests : intent'[q] = IF q = r THEN new ELSE intent[q]
  BY <1>1, <1>3, <1>4
<1>6. /\ row.pc = "began" /\ row.req = r /\ row.attempt = n + 1
      /\ new.state = "preparing" /\ new.attempt = n + 1
  OBVIOUS
<1> HIDE DEF row, new
<1>7. TypeOK'
  BY <1>1, <1>5, <1>6 DEF TypeOK
<1>8. PreparersDistinct'
  <2>1. \A q \in Preparers : prep[q].pc # "idle" => prep[q].req \in Requests /\ prep[q].attempt \in Nat
    BY <1>1 DEF PreparersDistinct, PrepType
  <2>2. ASSUME NEW q \in Preparers
        PROVE  /\ prep'[q].pc = "idle" <=> prep'[q].req = NoRequest
               /\ prep'[q].pc # "idle" => prep'[q].attempt \in 1 .. intent'[prep'[q].req].attempt
    BY <1>2, <1>5, <1>6, <2>1, SentinelAssumption DEF PreparersDistinct
  <2>3. ASSUME NEW q \in Preparers, NEW s \in Preparers, prep'[q].pc # "idle", prep'[s].pc # "idle",
               prep'[q].req = prep'[s].req, prep'[q].attempt = prep'[s].attempt
        PROVE  q = s
    <3>1. \A t \in Preparers : t # p /\ prep[t].pc # "idle" /\ prep[t].req = r => prep[t].attempt # n + 1
      BY <1>2, <2>1 DEF PreparersDistinct
    <3> QED
      BY <1>5, <1>6, <2>3, <3>1 DEF PreparersDistinct
  <2> QED
    BY <2>2, <2>3 DEF PreparersDistinct
<1>9. CheckedIsNew' /\ LedgerKept' /\ RecoveryHolds'
  BY <1>1, <1>5, <1>6 DEF CheckedIsNew, LedgerKept, KeptAt, RecoveryHolds
<1>10. IntentMatchesRun'
  BY <1>1, <1>5, <1>6 DEF IntentMatchesRun
<1>11. AdmittedAlone'
  BY <1>5, <1>6 DEF AdmittedAlone
<1>12. run[r].state = "none"
  BY <1>1 DEF IntentMatchesRun
<1>13. RunIsFunded' /\ EndedIsSettled'
  BY <1>1, <1>5, <1>12 DEF RunIsFunded, EndedIsSettled, Key, FirstOfItsKind, Active, Ended
<1> QED
  BY <1>7, <1>8, <1>9, <1>10, <1>11, <1>13

-----------------------------------------------------------------------------
(* The sweeps and time.                                                      *)

\* What a step keeps that leaves the preparers and their attempts alone.
LEMMA PreparersUntouched ==
    ASSUME AdmissionInv, UNCHANGED <<prep, lock>>,
           \A r \in Requests : /\ intent'[r].attempt = intent[r].attempt
                               /\ intent'[r].state = "admitted" => intent[r].state = "admitted",
           \A k \in Keys : res[k].status = "none" /\ k[2] = 0 => res'[k].status = "none"
    PROVE  /\ prep' \in [Preparers -> PrepType] /\ lock' \in Preparers \cup {Free}
           /\ \A q \in Preparers : lock' = q <=> prep'[q].pc = "checked"
           /\ PreparersDistinct' /\ CheckedIsNew' /\ AdmittedAlone'
<1> USE DEF AdmissionInv
<1>1. /\ prep' \in [Preparers -> PrepType] /\ lock' \in Preparers \cup {Free}
      /\ \A q \in Preparers : lock' = q <=> prep'[q].pc = "checked"
  BY DEF TypeOK
<1>2. \A q \in Preparers : prep[q].pc # "idle" => prep[q].req \in Requests /\ <<prep[q].req, 0>> \in Keys
  BY UnderWay
<1>3. PreparersDistinct'
  BY <1>2 DEF PreparersDistinct
<1>4. CheckedIsNew'
  BY <1>2 DEF CheckedIsNew
<1>5. AdmittedAlone'
  BY DEF AdmittedAlone
<1> QED
  BY <1>1, <1>3, <1>4, <1>5

\* The lease of a preparation runs out.
LEMMA ExpireStep ==
    ASSUME AdmissionInv, NEW r \in Requests, ExpirePreparation(r)
    PROVE  AdmissionInv'
<1> USE DEF AdmissionInv
<1>1. intent \in [Requests -> IntentType]
  BY DEF TypeOK
<1>2. /\ intent' \in [Requests -> IntentType]
      /\ \A q \in Requests : intent'[q].attempt = intent[q].attempt /\ intent'[q].state = intent[q].state
  BY <1>1 DEF ExpirePreparation, IntentType
<1>3. /\ prep' \in [Preparers -> PrepType] /\ lock' \in Preparers \cup {Free}
      /\ \A q \in Preparers : lock' = q <=> prep'[q].pc = "checked"
      /\ PreparersDistinct' /\ CheckedIsNew' /\ AdmittedAlone'
  BY <1>2, PreparersUntouched DEF ExpirePreparation
<1>4. TypeOK'
  BY <1>2, <1>3 DEF TypeOK, ExpirePreparation
<1>5. IntentMatchesRun'
  BY <1>2 DEF IntentMatchesRun, ExpirePreparation
<1>6. RunIsFunded' /\ EndedIsSettled' /\ LedgerKept' /\ RecoveryHolds'
  BY <1>2, RunsUntouched DEF ExpirePreparation
<1> QED
  BY <1>3, <1>4, <1>5, <1>6

\* recoverExpiredAdmissions settles a request that has no run.
LEMMA SweepStep ==
    ASSUME AdmissionInv, NEW r \in Requests, SweepAdmission(r)
    PROVE  AdmissionInv'
<1> USE DEF AdmissionInv
<1>1. /\ intent \in [Requests -> IntentType] /\ intent[r].state = "preparing" /\ run[r].state = "none"
      /\ cycle \in Nat
  BY DEF TypeOK, SweepAdmission, IntentMatchesRun
<1>2. /\ intent' \in [Requests -> IntentType]
      /\ \A q \in Requests : /\ intent'[q].attempt = intent[q].attempt
                             /\ intent'[q].state = "admitted" <=> intent[q].state = "admitted"
  BY <1>1 DEF SweepAdmission, IntentType
<1>3. PICK k \in Keys : k = <<r, 0>>
  <2>1. <<r, 0>> \in Keys
    BY KeyNames, ConstantsAreNat
  <2> QED
    BY <2>1
<1>4. /\ res' \in [Keys -> ResType] /\ ledger' \in [Keys -> [Kinds -> Entry]]
      /\ LedgerKept' /\ OnlyAt(k) /\ (res[k].status = "none" => res' = res)
  BY <1>1, <1>3, SettleKept DEF SweepAdmission
<1>5. \A j \in Keys : res[j].status = "none" => res'[j].status = "none"
  BY <1>4 DEF OnlyAt
<1>6. /\ prep' \in [Preparers -> PrepType] /\ lock' \in Preparers \cup {Free}
      /\ \A q \in Preparers : lock' = q <=> prep'[q].pc = "checked"
      /\ PreparersDistinct' /\ CheckedIsNew' /\ AdmittedAlone'
  BY <1>2, <1>5, PreparersUntouched DEF SweepAdmission
<1>7. TypeOK'
  BY <1>2, <1>4, <1>6 DEF TypeOK, SweepAdmission
<1>8. RecoveryHolds' /\ IntentMatchesRun'
  BY <1>2 DEF RecoveryHolds, IntentMatchesRun, SweepAdmission
<1>9. RunIsFunded' /\ EndedIsSettled'
  BY <1>1, <1>2, <1>3, <1>4, BooksElsewhere DEF SweepAdmission
<1> QED
  BY <1>4, <1>6, <1>7, <1>8, <1>9

\* Maintenance releases no reservation that a first run was admitted with.
LEMMA OrphanStep ==
    ASSUME AdmissionInv, NEW k \in Keys, ReleaseOrphan(k)
    PROVE  AdmissionInv'
<1> USE DEF AdmissionInv
<1>1. /\ res' \in [Keys -> ResType] /\ ledger' \in [Keys -> [Kinds -> Entry]]
      /\ LedgerKept' /\ OnlyAt(k) /\ res[k].status = "reserved"
  BY ReleaseKept DEF ReleaseOrphan
<1>2. \A j \in Keys : res[j].status = "none" => res'[j].status = "none"
  BY <1>1 DEF OnlyAt
<1>3. /\ prep' \in [Preparers -> PrepType] /\ lock' \in Preparers \cup {Free}
      /\ \A q \in Preparers : lock' = q <=> prep'[q].pc = "checked"
      /\ PreparersDistinct' /\ CheckedIsNew' /\ AdmittedAlone'
  BY <1>2, PreparersUntouched DEF ReleaseOrphan
<1>4. TypeOK'
  BY <1>1, <1>3 DEF TypeOK, ReleaseOrphan
<1>5. RecoveryHolds' /\ IntentMatchesRun'
  BY DEF RecoveryHolds, IntentMatchesRun, ReleaseOrphan
<1>6. \A r \in Requests : k = <<r, 0>> => run[r].state = "none"
  BY DEF ReleaseOrphan, Orphan
<1>7. RunIsFunded' /\ EndedIsSettled'
  BY <1>1, <1>6, BooksElsewhere DEF ReleaseOrphan
<1> QED
  BY <1>1, <1>3, <1>4, <1>5, <1>7

\* A new accounting cycle.
LEMMA CycleStep ==
    ASSUME AdmissionInv, NextCycle
    PROVE  AdmissionInv'
<1> USE DEF AdmissionInv, NextCycle
<1>1. /\ prep' \in [Preparers -> PrepType] /\ lock' \in Preparers \cup {Free}
      /\ \A q \in Preparers : lock' = q <=> prep'[q].pc = "checked"
      /\ PreparersDistinct' /\ CheckedIsNew' /\ AdmittedAlone'
  BY PreparersUntouched
<1>2. TypeOK'
  BY <1>1 DEF TypeOK
<1>3. IntentMatchesRun' /\ RunIsFunded' /\ EndedIsSettled' /\ LedgerKept' /\ RecoveryHolds'
  BY RunsUntouched DEF IntentMatchesRun
<1> QED
  BY <1>1, <1>2, <1>3

-----------------------------------------------------------------------------
(* The worker's side of a run.                                               *)

\* What a step of run r keeps that only moves its state among the active ones.
LEMMA ActiveStep ==
    ASSUME AdmissionInv, NEW r \in Requests, NEW row \in RunType, run' = [run EXCEPT ![r] = row],
           run[r].state \in Active, row.state \in Active, row.generation = run[r].generation,
           UNCHANGED <<intent, prep, recovery, lock, errors, cycle>>,
           res' \in [Keys -> ResType], ledger' \in [Keys -> [Kinds -> Entry]], LedgerKept',
           \A k \in Keys : res'[k].status = res[k].status,
           \A k \in Keys : k = Key(r) \/ res'[k] = res[k]
    PROVE  AdmissionInv'
<1> USE DEF AdmissionInv
<1>1. run \in [Requests -> RunType]
  BY DEF TypeOK
<1>2. run' \in [Requests -> RunType] /\ \A q \in Requests : run'[q] = IF q = r THEN row ELSE run[q]
  BY <1>1
<1>3. /\ prep' \in [Preparers -> PrepType] /\ lock' \in Preparers \cup {Free}
      /\ \A q \in Preparers : lock' = q <=> prep'[q].pc = "checked"
      /\ PreparersDistinct' /\ CheckedIsNew' /\ AdmittedAlone'
  BY PreparersUntouched
<1>4. TypeOK'
  BY <1>2, <1>3 DEF TypeOK
<1>5. IntentMatchesRun' /\ RecoveryHolds'
  BY <1>2 DEF IntentMatchesRun, RecoveryHolds, Active
<1>6. \A q \in Requests : Key(q)' = Key(q) /\ Key(q) \in Keys /\ (FirstOfItsKind(q)' <=> FirstOfItsKind(q))
  BY <1>1, <1>2, KeyNames DEF Key, RunType, FirstOfItsKind
<1>7. RunIsFunded'
  BY <1>2, <1>6 DEF RunIsFunded
<1>8. EndedIsSettled'
  <2>1. SUFFICES ASSUME NEW q \in Requests, run'[q].state \in Ended, FirstOfItsKind(q)'
                 PROVE  /\ res'[Key(q)].status = "reconciled"
                        /\ ~run'[q].unpriced => res'[Key(q)].actual = run'[q].cost
    BY <1>6 DEF EndedIsSettled
  <2>2. q # r
    BY <1>2, <2>1 DEF Active, Ended
  <2>3. run'[q] = run[q] /\ Key(q) # Key(r)
    BY <1>2, <2>2 DEF Key
  <2> QED
    BY <1>6, <2>1, <2>3 DEF EndedIsSettled
<1> QED
  BY <1>3, <1>4, <1>5, <1>7, <1>8

\* A model call starts, is refused, or reports its usage.
LEMMA CallSteps ==
    ASSUME AdmissionInv, NEW r \in Requests, StartCall(r) \/ StopAtLimit(r) \/ RecordUsage(r)
    PROVE  AdmissionInv'
<1>a. /\ run \in [Requests -> RunType] /\ run[r] \in RunType
      /\ res \in [Keys -> ResType] /\ ledger \in [Keys -> [Kinds -> Entry]] /\ LedgerKept
  BY DEF AdmissionInv, TypeOK
<1>1. CASE StartCall(r)
  <2> DEFINE row == [run[r] EXCEPT !.state = "calling", !.calls = @ + 1]
  <2>1. /\ row \in RunType /\ row.state = "calling" /\ row.generation = run[r].generation
        /\ run' = [run EXCEPT ![r] = row] /\ run[r].state = "running"
    BY <1>1, <1>a DEF StartCall, RunType, Active
  <2> HIDE DEF row
  <2>2. /\ res' \in [Keys -> ResType] /\ ledger' \in [Keys -> [Kinds -> Entry]] /\ LedgerKept'
        /\ \A k \in Keys : res'[k].status = res[k].status
        /\ \A k \in Keys : k = Key(r) \/ res'[k] = res[k]
    <3>1. CASE UNCHANGED <<res, ledger>>
      BY <1>a, <3>1 DEF LedgerKept, KeptAt
    <3>2. CASE Extend(r)
      BY <1>1, <3>2, ExtendKept DEF StartCall, AdmissionInv, OnlyAt
    <3> QED
      BY <1>1, <3>1, <3>2 DEF StartCall
  <2> QED
    BY <1>1, <2>1, <2>2, ActiveStep DEF StartCall, Active
<1>2. CASE StopAtLimit(r)
  <2> DEFINE row == [run[r] EXCEPT !.state = "finalizing"]
  <2>1. /\ row \in RunType /\ row.state = "finalizing" /\ row.generation = run[r].generation
        /\ run' = [run EXCEPT ![r] = row] /\ run[r].state = "running"
    BY <1>2, <1>a DEF StopAtLimit, RunType, Active
  <2> HIDE DEF row
  <2>2. LedgerKept'
    BY <1>2, <1>a DEF StopAtLimit, LedgerKept, KeptAt
  <2> QED
    BY <1>2, <1>a, <2>1, <2>2, ActiveStep DEF StopAtLimit, Active
<1>3. CASE RecordUsage(r)
  <2>1. PICK cost \in 0 .. MaxCallCost, unpriced \in BOOLEAN :
             run' = [run EXCEPT ![r].state = "running", ![r].cost = @ + cost,
                                ![r].unpriced = @ \/ unpriced]
    BY <1>3 DEF RecordUsage
  <2>a. PICK total \in Nat : total = run[r].cost + cost
    BY <1>a, ConstantsAreNat DEF RunType
  <2>b. PICK flag \in BOOLEAN : flag = (run[r].unpriced \/ unpriced)
    OBVIOUS
  <2> DEFINE row == [run[r] EXCEPT !.state = "running", !.cost = total, !.unpriced = flag]
  <2>2. /\ row \in RunType /\ row.state = "running" /\ row.generation = run[r].generation
        /\ run' = [run EXCEPT ![r] = row] /\ run[r].state = "calling"
    <3>1. row \in RunType /\ row.state = "running" /\ row.generation = run[r].generation
      BY <1>a DEF RunType, Active
    <3>2. run' = [run EXCEPT ![r] = row]
      BY <1>a, <2>1, <2>a, <2>b
    <3> QED
      BY <1>3, <3>1, <3>2 DEF RecordUsage
  <2> HIDE DEF row
  <2>3. LedgerKept'
    BY <1>3, <1>a DEF RecordUsage, LedgerKept, KeptAt
  <2> QED
    BY <1>3, <1>a, <2>2, <2>3, ActiveStep DEF RecordUsage, Active
<1> QED
  BY <1>1, <1>2, <1>3

\* The end of a run settles the generation at its cost; whoever ends it finds
\* the reservation of a first run open, or settled by an earlier end.
LEMMA EndStep ==
    ASSUME AdmissionInv, NEW r \in Requests, NEW state \in Ended, End(r, state),
           run[r].state # "none", recovery[r] = "none",
           intent' \in [Requests -> IntentType],
           \A q \in Requests : /\ intent'[q].attempt = intent[q].attempt
                               /\ intent'[q].state = "admitted" <=> intent[q].state = "admitted",
           UNCHANGED <<prep, recovery, lock, errors, cycle>>
    PROVE  AdmissionInv'
<1> USE DEF AdmissionInv
<1>1. run \in [Requests -> RunType] /\ res \in [Keys -> ResType] /\ run[r] \in RunType /\ cycle \in Nat
  BY DEF TypeOK
<1>2. PICK k \in Keys : k = Key(r)
  BY <1>1, KeyNames DEF Key, RunType
<1>3. PICK actual \in Int : actual = IF run[r].unpriced THEN res[k].reserved ELSE run[r].cost
  BY <1>1 DEF RunType, ResType
<1>4. Settle(k, actual, cycle)
  BY <1>2, <1>3 DEF End, SettleRun
<1>5. /\ res' \in [Keys -> ResType] /\ ledger' \in [Keys -> [Kinds -> Entry]]
      /\ LedgerKept' /\ OnlyAt(k)
      /\ res[k].status = "reserved" => res'[k].status = "reconciled" /\ res'[k].actual = actual
      /\ res[k].status # "reserved" => res' = res
  BY <1>1, <1>4, SettleKept
<1>6. \A j \in Keys : res[j].status = "none" => res'[j].status = "none"
  BY <1>5 DEF OnlyAt
<1>7. /\ prep' \in [Preparers -> PrepType] /\ lock' \in Preparers \cup {Free}
      /\ \A q \in Preparers : lock' = q <=> prep'[q].pc = "checked"
      /\ PreparersDistinct' /\ CheckedIsNew' /\ AdmittedAlone'
  BY <1>6, PreparersUntouched
<1>8. /\ run' \in [Requests -> RunType] /\ \A q \in Requests : q # r => run'[q] = run[q]
      /\ run'[r].state = state /\ run'[r].generation = run[r].generation
      /\ run'[r].unpriced = run[r].unpriced /\ run'[r].cost = run[r].cost
  BY <1>1 DEF End, RunType
<1>9. TypeOK'
  BY <1>5, <1>7, <1>8 DEF TypeOK
<1>10. IntentMatchesRun' /\ RecoveryHolds'
  BY <1>8 DEF IntentMatchesRun, RecoveryHolds, Ended
<1>11. \A q \in Requests : Key(q)' = Key(q) /\ Key(q) \in Keys /\ (FirstOfItsKind(q)' <=> FirstOfItsKind(q))
  BY <1>1, <1>8, KeyNames DEF Key, RunType, FirstOfItsKind
<1>12. \A q \in Requests : q # r => res'[Key(q)] = res[Key(q)]
  BY <1>2, <1>5, <1>11 DEF Key, OnlyAt
<1>13. RunIsFunded'
  BY <1>8, <1>11, <1>12 DEF RunIsFunded, Active, Ended
<1>14. EndedIsSettled'
  <2>1. SUFFICES ASSUME FirstOfItsKind(r)
                 PROVE  /\ res'[k].status = "reconciled"
                        /\ ~run[r].unpriced => res'[k].actual = run[r].cost
    BY <1>2, <1>8, <1>11, <1>12 DEF EndedIsSettled
  <2>2. CASE run[r].state \in Active
    BY <1>2, <1>3, <1>5, <2>1, <2>2 DEF RunIsFunded
  <2>3. CASE run[r].state \in Ended
    BY <1>2, <1>5, <2>1, <2>3 DEF EndedIsSettled
  <2> QED
    BY <1>1, <2>2, <2>3 DEF RunType
<1> QED
  BY <1>5, <1>7, <1>9, <1>10, <1>13, <1>14

\* A run that is active is not held by a recovery.
LEMMA ActiveIsFree ==
    ASSUME AdmissionInv, NEW r \in Requests, run[r].state \in Active
    PROVE  run[r].state # "none" /\ recovery[r] = "none" /\ intent[r].state = "admitted"
BY DEF AdmissionInv, RecoveryHolds, IntentMatchesRun, Active

\* The worker ends the run.
LEMMA EndRunStep ==
    ASSUME AdmissionInv, NEW r \in Requests, EndRun(r)
    PROVE  AdmissionInv'
<1>1. run[r].state \in Active /\ \E s \in Ended : End(r, s)
  BY DEF EndRun, Active, Ended
<1>2. /\ UNCHANGED <<intent, prep, recovery, lock, errors, cycle>>
      /\ intent' \in [Requests -> IntentType]
  BY DEF EndRun, AdmissionInv, TypeOK
<1> QED
  BY <1>1, <1>2, ActiveIsFree, EndStep

-----------------------------------------------------------------------------
(* The user and the operator.                                                *)

\* cancel, before the admission and after it.
LEMMA CancelStep ==
    ASSUME AdmissionInv, NEW r \in Requests, Cancel(r)
    PROVE  AdmissionInv'
<1> USE DEF AdmissionInv
<1>1. intent \in [Requests -> IntentType]
  BY DEF TypeOK
<1>2. /\ intent' \in [Requests -> IntentType]
      /\ \A q \in Requests : /\ intent'[q].attempt = intent[q].attempt
                             /\ intent'[q].state = "admitted" <=> intent[q].state = "admitted"
  BY <1>1 DEF Cancel, IntentType
<1>3. UNCHANGED <<prep, recovery, lock, errors, cycle>>
  BY DEF Cancel
<1>4. CASE run[r].state \in Active
  <2>1. \E s \in Ended : End(r, s)
    BY <1>4 DEF Cancel, Ended
  <2> QED
    BY <1>2, <1>3, <1>4, <2>1, ActiveIsFree, EndStep
<1>5. CASE run[r].state \notin Active
  <2>1. UNCHANGED <<run, res, ledger>>
    BY <1>5 DEF Cancel
  <2>2. /\ prep' \in [Preparers -> PrepType] /\ lock' \in Preparers \cup {Free}
        /\ \A q \in Preparers : lock' = q <=> prep'[q].pc = "checked"
        /\ PreparersDistinct' /\ CheckedIsNew' /\ AdmittedAlone'
    BY <1>2, <1>3, <2>1, PreparersUntouched
  <2>3. TypeOK'
    BY <1>2, <1>3, <2>1, <2>2 DEF TypeOK
  <2>4. IntentMatchesRun'
    BY <1>2, <2>1 DEF IntentMatchesRun
  <2>5. RunIsFunded' /\ EndedIsSettled' /\ LedgerKept' /\ RecoveryHolds'
    BY <1>2, <1>3, <2>1, RunsUntouched
  <2> QED
    BY <2>2, <2>3, <2>4, <2>5
<1> QED
  BY <1>4, <1>5

\* recover(cancel).
LEMMA RecoverCancelStep ==
    ASSUME AdmissionInv, NEW r \in Requests, RecoverCancel(r)
    PROVE  AdmissionInv'
<1>1. /\ run[r].state = "recovery_required" /\ recovery[r] = "none" /\ End(r, "cancelled")
      /\ UNCHANGED <<intent, prep, recovery, lock, errors, cycle>>
      /\ intent' \in [Requests -> IntentType] /\ "cancelled" \in Ended
  BY DEF RecoverCancel, AdmissionInv, TypeOK, Ended
<1> QED
  BY <1>1, EndStep

\* The reservation of the next generation is nobody's yet.
LEMMA NextGeneration ==
    ASSUME AdmissionInv, NEW r \in Requests, run[r].generation < MaxGenerations
    PROVE  /\ <<r, run[r].generation + 1>> \in Keys
           /\ \A q \in Requests : <<r, run[r].generation + 1>> # <<q, 0>>
<1>1. run[r].generation \in 0 .. MaxGenerations
  BY DEF AdmissionInv, TypeOK, RunType
<1>2. run[r].generation + 1 \in 0 .. MaxGenerations /\ run[r].generation + 1 # 0
  BY <1>1, ConstantsAreNat
<1> QED
  BY <1>2, KeyNames

\* What a step of a recovery keeps that touches at most the reservation of the
\* next generation.
LEMMA RecoveryStep ==
    ASSUME AdmissionInv, NEW r \in Requests, NEW k \in Keys, \A q \in Requests : k # <<q, 0>>,
           OnlyAt(k), res' \in [Keys -> ResType], ledger' \in [Keys -> [Kinds -> Entry]], LedgerKept',
           NEW mark \in {"none", "reserved", "refused"}, recovery' = [recovery EXCEPT ![r] = mark],
           mark # "none" => run[r].state = "recovery_required" /\ run[r].generation < MaxGenerations,
           UNCHANGED <<intent, run, prep, lock, cycle>>, errors' \in Nat
    PROVE  AdmissionInv'
<1> USE DEF AdmissionInv
<1>1. \A j \in Keys : res[j].status = "none" /\ j[2] = 0 => res'[j].status = "none"
  BY KeyNames DEF OnlyAt
<1>2. /\ prep' \in [Preparers -> PrepType] /\ lock' \in Preparers \cup {Free}
      /\ \A q \in Preparers : lock' = q <=> prep'[q].pc = "checked"
      /\ PreparersDistinct' /\ CheckedIsNew' /\ AdmittedAlone'
  BY <1>1, PreparersUntouched
<1>3. TypeOK'
  BY <1>2 DEF TypeOK
<1>4. RecoveryHolds'
  BY DEF RecoveryHolds, TypeOK
<1>5. IntentMatchesRun'
  BY DEF IntentMatchesRun
<1>6. RunIsFunded' /\ EndedIsSettled'
  BY BooksElsewhere
<1> QED
  BY <1>2, <1>3, <1>4, <1>5, <1>6

\* recover(retry or mark-complete) reserves, gives up, or dies.
LEMMA RecoverySteps ==
    ASSUME AdmissionInv, NEW r \in Requests, RecoverReserve(r) \/ RecoverRelease(r) \/ RecoverCrash(r)
    PROVE  AdmissionInv'
<1>a. /\ recovery \in [Requests -> {"none", "reserved", "refused"}] /\ errors \in Nat
      /\ res \in [Keys -> ResType] /\ ledger \in [Keys -> [Kinds -> Entry]] /\ LedgerKept /\ TypeOK
      /\ run[r].generation \in Nat
  BY DEF AdmissionInv, TypeOK, RunType
<1>b. run[r].generation < MaxGenerations
  BY DEF RecoverReserve, RecoverRelease, RecoverCrash, AdmissionInv, RecoveryHolds
<1>c. PICK k \in Keys : k = <<r, run[r].generation + 1>>
  BY <1>b, NextGeneration
<1>d. \A q \in Requests : k # <<q, 0>>
  BY <1>b, <1>c, NextGeneration
<1>e. UNCHANGED <<res, ledger>> => /\ OnlyAt(k) /\ LedgerKept'
                                   /\ res' \in [Keys -> ResType] /\ ledger' \in [Keys -> [Kinds -> Entry]]
  BY <1>a DEF OnlyAt, LedgerKept, KeptAt
<1>1. CASE RecoverReserve(r)
  <2>1. /\ run[r].state = "recovery_required" /\ UNCHANGED <<intent, run, prep, lock, cycle>> /\ errors' \in Nat
    BY <1>1, <1>a DEF RecoverReserve
  <2>2. PICK over \in BOOLEAN : over = Exceeds(0)
    BY ExceedsIsBoolean
  <2>3. CASE UNCHANGED <<res, ledger>> /\ recovery' = [recovery EXCEPT ![r] = "reserved"]
    BY <1>b, <1>d, <1>e, <2>1, <2>3, RecoveryStep
  <2>4. CASE /\ res[k].status = "none" /\ Insert(k, 0, over, cycle)
             /\ recovery' = [recovery EXCEPT ![r] = IF over THEN "none" ELSE "reserved"]
    <3>1. /\ res' \in [Keys -> ResType] /\ ledger' \in [Keys -> [Kinds -> Entry]]
          /\ LedgerKept' /\ OnlyAt(k)
      <4>1. 0 \in Int /\ cycle \in Nat
        BY <1>a DEF TypeOK
      <4> QED
        BY <1>a, <2>4, <4>1, InsertKept
    <3> QED
      BY <1>b, <1>d, <2>1, <2>4, <3>1, RecoveryStep
  <2> QED
    BY <1>1, <1>c, <2>2, <2>3, <2>4 DEF RecoverReserve
<1>2. CASE RecoverRelease(r)
  <2>1. res[k].cycle \in Nat /\ Settle(k, 0, res[k].cycle)
    BY <1>2, <1>a, <1>c DEF RecoverRelease, Reconcile, ResType
  <2>2. /\ res' \in [Keys -> ResType] /\ ledger' \in [Keys -> [Kinds -> Entry]]
        /\ LedgerKept' /\ OnlyAt(k)
    <3>1. 0 \in Int
      OBVIOUS
    <3> QED
      BY <1>a, <2>1, <3>1, SettleKept
  <2> QED
    BY <1>2, <1>a, <1>d, <2>2, RecoveryStep DEF RecoverRelease
<1>3. CASE RecoverCrash(r)
  <2>1. errors' \in Nat
    BY <1>3, <1>a DEF RecoverCrash
  <2> QED
    BY <1>3, <1>d, <1>e, <2>1, RecoveryStep DEF RecoverCrash
<1> QED
  BY <1>1, <1>2, <1>3

\* The recovered run starts its next generation, or is refused.
LEMMA RecoverCommitStep ==
    ASSUME AdmissionInv, NEW r \in Requests, RecoverCommit(r)
    PROVE  AdmissionInv'
<1> USE DEF AdmissionInv
<1>1. /\ run \in [Requests -> RunType] /\ recovery \in [Requests -> {"none", "reserved", "refused"}]
      /\ run[r].state = "recovery_required" /\ run[r].generation < MaxGenerations
      /\ UNCHANGED <<intent, res, ledger, prep, lock, errors, cycle>>
  BY DEF TypeOK, RecoverCommit, RecoveryHolds
<1>2. PICK next \in 0 .. MaxGenerations : next = run[r].generation + 1 /\ next # 0
  BY <1>1, ConstantsAreNat DEF RunType
<1> DEFINE row == [state |-> "running", generation |-> next, calls |-> 0, cost |-> 0, unpriced |-> FALSE]
<1>3. row \in RunType /\ row.state = "running" /\ row.generation # 0
  BY <1>2 DEF RunType, Active
<1>4. /\ prep' \in [Preparers -> PrepType] /\ lock' \in Preparers \cup {Free}
      /\ \A q \in Preparers : lock' = q <=> prep'[q].pc = "checked"
      /\ PreparersDistinct' /\ CheckedIsNew' /\ AdmittedAlone'
  BY <1>1, PreparersUntouched
<1>5. LedgerKept'
  BY <1>1 DEF LedgerKept, KeptAt
<1>6. \/ run' = run /\ recovery' = [recovery EXCEPT ![r] = "refused"]
      \/ run' = [run EXCEPT ![r] = row] /\ recovery' = [recovery EXCEPT ![r] = "none"]
  <2>1. CASE SessionBusy
    BY <2>1 DEF RecoverCommit
  <2>2. CASE ~SessionBusy
    BY <1>1, <1>2, <2>2 DEF RecoverCommit
  <2> QED
    BY <2>1, <2>2
<1> HIDE DEF row
<1>7. TypeOK'
  BY <1>1, <1>3, <1>4, <1>6 DEF TypeOK
<1>8. RecoveryHolds' /\ IntentMatchesRun'
  BY <1>1, <1>3, <1>6 DEF RecoveryHolds, IntentMatchesRun
<1>9. RunIsFunded' /\ EndedIsSettled'
  BY <1>1, <1>3, <1>6 DEF RunIsFunded, EndedIsSettled, Key, FirstOfItsKind
<1> QED
  BY <1>4, <1>5, <1>7, <1>8, <1>9

-----------------------------------------------------------------------------
(* The theorems.                                                             *)

\* Every step keeps the invariant.
LEMMA NextInv == AdmissionInv /\ [Next]_vars => AdmissionInv'
<1> SUFFICES ASSUME AdmissionInv, [Next]_vars PROVE AdmissionInv'
    OBVIOUS
<1>1. ASSUME NEW p \in Preparers, Prepare(p) \/ Abandon(p) \/ PreparationFails(p)
      PROVE  AdmissionInv'
  BY <1>1, PreparerSteps, InsertStep, AdmitStep, ReleaseFailedStep, FailAdmissionStep DEF Prepare
<1>2. ASSUME NEW p \in Preparers, NEW r \in Requests, BeginAdmission(p, r)
      PROVE  AdmissionInv'
  BY <1>2, BeginStep
<1>3. ASSUME NEW r \in Requests,
             \/ ExpirePreparation(r) \/ SweepAdmission(r)
             \/ StartCall(r) \/ StopAtLimit(r) \/ RecordUsage(r) \/ EndRun(r)
             \/ Cancel(r) \/ RecoverReserve(r) \/ RecoverCommit(r) \/ RecoverRelease(r)
             \/ RecoverCrash(r) \/ RecoverCancel(r)
      PROVE  AdmissionInv'
  BY <1>3, ExpireStep, SweepStep, CallSteps, EndRunStep, CancelStep, RecoverySteps,
     RecoverCommitStep, RecoverCancelStep
<1>4. ASSUME NEW k \in Keys, ReleaseOrphan(k) PROVE AdmissionInv'
  BY <1>4, OrphanStep
<1>5. CASE NextCycle
  BY <1>5, CycleStep
<1>6. CASE UNCHANGED vars
  <2>1. TypeOK'
    BY <1>6 DEF AdmissionInv, TypeOK, vars
  <2>2. PreparersDistinct' /\ CheckedIsNew' /\ RecoveryHolds' /\ IntentMatchesRun' /\ AdmittedAlone'
    BY <1>6 DEF AdmissionInv, PreparersDistinct, CheckedIsNew, RecoveryHolds, IntentMatchesRun, AdmittedAlone, vars
  <2>3. LedgerKept' /\ RunIsFunded' /\ EndedIsSettled'
    BY <1>6, RunsUntouched DEF vars
  <2> QED
    BY <2>1, <2>2, <2>3 DEF AdmissionInv
<1> QED
  BY <1>1, <1>2, <1>3, <1>4, <1>5, <1>6 DEF Next

\* The inductive invariant holds throughout.
THEOREM Invariance == Spec => []AdmissionInv
BY InitInv, NextInv, PTL DEF Spec

\* Every row of intents, runs, reservations and ledger keeps its type, and the
\* tenant's advisory lock is held exactly by the preparer between check and
\* insert.
THEOREM TypeCorrect == Spec => []TypeOK
<1>1. AdmissionInv => TypeOK
  BY DEF AdmissionInv
<1> QED
  BY <1>1, Invariance, PTL

\* The ledger holds of every reservation what is reserved, what it cost or
\* nothing, whoever settles it: preparer, sweep, worker, cancellation, recovery
\* or maintenance.
THEOREM LedgerCorrect == Spec => []LedgerMatchesReservation
<1>1. AdmissionInv => LedgerMatchesReservation
  <2> SUFFICES ASSUME AdmissionInv, NEW k \in Keys
               PROVE  Net(k) = CASE res[k].status = "reserved" -> res[k].reserved
                                 [] res[k].status = "reconciled" -> res[k].actual
                                 [] OTHER -> 0
    BY DEF LedgerMatchesReservation
  <2>1. KeptAt(k) /\ res[k] \in ResType
    BY DEF AdmissionInv, LedgerKept, TypeOK
  <2>2. res[k].reserved \in Int /\ res[k].actual \in Int
    BY <2>1 DEF ResType
  <2> QED
    BY <2>1, <2>2 DEF KeptAt, Net
<1> QED
  BY <1>1, Invariance, PTL

\* An intent says admitted exactly when its run exists.
THEOREM AdmittedExactlyOnce == Spec => []IntentMatchesRun
<1>1. AdmissionInv => IntentMatchesRun
  BY DEF AdmissionInv
<1> QED
  BY <1>1, Invariance, PTL

\* The run of a first attempt owns its open reservation until it ends.
THEOREM RunsAreFunded == Spec => []RunIsFunded
<1>1. AdmissionInv => RunIsFunded
  BY DEF AdmissionInv
<1> QED
  BY <1>1, Invariance, PTL

\* What the run of a first attempt cost is what the ledger charges for it in the
\* end, however it ends.
THEOREM UsageCharged == Spec => []UsageIsCharged
<1>1. AdmissionInv => UsageIsCharged
  <2> SUFFICES ASSUME AdmissionInv, NEW r \in Requests,
                      run[r].state \in Ended, ~run[r].unpriced, FirstOfItsKind(r)
               PROVE  Net(Key(r)) = run[r].cost
    BY DEF UsageIsCharged
  <2>1. run[r] \in RunType
    BY DEF AdmissionInv, TypeOK
  <2>2. PICK k \in Keys : k = Key(r)
    BY <2>1, KeyNames DEF Key, RunType
  <2>3. KeptAt(k) /\ res[k] \in ResType
    BY DEF AdmissionInv, LedgerKept, TypeOK
  <2>4. res[k].status = "reconciled" /\ res[k].actual = run[r].cost
    BY <2>2 DEF AdmissionInv, EndedIsSettled
  <2>5. res[k].reserved \in Int /\ res[k].actual \in Int
    BY <2>3 DEF ResType
  <2> QED
    BY <2>2, <2>3, <2>4, <2>5 DEF KeptAt, Net
<1> QED
  BY <1>1, Invariance, PTL

\* A cancelled intent stays cancelled: beginAdmission and admit refuse it, and
\* every other writer needs another state.
LEMMA CancelledStays ==
    ASSUME AdmissionInv, Next, NEW s \in Requests, intent[s].state = "cancelled"
    PROVE  intent'[s].state = "cancelled"
<1>1. intent \in [Requests -> IntentType] /\ intent[s] \in IntentType
  BY DEF AdmissionInv, TypeOK
<1>2. SUFFICES ASSUME intent' # intent PROVE intent'[s].state = "cancelled"
  OBVIOUS
<1>3. ASSUME NEW p \in Preparers, Prepare(p) \/ Abandon(p) \/ PreparationFails(p)
      PROVE  intent'[s].state = "cancelled"
  <2>1. Admit(p) \/ FailAdmission(p)
    BY <1>2, <1>3 DEF Prepare, ReuseReservation, CheckBudget, InsertReservation, ReleaseFailed,
                      Abandon, PreparationFails
  <2>2. CurrentAttempt(p) /\ prep[p].req \in Requests
    BY <1>2, <2>1, UnderWay DEF Admit, FailAdmission
  <2>3. prep[p].req # s
    BY <2>2 DEF CurrentAttempt
  <2>4. CASE Admit(p)
    BY <1>1, <1>2, <2>3, <2>4 DEF Admit
  <2>5. CASE FailAdmission(p)
    BY <1>1, <1>2, <2>3, <2>5 DEF FailAdmission
  <2> QED
    BY <2>1, <2>4, <2>5
<1>4. ASSUME NEW p \in Preparers, NEW r \in Requests, BeginAdmission(p, r)
      PROVE  intent'[s].state = "cancelled"
  BY <1>1, <1>4 DEF BeginAdmission, MayBegin
<1>5. ASSUME NEW r \in Requests, ExpirePreparation(r) \/ SweepAdmission(r) \/ Cancel(r)
      PROVE  intent'[s].state = "cancelled"
  BY <1>1, <1>5 DEF ExpirePreparation, SweepAdmission, Cancel, IntentType
<1>6. ASSUME NEW r \in Requests,
             \/ StartCall(r) \/ StopAtLimit(r) \/ RecordUsage(r) \/ EndRun(r) \/ RecoverReserve(r)
             \/ RecoverCommit(r) \/ RecoverRelease(r) \/ RecoverCrash(r) \/ RecoverCancel(r)
      PROVE  FALSE
  BY <1>2, <1>6 DEF StartCall, StopAtLimit, RecordUsage, EndRun, RecoverReserve,
                    RecoverCommit, RecoverRelease, RecoverCrash, RecoverCancel
<1>7. (\E k \in Keys : ReleaseOrphan(k)) \/ NextCycle => FALSE
  BY <1>2 DEF ReleaseOrphan, NextCycle
<1> QED
  BY <1>3, <1>4, <1>5, <1>6, <1>7 DEF Next

\* A request cancelled before its admission never runs, whichever attempts are
\* still under way.
THEOREM CancelledRequestsNeverRun == Spec => CancelledNeverRuns
<1>1. AdmissionInv /\ [Next]_vars
        => [\A r \in Requests : intent[r].state = "cancelled" =>
               intent'[r].state = "cancelled" /\ run'[r].state = "none"]_vars
  <2> SUFFICES ASSUME AdmissionInv, Next, NEW r \in Requests, intent[r].state = "cancelled"
               PROVE  intent'[r].state = "cancelled" /\ run'[r].state = "none"
    OBVIOUS
  <2>1. intent'[r].state = "cancelled"
    BY CancelledStays
  <2>2. IntentMatchesRun'
    BY NextInv DEF AdmissionInv
  <2> QED
    BY <2>1, <2>2 DEF IntentMatchesRun
<1> QED
  BY <1>1, Invariance, PTL DEF Spec, CancelledNeverRuns

-----------------------------------------------------------------------------
(* What a ledger adds up to.  The sum of the community modules is a recursive *)
(* function; it has a solution on the subsets of a finite set, and what it      *)
(* adds up to is found by descending to a least counterexample.                *)

\* Every nonempty set of naturals has a least element.
LEMMA LeastNatural ==
    ASSUME NEW T, T \subseteq Nat, T # {}
    PROVE  \E n \in T : \A m \in T : n <= m
<1>1. PICK n \in T : \A m \in T : ~(<<m, n>> \in OpToRel(<, Nat))
  BY NatLessThanWellFounded, WFMin
<1>2. \A m \in T : ~(m < n)
  BY <1>1 DEF OpToRel
<1> QED
  BY <1>2

\* The element the recursion takes out of a set first.
Choice(s) == CHOOSE x \in s : TRUE

\* g gives every subset of S the sum of f over it.
Unfolds(g, f, S) == g = [s \in SUBSET S |-> IF s = {} THEN 0 ELSE f[Choice(s)] + g[s \ {Choice(s)}]]

\* The library's sum over S is that of a chosen solution of the recursion.
LEMMA SumIsChosen ==
    ASSUME NEW f
    PROVE  \A S : SumFunctionOnSet(f, S) = (CHOOSE g : Unfolds(g, f, S))[S]
BY DEF SumFunctionOnSet, FoldFunctionOnSet, MapThenFoldSet, Unfolds, Choice

\* The recursion has a solution on the subsets of a finite set.
LEMMA SumExists ==
    ASSUME NEW S, IsFiniteSet(S), NEW f
    PROVE  \E g : Unfolds(g, f, S)
<1> DEFINE Upto(n) == {s \in SUBSET S : Cardinality(s) <= n}
           Body(g, s) == IF s = {} THEN 0 ELSE f[Choice(s)] + g[s \ {Choice(s)}]
           Solves(g, n) == g = [s \in Upto(n) |-> Body(g, s)]
           Bad == {n \in Nat : ~\E g : Solves(g, n)}
<1>1. \A s \in SUBSET S : IsFiniteSet(s) /\ Cardinality(s) \in Nat /\ Cardinality(s) <= Cardinality(S)
  BY FS_Subset, FS_CardinalityType
<1>2. \A s \in SUBSET S : s # {} => /\ s \ {Choice(s)} \in SUBSET S
                                    /\ Cardinality(s \ {Choice(s)}) = Cardinality(s) - 1
  <2>1. SUFFICES ASSUME NEW s \in SUBSET S, s # {}
                 PROVE  Cardinality(s \ {Choice(s)}) = Cardinality(s) - 1
    OBVIOUS
  <2>2. Choice(s) \in s
    BY <2>1 DEF Choice
  <2> QED
    BY <1>1, <2>2, FS_RemoveElement
<1>3. \A s \in SUBSET S : Cardinality(s) = 0 <=> s = {}
  BY <1>1, FS_EmptySet
<1>4. Bad = {}
  <2>1. SUFFICES ASSUME Bad # {} PROVE FALSE
    OBVIOUS
  <2>2. PICK n \in Bad : \A m \in Bad : n <= m
    BY <2>1, LeastNatural
  <2>3. n \in Nat /\ ~\E g : Solves(g, n)
    OBVIOUS
  <2>4. CASE n = 0
    <3> DEFINE g == [s \in Upto(n) |-> 0]
    <3>1. \A s \in Upto(n) : s = {}
      BY <1>1, <1>3, <2>4
    <3>2. \A s \in Upto(n) : Body(g, s) = 0
      BY <3>1
    <3> HIDE DEF Upto, Body
    <3>3. g = [s \in Upto(n) |-> Body(g, s)]
      BY <3>2
    <3> QED
      BY <2>3, <3>3
  <2>5. CASE n # 0
    <3>1. n - 1 \in Nat /\ n - 1 \notin Bad
      <4>1. n - 1 \in Nat /\ ~(n <= n - 1)
        BY <2>3, <2>5
      <4> HIDE DEF Bad
      <4> QED
        BY <2>2, <4>1
    <3>2. PICK h : Solves(h, n - 1)
      BY <3>1
    <3> DEFINE g == [s \in Upto(n) |-> IF s \in Upto(n - 1) THEN h[s] ELSE Body(h, s)]
    <3>3. \A s \in Upto(n) : s # {} => s \ {Choice(s)} \in Upto(n - 1)
      BY <1>1, <1>2, <2>3
    <3>4. \A s \in Upto(n - 1) : s \in Upto(n)
      BY <1>1, <2>3
    <3> HIDE DEF Upto
    <3>5. \A s \in Upto(n) : s # {} => g[s \ {Choice(s)}] = h[s \ {Choice(s)}]
      BY <3>3, <3>4
    <3>6. \A s \in Upto(n) : Body(g, s) = Body(h, s)
      <4> HIDE DEF g
      <4> QED
        BY <3>5, Zenon
    <3>7. \A s \in Upto(n - 1) : h[s] = Body(h, s)
      BY <3>2
    <3>8. \A s \in Upto(n) : g[s] = Body(g, s)
      <4> HIDE DEF Body
      <4> QED
        BY <3>6, <3>7
    <3>9. g = [s \in Upto(n) |-> Body(g, s)]
      <4>1. g = [s \in Upto(n) |-> g[s]]
        OBVIOUS
      <4> HIDE DEF Body, g
      <4> QED
        BY <3>8, <4>1
    <3> QED
      BY <2>3, <3>9
  <2> QED
    BY <2>4, <2>5
<1>5. Cardinality(S) \in Nat
  BY FS_CardinalityType
<1>6. PICK g : Solves(g, Cardinality(S))
  BY <1>4, <1>5
<1>7. Upto(Cardinality(S)) = SUBSET S
  BY <1>1
<1> QED
  BY <1>6, <1>7 DEF Unfolds

\* What the community module's sum is on a finite set.
LEMMA SumUnfolds ==
    ASSUME NEW S, IsFiniteSet(S), NEW f
    PROVE  \E g : Unfolds(g, f, S) /\ SumFunctionOnSet(f, S) = g[S]
BY SumExists, SumIsChosen

\* Two functions that differ in one place: so do their sums.
LEMMA SumChange ==
    ASSUME NEW S, IsFiniteSet(S), NEW f \in [S -> Int], NEW h \in [S -> Int],
           NEW x \in S, \A y \in S : y # x => h[y] = f[y]
    PROVE  /\ SumFunctionOnSet(f, S) \in Int
           /\ SumFunctionOnSet(h, S) = SumFunctionOnSet(f, S) + h[x] - f[x]
<1>1. PICK a : Unfolds(a, f, S) /\ SumFunctionOnSet(f, S) = a[S]
  BY SumUnfolds
<1>2. PICK b : Unfolds(b, h, S) /\ SumFunctionOnSet(h, S) = b[S]
  BY SumUnfolds
<1> DEFINE Diff(s) == IF x \in s THEN h[x] - f[x] ELSE 0
           Bad == {s \in SUBSET S : ~(a[s] \in Int /\ b[s] = a[s] + Diff(s))}
<1>3. Bad = {}
  <2>1. SUFFICES ASSUME Bad # {} PROVE FALSE
    OBVIOUS
  <2>2. PICK s \in Bad : \A t \in Bad : ~(<<t, s>> \in StrictSubsetOrdering(S))
    <3>1. Bad \subseteq FiniteSubsetsOf(S)
      BY FS_FiniteSubsetsOfFinite
    <3> HIDE DEF Bad
    <3> QED
      BY <2>1, <3>1, FS_StrictSubsetOrderingWellFounded, WFMin
  <2>3. s \in SUBSET S
    OBVIOUS
  <2>4. CASE s = {}
    BY <1>1, <1>2, <2>4 DEF Unfolds
  <2>5. CASE s # {}
    <3>1. PICK c \in s : c = Choice(s)
      BY <2>5 DEF Choice
    <3>2. PICK t \in SUBSET S : t = s \ {c}
      BY <2>3
    <3>3. t \notin Bad
      <4>1. t \in SUBSET s /\ t # s /\ IsFiniteSet(s) /\ IsFiniteSet(t)
        BY <2>3, <3>1, <3>2, FS_Subset
      <4> HIDE DEF Bad
      <4> QED
        BY <2>2, <2>3, <4>1 DEF StrictSubsetOrdering, FiniteSubsetsOf
    <3>4. a[t] \in Int /\ b[t] = a[t] + Diff(t)
      BY <3>3
    <3>5. a[s] = f[c] + a[t] /\ b[s] = h[c] + b[t]
      BY <1>1, <1>2, <2>3, <2>5, <3>1, <3>2 DEF Unfolds
    <3>6. c \in S /\ f[c] \in Int /\ h[c] \in Int /\ f[x] \in Int /\ h[x] \in Int
      BY <2>3, <3>1
    <3>7. CASE c = x
      BY <3>1, <3>2, <3>4, <3>5, <3>6, <3>7
    <3>8. CASE c # x
      <4>1. h[c] = f[c] /\ (x \in s <=> x \in t)
        BY <3>2, <3>6, <3>8
      <4> QED
        BY <3>4, <3>5, <3>6, <4>1
    <3> QED
      BY <3>7, <3>8
  <2> QED
    BY <2>4, <2>5
<1> QED
  BY <1>1, <1>2, <1>3

\* Nothing adds up to nothing.
LEMMA SumOfZeros ==
    ASSUME NEW S, IsFiniteSet(S), NEW f, \A y \in S : f[y] = 0
    PROVE  SumFunctionOnSet(f, S) = 0
<1>1. PICK a : Unfolds(a, f, S) /\ SumFunctionOnSet(f, S) = a[S]
  BY SumUnfolds
<1> DEFINE Bad == {s \in SUBSET S : a[s] # 0}
<1>3. Bad = {}
  <2>1. SUFFICES ASSUME Bad # {} PROVE FALSE
    OBVIOUS
  <2>2. PICK s \in Bad : \A t \in Bad : ~(<<t, s>> \in StrictSubsetOrdering(S))
    <3>1. Bad \subseteq FiniteSubsetsOf(S)
      BY FS_FiniteSubsetsOfFinite
    <3> HIDE DEF Bad
    <3> QED
      BY <2>1, <3>1, FS_StrictSubsetOrderingWellFounded, WFMin
  <2>3. s \in SUBSET S
    OBVIOUS
  <2>4. s # {}
    BY <1>1 DEF Unfolds
  <2>5. PICK c \in s : c = Choice(s)
    BY <2>4 DEF Choice
  <2>6. PICK t \in SUBSET S : t = s \ {c}
    BY <2>3
  <2>7. t \notin Bad
    <3>1. t \in SUBSET s /\ t # s /\ IsFiniteSet(s) /\ IsFiniteSet(t)
      BY <2>3, <2>5, <2>6, FS_Subset
    <3> HIDE DEF Bad
    <3> QED
      BY <2>2, <2>3, <3>1 DEF StrictSubsetOrdering, FiniteSubsetsOf
  <2>8. a[s] = f[c] + a[t]
    BY <1>1, <2>3, <2>4, <2>5, <2>6 DEF Unfolds
  <2> QED
    BY <2>3, <2>5, <2>7, <2>8
<1> QED
  BY <1>1, <1>3

\* The ledger has finitely many places for an entry.
LEMMA PlacesFinite == IsFiniteSet(Keys \X Kinds)
<1>1. IsFiniteSet(0 .. MaxGenerations)
  BY ConstantsAreNat, FS_Interval
<1>2. IsFiniteSet(Keys)
  BY <1>1, FiniteAssumption, FS_Product DEF Keys
<1>3. IsFiniteSet({"reserve"}) /\ IsFiniteSet({"reconcile"}) /\ IsFiniteSet({"release"})
  BY FS_Singleton
<1>4. IsFiniteSet(Kinds)
  <2>1. Kinds = ({"reserve"} \cup {"reconcile"}) \cup {"release"}
    BY DEF Kinds
  <2> QED
    BY <1>3, <2>1, FS_AddElement
<1> QED
  BY <1>2, <1>4, FS_Product

\* A step that writes one entry of the ledger changes what is spent in a cycle by
\* what the entry then adds to it, less what it added before.
LEMMA SpentChange ==
    ASSUME ledger \in [Keys -> [Kinds -> Entry]], NEW c \in Nat, NEW k \in Keys, NEW kind \in Kinds,
           NEW entry \in Entry, ledger' = [ledger EXCEPT ![k][kind] = entry]
    PROVE  /\ Spent(c) \in Int /\ Spent(c)' \in Int
           /\ Spent(c)' = Spent(c) + Charge(entry, c) - Charge(ledger[k][kind], c)
<1> DEFINE Places == Keys \X Kinds
<1>1. PICK f : f = Charges(c)
  OBVIOUS
<1>2. PICK h : h = [e \in Places |-> IF e = <<k, kind>> THEN Charge(entry, c) ELSE f[e]]
  OBVIOUS
<1>3. \A e \in Entry : Charge(e, c) \in Int
  BY DEF Charge, Entry
<1>4. \A e \in Places : e[1] \in Keys /\ e[2] \in Kinds /\ e = <<e[1], e[2]>>
  OBVIOUS
<1>5. \A e \in Places : ledger[e[1]][e[2]] \in Entry
  BY <1>4
<1>6. f \in [Places -> Int] /\ f[<<k, kind>>] = Charge(ledger[k][kind], c)
  BY <1>1, <1>3, <1>5 DEF Charges
<1>7. h \in [Places -> Int] /\ h[<<k, kind>>] = Charge(entry, c)
  BY <1>2, <1>3, <1>6
<1>8. Charges(c)' = h
  <2>1. \A e \in Places : ledger'[e[1]][e[2]] = IF e = <<k, kind>> THEN entry ELSE ledger[e[1]][e[2]]
    BY <1>4
  <2>2. Charges(c)' = [e \in Places |-> Charge(ledger'[e[1]][e[2]], c)]
    BY DEF Charges, Charge
  <2>3. \A e \in Places : f[e] = Charge(ledger[e[1]][e[2]], c)
    BY <1>1 DEF Charges
  <2>4. \A e \in Places : h[e] = Charge(ledger'[e[1]][e[2]], c)
    BY <1>2, <2>1, <2>3
  <2> QED
    BY <1>2, <2>2, <2>4
<1>9. /\ SumFunctionOnSet(f, Places) \in Int
      /\ SumFunctionOnSet(h, Places) = SumFunctionOnSet(f, Places) + h[<<k, kind>>] - f[<<k, kind>>]
  <2>1. \A y \in Places : y # <<k, kind>> => h[y] = f[y]
    BY <1>2
  <2>2. <<k, kind>> \in Places /\ IsFiniteSet(Places)
    BY PlacesFinite
  <2> HIDE DEF Places
  <2> QED
    BY <1>6, <1>7, <2>1, <2>2, SumChange
<1>10. Spent(c) = SumFunctionOnSet(f, Places) /\ Spent(c)' = SumFunctionOnSet(h, Places)
  BY <1>1, <1>8 DEF Spent
<1>11. Charge(entry, c) \in Int /\ Charge(ledger[k][kind], c) \in Int
  BY <1>3
<1> QED
  BY <1>6, <1>7, <1>9, <1>10, <1>11

\* Nothing is spent in a cycle that has no entry.
LEMMA SpentNothing ==
    ASSUME NEW c, \A k \in Keys : \A kind \in Kinds : Charge(ledger[k][kind], c) = 0
    PROVE  Spent(c) = 0
<1>1. PICK f : f = Charges(c)
  OBVIOUS
<1>2. \A e \in Keys \X Kinds : f[e] = 0
  BY <1>1 DEF Charges
<1> QED
  BY <1>1, <1>2, PlacesFinite, SumOfZeros DEF Spent

\* A finite sum of natural numbers is one.
LEMMA SumOfNaturals ==
    ASSUME NEW S, IsFiniteSet(S), NEW f, \A y \in S : f[y] \in Nat
    PROVE  SumFunctionOnSet(f, S) \in Nat
<1>1. PICK a : Unfolds(a, f, S) /\ SumFunctionOnSet(f, S) = a[S]
  BY SumUnfolds
<1> DEFINE Bad == {s \in SUBSET S : a[s] \notin Nat}
<1>3. Bad = {}
  <2>1. SUFFICES ASSUME Bad # {} PROVE FALSE
    OBVIOUS
  <2>2. PICK s \in Bad : \A t \in Bad : ~(<<t, s>> \in StrictSubsetOrdering(S))
    <3>1. Bad \subseteq FiniteSubsetsOf(S)
      BY FS_FiniteSubsetsOfFinite
    <3> HIDE DEF Bad
    <3> QED
      BY <2>1, <3>1, FS_StrictSubsetOrderingWellFounded, WFMin
  <2>3. s \in SUBSET S
    OBVIOUS
  <2>4. s # {}
    BY <1>1 DEF Unfolds
  <2>5. PICK c \in s : c = Choice(s)
    BY <2>4 DEF Choice
  <2>6. PICK t \in SUBSET S : t = s \ {c}
    BY <2>3
  <2>7. t \notin Bad
    <3>1. t \in SUBSET s /\ t # s /\ IsFiniteSet(s) /\ IsFiniteSet(t)
      BY <2>3, <2>5, <2>6, FS_Subset
    <3> HIDE DEF Bad
    <3> QED
      BY <2>2, <2>3, <3>1 DEF StrictSubsetOrdering, FiniteSubsetsOf
  <2>8. a[s] = f[c] + a[t]
    BY <1>1, <2>3, <2>4, <2>5, <2>6 DEF Unfolds
  <2>9. f[c] \in Nat /\ a[t] \in Nat
    BY <2>3, <2>5, <2>7
  <2> QED
    BY <2>8, <2>9
<1> QED
  BY <1>1, <1>3

\* The excess of the settlements of a cycle is never a credit, and changes with
\* the entry that a step writes.
LEMMA OverrunChange ==
    ASSUME ledger \in [Keys -> [Kinds -> Entry]], NEW c \in Nat, NEW k \in Keys, NEW kind \in Kinds,
           NEW entry \in Entry, ledger' = [ledger EXCEPT ![k][kind] = entry]
    PROVE  /\ Overrun(c) \in Nat /\ Overrun(c)' \in Int
           /\ Overrun(c)' = Overrun(c) + Excess(kind, entry, c) - Excess(kind, ledger[k][kind], c)
<1> DEFINE Places == Keys \X Kinds
<1>1. PICK f : f = Excesses(c)
  OBVIOUS
<1>2. PICK h : h = [e \in Places |-> IF e = <<k, kind>> THEN Excess(kind, entry, c) ELSE f[e]]
  OBVIOUS
<1>3. \A e \in Entry : \A l \in Kinds : Excess(l, e, c) \in Nat
  BY DEF Excess, Charge, Entry
<1>4. \A e \in Places : e[1] \in Keys /\ e[2] \in Kinds /\ e = <<e[1], e[2]>>
  OBVIOUS
<1>5. \A e \in Places : ledger[e[1]][e[2]] \in Entry
  BY <1>4
<1>6. f \in [Places -> Nat] /\ f[<<k, kind>>] = Excess(kind, ledger[k][kind], c)
  BY <1>1, <1>3, <1>4, <1>5 DEF Excesses
<1>7. h \in [Places -> Nat] /\ h[<<k, kind>>] = Excess(kind, entry, c)
  BY <1>2, <1>3, <1>6
<1>8. Excesses(c)' = h
  <2>1. \A e \in Places : ledger'[e[1]][e[2]] = IF e = <<k, kind>> THEN entry ELSE ledger[e[1]][e[2]]
    BY <1>4
  <2>2. Excesses(c)' = [e \in Places |-> Excess(e[2], ledger'[e[1]][e[2]], c)]
    BY DEF Excesses, Excess, Charge
  <2>3. \A e \in Places : f[e] = Excess(e[2], ledger[e[1]][e[2]], c)
    BY <1>1 DEF Excesses
  <2>4. \A e \in Places : h[e] = Excess(e[2], ledger'[e[1]][e[2]], c)
    BY <1>2, <1>4, <2>1, <2>3
  <2> QED
    BY <1>2, <2>2, <2>4
<1>9. /\ SumFunctionOnSet(f, Places) \in Nat
      /\ SumFunctionOnSet(h, Places) = SumFunctionOnSet(f, Places) + h[<<k, kind>>] - f[<<k, kind>>]
  <2>1. \A y \in Places : y # <<k, kind>> => h[y] = f[y]
    BY <1>2
  <2>2. <<k, kind>> \in Places /\ IsFiniteSet(Places)
    BY PlacesFinite
  <2> HIDE DEF Places
  <2>3. f \in [Places -> Int] /\ h \in [Places -> Int] /\ \A y \in Places : f[y] \in Nat
    BY <1>6, <1>7
  <2>4. SumFunctionOnSet(f, Places) \in Nat
    BY <2>2, <2>3, SumOfNaturals
  <2> QED
    BY <2>1, <2>2, <2>3, <2>4, SumChange
<1>10. Overrun(c) = SumFunctionOnSet(f, Places) /\ Overrun(c)' = SumFunctionOnSet(h, Places)
  BY <1>1, <1>8 DEF Overrun
<1>11. Excess(kind, entry, c) \in Nat /\ Excess(kind, ledger[k][kind], c) \in Nat
  BY <1>3
<1> QED
  BY <1>6, <1>7, <1>9, <1>10, <1>11

\* What an entry adds to a cycle apart from its excess.
Plan(kind, entry, c) == Charge(entry, c) - Excess(kind, entry, c)

\* Hence so does what is planned, which is at most what is spent.
LEMMA PlannedChange ==
    ASSUME ledger \in [Keys -> [Kinds -> Entry]], NEW c \in Nat, NEW k \in Keys, NEW kind \in Kinds,
           NEW entry \in Entry, ledger' = [ledger EXCEPT ![k][kind] = entry]
    PROVE  /\ Planned(c) \in Int /\ Planned(c)' \in Int /\ Spent(c) \in Int /\ Planned(c) <= Spent(c)
           /\ Planned(c)' = Planned(c) + Plan(kind, entry, c) - Plan(kind, ledger[k][kind], c)
<1>1. /\ Spent(c) \in Int /\ Spent(c)' \in Int
      /\ Spent(c)' = Spent(c) + Charge(entry, c) - Charge(ledger[k][kind], c)
  BY SpentChange
<1>2. /\ Overrun(c) \in Nat /\ Overrun(c)' \in Int
      /\ Overrun(c)' = Overrun(c) + Excess(kind, entry, c) - Excess(kind, ledger[k][kind], c)
  BY OverrunChange
<1>3. \A e \in Entry : Charge(e, c) \in Int /\ Excess(kind, e, c) \in Int
  BY DEF Excess, Charge, Entry
<1>4. /\ Charge(entry, c) \in Int /\ Excess(kind, entry, c) \in Int
      /\ Charge(ledger[k][kind], c) \in Int /\ Excess(kind, ledger[k][kind], c) \in Int
  BY <1>3
<1>5. Planned(c) = Spent(c) - Overrun(c) /\ Planned(c)' = Spent(c)' - Overrun(c)'
  BY DEF Planned
<1> QED
  BY <1>1, <1>2, <1>4, <1>5 DEF Plan

\* What is planned is a number, and at most what is spent.
LEMMA PlannedIsNumber ==
    ASSUME TypeOK, NEW c \in Nat
    PROVE  Planned(c) \in Int /\ Spent(c) \in Int /\ Planned(c) <= Spent(c)
<1>1. \A e \in Keys \X Kinds : Excesses(c)[e] \in Nat /\ Charges(c)[e] \in Int
  <2>1. \A e \in Keys \X Kinds : ledger[e[1]][e[2]] \in Entry
    BY DEF TypeOK
  <2> QED
    BY <2>1 DEF Excesses, Charges, Excess, Charge, Entry
<1>2. Overrun(c) \in Nat
  BY <1>1, PlacesFinite, SumOfNaturals DEF Overrun
<1>3. Spent(c) \in Int
  <2>1. CASE Keys = {}
    <3>1. \A k \in Keys : \A kind \in Kinds : Charge(ledger[k][kind], c) = 0
      BY <2>1
    <3> QED
      BY <3>1, SpentNothing
  <2>2. CASE Keys # {}
    <3>1. PICK k \in Keys : TRUE
      BY <2>2
    <3>2. "reserve" \in Kinds /\ <<k, "reserve">> \in Keys \X Kinds
      BY DEF Kinds
    <3>3. Charges(c) \in [Keys \X Kinds -> Int]
      BY <1>1 DEF Charges
    <3> QED
      BY <3>2, <3>3, PlacesFinite, SumChange DEF Spent
  <2> QED
    BY <2>1, <2>2
<1> QED
  BY <1>2, <1>3 DEF Planned

\* Nothing is planned in a cycle that has no entry.
LEMMA PlannedNothing ==
    ASSUME NEW c, \A k \in Keys : \A kind \in Kinds : Charge(ledger[k][kind], c) = 0
    PROVE  Planned(c) = 0
<1>1. PICK f : f = Excesses(c)
  OBVIOUS
<1>2. \A e \in Keys \X Kinds : f[e] = 0
  BY <1>1 DEF Excesses, Excess
<1>3. Overrun(c) = 0
  BY <1>1, <1>2, PlacesFinite, SumOfZeros DEF Overrun
<1> QED
  BY <1>3, SpentNothing DEF Planned

-----------------------------------------------------------------------------
(* What the operations on a reservation do to the sums.                      *)

\* A step spends nothing in any cycle and dates no row ahead of the current one.
SpendsNothing ==
    /\ \A c \in Nat : Planned(c) \in Int /\ Planned(c)' \in Int /\ Planned(c)' <= Planned(c)
    /\ \A k \in Keys : res'[k].cycle <= cycle /\ \A kind \in Kinds : ledger'[k][kind].cycle <= cycle

\* Nor does a step that leaves the books alone.
LEMMA BooksUnchanged ==
    ASSUME TypeOK, NothingAhead, UNCHANGED <<res, ledger>>
    PROVE  SpendsNothing
<1>1. \A c \in Nat : Planned(c)' = Planned(c)
  BY DEF Planned, Spent, Charges, Charge, Overrun, Excesses, Excess
<1>2. \A c \in Nat : Planned(c) \in Int
  BY PlannedIsNumber
<1> QED
  BY <1>1, <1>2 DEF SpendsNothing, NothingAhead, TypeOK, ResType, Entry

\* A step that posts a settlement, or an entry of at most nothing, where none was
\* posted.
LEMMA PostsCredit ==
    ASSUME TypeOK, LedgerKept, NothingAhead, NEW k \in Keys, NEW kind \in Kinds, NEW entry \in Entry,
           ~ledger[k][kind].posted, entry.amount <= 0 \/ kind = "reconcile", entry.cycle <= cycle,
           ledger' = [ledger EXCEPT ![k][kind] = entry],
           \A j \in Keys : res'[j].cycle = res[j].cycle
    PROVE  SpendsNothing
<1>1. ledger \in [Keys -> [Kinds -> Entry]] /\ KeptAt(k) /\ cycle \in Nat /\ ledger[k][kind] \in Entry
  BY DEF TypeOK, LedgerKept
<1>2. ledger[k][kind].amount = 0
  BY <1>1 DEF KeptAt, Kinds
<1>3. ASSUME NEW c \in Nat
      PROVE  Planned(c) \in Int /\ Planned(c)' \in Int /\ Planned(c)' <= Planned(c)
  <2>1. /\ Planned(c) \in Int /\ Planned(c)' \in Int
        /\ Planned(c)' = Planned(c) + Plan(kind, entry, c) - Plan(kind, ledger[k][kind], c)
    BY <1>1, PlannedChange
  <2>2. Plan(kind, entry, c) \in Int /\ Plan(kind, entry, c) <= 0 /\ Plan(kind, ledger[k][kind], c) = 0
    BY <1>1, <1>2 DEF Plan, Excess, Charge, Entry
  <2> QED
    BY <2>1, <2>2
<1>4. \A j \in Keys : \A l \in Kinds : ledger'[j][l] = ledger[j][l] \/ ledger'[j][l] = entry
  BY <1>1
<1> QED
  BY <1>3, <1>4 DEF SpendsNothing, NothingAhead

\* The amounts reserved stay.
ReservedStays == \A k \in Keys : res'[k].reserved = res[k].reserved /\ res'[k].cycle = res[k].cycle
                                 /\ (res'[k].status = "none" => res[k].status = "none")

\* A settlement spends nothing but its excess.
LEMMA SettleSpends ==
    ASSUME TypeOK, LedgerKept, NothingAhead, NEW k \in Keys, NEW actual \in Int, NEW at \in Nat,
           at <= cycle, Settle(k, actual, at)
    PROVE  SpendsNothing /\ ReservedStays
<1>1. res \in [Keys -> ResType] /\ ledger \in [Keys -> [Kinds -> Entry]] /\ KeptAt(k) /\ res[k] \in ResType
  BY DEF TypeOK, LedgerKept
<1>2. CASE res[k].status # "reserved"
  <2>1. UNCHANGED <<res, ledger>>
    BY <1>2 DEF Settle
  <2> QED
    BY <2>1, BooksUnchanged DEF ReservedStays
<1>3. CASE res[k].status = "reserved"
  <2> DEFINE entry == [posted |-> TRUE, amount |-> actual - res[k].reserved, cycle |-> at]
  <2>1. ~ledger[k]["reconcile"].posted /\ "reconcile" \in Kinds
    BY <1>1, <1>3 DEF KeptAt, Kinds
  <2>2. /\ res' = [res EXCEPT ![k].status = "reconciled", ![k].actual = actual]
        /\ ledger' = [ledger EXCEPT ![k]["reconcile"] = entry]
    BY <1>3, <2>1 DEF Settle, Post
  <2>3. res[k].reserved \in Int
    BY <1>1 DEF ResType
  <2>4. entry \in Entry /\ entry.cycle <= cycle
    BY <2>3 DEF Entry
  <2>5. ReservedStays
    BY <1>1, <2>2 DEF ReservedStays, ResType
  <2>6. \A j \in Keys : res'[j].cycle = res[j].cycle
    BY <2>5 DEF ReservedStays
  <2> HIDE DEF entry
  <2>7. SpendsNothing
    BY <2>1, <2>2, <2>4, <2>6, PostsCredit
  <2> QED
    BY <2>5, <2>7
<1> QED
  BY <1>2, <1>3

\* Nor does the release of an orphan.
LEMMA ReleaseSpends ==
    ASSUME TypeOK, LedgerKept, NothingAhead, ReservationCovers, NEW k \in Keys, ReleaseOrphan(k)
    PROVE  SpendsNothing /\ ReservedStays
<1>1. /\ res \in [Keys -> ResType] /\ ledger \in [Keys -> [Kinds -> Entry]] /\ KeptAt(k) /\ res[k] \in ResType
      /\ cycle \in Nat /\ res[k].status = "reserved"
  BY DEF TypeOK, LedgerKept, ReleaseOrphan
<1> DEFINE entry == [posted |-> TRUE, amount |-> -res[k].reserved, cycle |-> cycle]
           row == [status |-> "released", reserved |-> res[k].reserved, actual |-> 0, cycle |-> res[k].cycle]
<1>2. ~ledger[k]["release"].posted /\ "release" \in Kinds
  BY <1>1 DEF KeptAt, Kinds
<1>3. res' = [res EXCEPT ![k] = row] /\ ledger' = [ledger EXCEPT ![k]["release"] = entry]
  BY <1>2 DEF ReleaseOrphan, Post
<1>4. res[k].reserved \in Int /\ res[k].reserved >= 0
  BY <1>1 DEF ResType, ReservationCovers
<1>5. entry \in Entry /\ entry.amount <= 0 /\ entry.cycle <= cycle
  BY <1>1, <1>4 DEF Entry
<1>6. ReservedStays
  BY <1>1, <1>3 DEF ReservedStays
<1>7. \A j \in Keys : res'[j].cycle = res[j].cycle
  BY <1>6 DEF ReservedStays
<1> HIDE DEF entry
<1>8. SpendsNothing
  BY <1>2, <1>3, <1>5, <1>7, PostsCredit
<1> QED
  BY <1>6, <1>8

\* A reservation of some amount spends at most the amount, and that in the cycle
\* it is dated in.
LEMMA InsertSpends ==
    ASSUME TypeOK, LedgerKept, NothingAhead, NEW k \in Keys, NEW amount \in Nat, NEW exceeded \in BOOLEAN,
           NEW at \in Nat, at <= cycle, res[k].status = "none", Insert(k, amount, exceeded, at)
    PROVE  /\ \A c \in Nat : /\ Planned(c) \in Int /\ Planned(c)' \in Int
                             /\ Planned(c)' = Planned(c) + IF ~exceeded /\ at = c THEN amount ELSE 0
           /\ \A j \in Keys : res'[j].cycle <= cycle /\ \A kind \in Kinds : ledger'[j][kind].cycle <= cycle
           /\ \A j \in Keys : j # k => res'[j] = res[j]
           /\ res'[k].reserved = (IF exceeded THEN 0 ELSE amount) /\ res'[k].status # "none"
<1>1. res \in [Keys -> ResType] /\ ledger \in [Keys -> [Kinds -> Entry]] /\ KeptAt(k) /\ cycle \in Nat
  BY DEF TypeOK, LedgerKept
<1> DEFINE row == [status |-> IF exceeded THEN "blocked" ELSE "reserved",
                   reserved |-> IF exceeded THEN 0 ELSE amount, actual |-> 0, cycle |-> at]
<1>2. res' = [res EXCEPT ![k] = row]
  BY DEF Insert
<1>3. /\ \A j \in Keys : j # k => res'[j] = res[j]
      /\ res'[k].reserved = (IF exceeded THEN 0 ELSE amount) /\ res'[k].status # "none" /\ res'[k].cycle = at
  BY <1>1, <1>2
<1>4. \A j \in Keys : res'[j].cycle <= cycle
  BY <1>3 DEF NothingAhead
<1>5. CASE exceeded
  <2>1. ledger' = ledger
    BY <1>5 DEF Insert
  <2>2. ledger' = [ledger EXCEPT ![k]["reserve"] = ledger[k]["reserve"]] /\ "reserve" \in Kinds
        /\ ledger[k]["reserve"] \in Entry
    BY <1>1, <2>1 DEF Kinds
  <2>3. ASSUME NEW c \in Nat
        PROVE  Planned(c) \in Int /\ Planned(c)' \in Int /\ Planned(c)' = Planned(c)
    <3>1. Planned(c)' = Planned(c)
      BY <2>1 DEF Planned, Spent, Charges, Charge, Overrun, Excesses, Excess
    <3> QED
      BY <1>1, <2>2, <3>1, PlannedChange
  <2> QED
    BY <1>3, <1>4, <1>5, <2>1, <2>3 DEF NothingAhead
<1>6. CASE ~exceeded
  <2> DEFINE entry == [posted |-> TRUE, amount |-> amount, cycle |-> at]
  <2>1. ~ledger[k]["reserve"].posted /\ "reserve" \in Kinds /\ ledger[k]["reserve"].amount = 0
    BY <1>1 DEF KeptAt, Kinds
  <2>2. ledger' = [ledger EXCEPT ![k]["reserve"] = entry] /\ entry \in Entry
    BY <1>6, <2>1 DEF Insert, Post, Entry
  <2>3. ASSUME NEW c \in Nat
        PROVE  Planned(c) \in Int /\ Planned(c)' \in Int /\ Planned(c)' = Planned(c) + IF at = c THEN amount ELSE 0
    <3>1. Plan("reserve", entry, c) = (IF at = c THEN amount ELSE 0) /\ Plan("reserve", ledger[k]["reserve"], c) = 0
      BY <2>1 DEF Plan, Excess, Charge
    <3> HIDE DEF entry
    <3>2. /\ Planned(c) \in Int /\ Planned(c)' \in Int
          /\ Planned(c)' = Planned(c) + Plan("reserve", entry, c) - Plan("reserve", ledger[k]["reserve"], c)
      BY <1>1, <2>1, <2>2, PlannedChange
    <3> QED
      BY <3>1, <3>2
  <2>4. \A j \in Keys : \A l \in Kinds : ledger'[j][l] = ledger[j][l] \/ ledger'[j][l].cycle = at
    BY <1>1, <2>2
  <2>5. \A j \in Keys : \A l \in Kinds : ledger'[j][l].cycle <= cycle
    BY <2>4 DEF NothingAhead
  <2> QED
    BY <1>3, <1>4, <1>6, <2>3, <2>5
<1> QED
  BY <1>5, <1>6

\* An extension spends at most what it adds.
LEMMA ExtendSpends ==
    ASSUME TypeOK, LedgerKept, NothingAhead, NEW r \in Requests, Additional(r) > 0, Extend(r)
    PROVE  /\ \A c \in Nat : Planned(c) \in Int /\ Planned(c)' \in Int /\ Planned(c)' <= Planned(c) + Additional(r)
           /\ \A j \in Keys : res'[j].cycle <= cycle /\ \A kind \in Kinds : ledger'[j][kind].cycle <= cycle
           /\ \A j \in Keys : j # Key(r) => res'[j] = res[j]
           /\ res'[Key(r)].reserved = run[r].cost + CallEstimate
           /\ res'[Key(r)].status = res[Key(r)].status /\ Additional(r) \in Int
<1>0. run \in [Requests -> RunType] /\ run[r] \in RunType
  BY DEF TypeOK
<1>1. PICK k \in Keys : k = Key(r)
  BY <1>0, KeyNames DEF Key, RunType
<1>2. res \in [Keys -> ResType] /\ ledger \in [Keys -> [Kinds -> Entry]] /\ res[k] \in ResType
      /\ ledger[k]["reserve"] \in Entry /\ "reserve" \in Kinds /\ cycle \in Nat
  BY <1>1 DEF TypeOK, Kinds
<1>3. PICK more \in Int : more = Additional(r) /\ more > 0
  BY <1>0, <1>1, <1>2, ConstantsAreNat DEF Additional, RunType, ResType
<1> DEFINE row == [res[k] EXCEPT !.reserved = @ + more]
           entry == [ledger[k]["reserve"] EXCEPT !.amount = @ + more]
<1>4. res' = [res EXCEPT ![k] = row] /\ ledger' = [ledger EXCEPT ![k]["reserve"] = entry]
  BY <1>1, <1>2, <1>3 DEF Extend
<1>5. /\ row.reserved = res[k].reserved + more /\ row.status = res[k].status /\ row.cycle = res[k].cycle
      /\ entry \in Entry /\ entry.amount = ledger[k]["reserve"].amount + more
      /\ entry.cycle = ledger[k]["reserve"].cycle
  <2>1. row.reserved = res[k].reserved + more /\ row.status = res[k].status /\ row.cycle = res[k].cycle
    BY <1>2 DEF ResType
  <2>2. /\ entry.amount = ledger[k]["reserve"].amount + more /\ entry.cycle = ledger[k]["reserve"].cycle
        /\ ledger[k]["reserve"].amount + more \in Int
    BY <1>2 DEF Entry
  <2>3. entry \in Entry
    BY <1>2, <2>2 DEF Entry
  <2> QED
    BY <2>1, <2>2, <2>3
<1> HIDE DEF row, entry
<1>6. \A j \in Keys : res'[j] = IF j = k THEN row ELSE res[j]
  BY <1>2, <1>4
<1>7. res'[k].reserved = run[r].cost + CallEstimate
  BY <1>0, <1>1, <1>2, <1>3, <1>5, <1>6, ConstantsAreNat DEF Additional, RunType, ResType
<1>8. \A j \in Keys : \A l \in Kinds : ledger'[j][l].cycle = ledger[j][l].cycle
  BY <1>2, <1>4, <1>5
<1>9. ASSUME NEW c \in Nat
      PROVE  Planned(c) \in Int /\ Planned(c)' \in Int /\ Planned(c)' <= Planned(c) + more
  <2>1. /\ Planned(c) \in Int /\ Planned(c)' \in Int
        /\ Planned(c)' = Planned(c) + Plan("reserve", entry, c) - Plan("reserve", ledger[k]["reserve"], c)
    BY <1>2, <1>4, <1>5, PlannedChange
  <2>2. /\ Plan("reserve", entry, c) \in Int /\ Plan("reserve", ledger[k]["reserve"], c) \in Int
        /\ Plan("reserve", entry, c) <= Plan("reserve", ledger[k]["reserve"], c) + more
    BY <1>2, <1>3, <1>5 DEF Plan, Excess, Charge, Entry
  <2> QED
    BY <1>3, <2>1, <2>2
<1> QED
  BY <1>1, <1>3, <1>5, <1>6, <1>7, <1>8, <1>9 DEF NothingAhead

-----------------------------------------------------------------------------
(* Every step keeps the ledger of the current cycle within the hard limit.   *)

\* What is spent in the current cycle, while the cycle lasts.
LEMMA PlannedNow ==
    ASSUME cycle' = cycle, NEW c, c = cycle
    PROVE  Planned(cycle)' = Planned(c)' /\ Planned(cycle) = Planned(c)
BY DEF Planned, Spent, Charges, Charge, Overrun, Excesses, Excess

\* Preparers date nothing ahead, and none comes to hold a check.
ChecksStay ==
    \A p \in Preparers : prep'[p].at <= cycle /\ (prep'[p].pc = "checked" => prep'[p] = prep[p])

\* A step that spends nothing and checks nothing leaves what was checked true.
LEMMA SpendingStep ==
    ASSUME AdmissionInv, SpendingInv, cycle' = cycle, SpendsNothing, ChecksStay, ReservationCovers'
    PROVE  SpendingInv'
<1>1. PICK c \in Nat : c = cycle
  BY DEF AdmissionInv, TypeOK
<1>2. /\ Planned(cycle)' = Planned(c)' /\ Planned(cycle) = Planned(c)
      /\ Planned(c) \in Int /\ Planned(c)' \in Int /\ Planned(c)' <= Planned(c)
  BY <1>1, PlannedNow DEF SpendsNothing
<1>3. WithinLimit'
  BY <1>2, ConstantsAreNat DEF SpendingInv, WithinLimit
<1>4. CheckStands'
  <2>1. SUFFICES ASSUME NEW p \in Preparers, prep'[p].pc = "checked", ~prep'[p].exceeded, prep'[p].at = cycle
                 PROVE  Planned(c)' + Estimate <= HardLimit
    BY <1>2 DEF CheckStands
  <2>2. Planned(c) + Estimate <= HardLimit
    BY <1>2, <2>1 DEF SpendingInv, CheckStands, ChecksStay
  <2> QED
    BY <1>2, <2>2, ConstantsAreNat
<1>5. NothingAhead'
  BY DEF SpendsNothing, ChecksStay, NothingAhead
<1> QED
  BY <1>3, <1>4, <1>5 DEF SpendingInv

\* The excess of a call is a natural number, and bounds what a call costs.
LEMMA ExcessOfCall == CallExcess \in Nat /\ MaxCallCost <= CallEstimate + CallExcess
BY ConstantsAreNat DEF CallExcess

\* What is reserved still covers a run that neither calls nor pays.
LEMMA CoverStays ==
    ASSUME AdmissionInv, SpendingInv, ReservedStays,
           \A r \in Requests : /\ run'[r].generation = run[r].generation /\ run'[r].cost = run[r].cost
                               /\ run'[r].state = "calling" => run[r].state = "calling"
    PROVE  ReservationCovers'
<1>1. /\ run \in [Requests -> RunType] /\ res \in [Keys -> ResType]
      /\ \A r \in Requests : Key(r) \in Keys
  BY KeyNames DEF AdmissionInv, TypeOK, Key, RunType
<1>2. \A k \in Keys : res'[k].reserved >= 0 /\ (res'[k].status = "none" => res'[k].reserved = 0)
  BY DEF SpendingInv, ReservationCovers, ReservedStays
<1>3. ASSUME NEW r \in Requests PROVE CallCovered(r)'
  <2>1. Key(r)' = Key(r) /\ res'[Key(r)].reserved = res[Key(r)].reserved /\ CallCovered(r)
    BY <1>1 DEF Key, ReservedStays, SpendingInv, ReservationCovers
  <2>2. run[r].cost \in Nat /\ res[Key(r)].reserved \in Int
    BY <1>1 DEF RunType, ResType
  <2> QED
    BY <2>1, <2>2, ExcessOfCall, ConstantsAreNat DEF CallCovered
<1> QED
  BY <1>2, <1>3 DEF ReservationCovers

\* A preparer that abandons, fails, reuses a reservation, is admitted, closes or
\* begins touches no money.
LEMMA PreparerSpends ==
    ASSUME AdmissionInv, SpendingInv, NEW p \in Preparers,
           \/ Abandon(p) \/ PreparationFails(p) \/ ReuseReservation(p) \/ Admit(p) \/ FailAdmission(p)
           \/ \E r \in Requests : BeginAdmission(p, r)
    PROVE  SpendingInv'
<1>1. /\ prep \in [Preparers -> PrepType] /\ run \in [Requests -> RunType] /\ cycle \in Nat /\ TypeOK
      /\ NothingAhead
  BY DEF AdmissionInv, TypeOK, SpendingInv
<1>2. UNCHANGED <<res, ledger, cycle>>
  BY DEF Abandon, PreparationFails, ReuseReservation, Admit, FailAdmission, BeginAdmission
<1>3. SpendsNothing
  BY <1>1, <1>2, BooksUnchanged
<1>4. ReservedStays
  BY <1>2 DEF ReservedStays
<1>5. \A r \in Requests : /\ run'[r].generation = run[r].generation /\ run'[r].cost = run[r].cost
                          /\ run'[r].state = "calling" => run[r].state = "calling"
  <2>1. CASE Admit(p)
    <3>1. UNCHANGED run \/ run' = [run EXCEPT ![prep[p].req].state = "running"]
      BY <2>1 DEF Admit
    <3> QED
      BY <1>1, <3>1 DEF RunType
  <2>2. CASE UNCHANGED run
    BY <2>2
  <2> QED
    BY <2>1, <2>2 DEF Abandon, PreparationFails, ReuseReservation, FailAdmission, BeginAdmission
<1>6. ChecksStay
  <2>1. \/ prep' = [prep EXCEPT ![p] = Idle]
        \/ \E pc \in {"failing", "reserved", "superseded"} : prep' = [prep EXCEPT ![p].pc = pc]
        \/ \E r \in Requests :
              prep' = [prep EXCEPT ![p] = [pc |-> "began", req |-> r, attempt |-> intent[r].attempt + 1,
                                           exceeded |-> FALSE, at |-> cycle]]
    BY DEF Abandon, PreparationFails, ReuseReservation, Admit, FailAdmission, BeginAdmission, Go
  <2>2. CASE prep' = [prep EXCEPT ![p] = Idle]
    BY <1>1, <2>2 DEF ChecksStay, Idle, NothingAhead
  <2>3. ASSUME NEW pc \in {"failing", "reserved", "superseded"}, prep' = [prep EXCEPT ![p].pc = pc]
        PROVE  ChecksStay
    <3>1. \A q \in Preparers : prep'[q].at = prep[q].at /\ (q # p => prep'[q] = prep[q])
      BY <1>1, <2>3 DEF PrepType
    <3>2. prep'[p].pc = pc
      BY <1>1, <2>3 DEF PrepType
    <3> QED
      BY <1>1, <3>1, <3>2 DEF ChecksStay, NothingAhead
  <2>4. ASSUME NEW r \in Requests,
               prep' = [prep EXCEPT ![p] = [pc |-> "began", req |-> r, attempt |-> intent[r].attempt + 1,
                                            exceeded |-> FALSE, at |-> cycle]]
        PROVE  ChecksStay
    BY <1>1, <2>4 DEF ChecksStay, NothingAhead
  <2> QED
    BY <2>1, <2>2, <2>3, <2>4
<1>7. ReservationCovers'
  BY <1>4, <1>5, CoverStays
<1> QED
  BY <1>2, <1>3, <1>6, <1>7, SpendingStep

\* The check is true of the ledger when it is made, and its maker holds the lock.
LEMMA CheckSpends ==
    ASSUME AdmissionInv, SpendingInv, NEW p \in Preparers, CheckBudget(p)
    PROVE  SpendingInv'
<1>1. /\ prep \in [Preparers -> PrepType] /\ cycle \in Nat /\ TypeOK /\ NothingAhead
      /\ UNCHANGED <<run, res, ledger, cycle>> /\ lock = Free
      /\ \A q \in Preparers : lock = q <=> prep[q].pc = "checked"
  BY DEF AdmissionInv, TypeOK, SpendingInv, CheckBudget, LockFree
<1>2. PICK over \in BOOLEAN : over = Exceeds(Estimate)
  BY ExceedsIsBoolean
<1>3. PICK at \in prep[p].at .. cycle :
           prep' = [prep EXCEPT ![p].pc = "checked", ![p].exceeded = over, ![p].at = at]
  BY <1>2 DEF CheckBudget
<1>4. at \in Nat /\ at <= cycle
  BY <1>1 DEF PrepType
<1>5. \A q \in Preparers : q # p => prep'[q] = prep[q] /\ prep[q].pc # "checked"
  BY <1>1, <1>3, SentinelAssumption
<1>6. prep'[p].at = at /\ prep'[p].exceeded = over
  BY <1>1, <1>3 DEF PrepType
<1>7. PICK c \in Nat : c = cycle
  BY <1>1
<1>8. Planned(c) \in Int /\ Planned(cycle)' = Planned(c) /\ Planned(cycle) = Planned(c)
  <2>1. Planned(c)' = Planned(c)
    BY <1>1 DEF Planned, Spent, Charges, Charge, Overrun, Excesses, Excess
  <2> QED
    BY <1>1, <1>7, <2>1, PlannedNow, BooksUnchanged DEF SpendsNothing
<1>9. WithinLimit'
  BY <1>8 DEF SpendingInv, WithinLimit
<1>10. CheckStands'
  <2>0. over <=> Spent(c) + Estimate > HardLimit
    BY <1>2, <1>7, Zenon DEF Exceeds
  <2>1. ~over => Planned(c) + Estimate <= HardLimit
    BY <1>1, <2>0, PlannedIsNumber, ConstantsAreNat
  <2> QED
    BY <1>5, <1>6, <1>8, <2>1 DEF CheckStands
<1>11. NothingAhead'
  BY <1>1, <1>4, <1>5, <1>6 DEF NothingAhead
<1>12. ReservationCovers'
  <2>1. ReservedStays
    BY <1>1 DEF ReservedStays
  <2> QED
    BY <1>1, <2>1, CoverStays
<1> QED
  BY <1>9, <1>10, <1>11, <1>12 DEF SpendingInv

\* The insert spends what its check allowed, and nobody else spends in between.
LEMMA InsertStepSpends ==
    ASSUME AdmissionInv, SpendingInv, NEW p \in Preparers, InsertReservation(p)
    PROVE  SpendingInv'
<1>1. /\ prep \in [Preparers -> PrepType] /\ cycle \in Nat /\ TypeOK /\ NothingAhead /\ LedgerKept
      /\ UNCHANGED <<run, cycle>> /\ prep[p].pc = "checked" /\ run \in [Requests -> RunType]
      /\ res \in [Keys -> ResType]
      /\ \A q \in Preparers : lock = q <=> prep[q].pc = "checked"
  BY DEF AdmissionInv, TypeOK, SpendingInv, InsertReservation
<1>2. PICK k \in Keys : k = <<prep[p].req, 0>>
  BY <1>1, UnderWay
<1>3. PICK over \in BOOLEAN : over = prep[p].exceeded
  BY <1>1 DEF PrepType
<1>4. PICK at \in Nat : at = prep[p].at /\ at <= cycle
  BY <1>1 DEF PrepType, NothingAhead
<1>5. res[k].status = "none" /\ Insert(k, Estimate, over, at)
  BY <1>1, <1>2, <1>3, <1>4 DEF AdmissionInv, CheckedIsNew, InsertReservation
<1>6. /\ \A c \in Nat : /\ Planned(c) \in Int /\ Planned(c)' \in Int
                        /\ Planned(c)' = Planned(c) + IF ~over /\ at = c THEN Estimate ELSE 0
      /\ \A j \in Keys : res'[j].cycle <= cycle /\ \A kind \in Kinds : ledger'[j][kind].cycle <= cycle
      /\ \A j \in Keys : j # k => res'[j] = res[j]
      /\ res'[k].reserved = (IF over THEN 0 ELSE Estimate) /\ res'[k].status # "none"
  BY <1>1, <1>4, <1>5, InsertSpends, ConstantsAreNat
<1>7. \A q \in Preparers : prep'[q].pc # "checked" /\ prep'[q].at = prep[q].at
  <2>1. PICK pc \in {"failing", "reserved"} : prep' = [prep EXCEPT ![p].pc = pc]
    BY DEF InsertReservation, Go
  <2>2. \A q \in Preparers : prep'[q].pc = (IF q = p THEN pc ELSE prep[q].pc) /\ prep'[q].at = prep[q].at
    BY <1>1, <2>1 DEF PrepType
  <2> QED
    BY <1>1, <2>2
<1>8. PICK c \in Nat : c = cycle
  BY <1>1
<1>9. Planned(cycle)' = Planned(c)' /\ Planned(cycle) = Planned(c)
  BY <1>1, <1>8, PlannedNow
<1>10. WithinLimit'
  <2>1. CASE ~over /\ at = c
    <3>1. Planned(c) + Estimate <= HardLimit
      BY <1>1, <1>3, <1>4, <1>8, <1>9, <2>1 DEF SpendingInv, CheckStands
    <3> QED
      BY <1>6, <1>9, <2>1, <3>1 DEF WithinLimit
  <2>2. CASE ~(~over /\ at = c)
    <3>1. Planned(c)' = Planned(c)
      BY <1>6, <2>2
    <3> QED
      BY <1>9, <3>1 DEF SpendingInv, WithinLimit
  <2> QED
    BY <2>1, <2>2
<1>11. CheckStands'
  BY <1>7 DEF CheckStands
<1>12. NothingAhead'
  BY <1>1, <1>6, <1>7 DEF NothingAhead
<1>13. ReservationCovers'
  <2>1. \A j \in Keys : res'[j].reserved >= res[j].reserved /\ res'[j].reserved >= 0
                        /\ (res'[j].status = "none" => res'[j].reserved = 0)
    <3>1. \A j \in Keys : /\ res[j].reserved \in Int /\ res[j].reserved >= 0
                          /\ res[j].status = "none" => res[j].reserved = 0
      BY <1>1 DEF SpendingInv, ReservationCovers, ResType
    <3>2. \A j \in Keys : j # k => res'[j] = res[j]
      BY <1>6
    <3>3. res[k].reserved = 0 /\ res'[k].reserved \in Nat /\ res'[k].status # "none"
      BY <1>5, <1>6, <3>1, ConstantsAreNat
    <3> QED
      BY <3>1, <3>2, <3>3
  <2>2. ASSUME NEW r \in Requests PROVE CallCovered(r)'
    <3>1. Key(r)' = Key(r) /\ Key(r) \in Keys /\ CallCovered(r) /\ run'[r] = run[r]
      BY <1>1, KeyNames DEF Key, RunType, SpendingInv, ReservationCovers
    <3>2. run[r].cost \in Nat /\ res[Key(r)].reserved \in Int /\ res'[Key(r)].reserved >= res[Key(r)].reserved
      BY <1>1, <2>1, <3>1 DEF RunType, ResType
    <3>3. res'[Key(r)].reserved \in Int
      BY <1>1, <1>6, <3>1, ConstantsAreNat DEF ResType
    <3> QED
      BY <3>1, <3>2, <3>3, ExcessOfCall, ConstantsAreNat DEF CallCovered
  <2> QED
    BY <2>1, <2>2 DEF ReservationCovers
<1> QED
  BY <1>10, <1>11, <1>12, <1>13 DEF SpendingInv

\* Preparers that are left alone hold what they held.
LEMMA ChecksUntouched ==
    ASSUME SpendingInv, prep' = prep
    PROVE  ChecksStay
BY DEF SpendingInv, NothingAhead, ChecksStay

\* A settlement at nothing: a failed preparation, the sweep, a refused recovery.
LEMMA ReleaseStepsSpend ==
    ASSUME AdmissionInv, SpendingInv,
           \/ \E p \in Preparers : ReleaseFailed(p)
           \/ \E r \in Requests : SweepAdmission(r) \/ RecoverRelease(r)
           \/ \E k \in Keys : ReleaseOrphan(k)
    PROVE  SpendingInv'
<1>1. /\ prep \in [Preparers -> PrepType] /\ cycle \in Nat /\ TypeOK /\ NothingAhead /\ LedgerKept
      /\ res \in [Keys -> ResType] /\ run \in [Requests -> RunType] /\ ReservationCovers
  BY DEF AdmissionInv, TypeOK, SpendingInv
<1>2. UNCHANGED <<run, cycle>>
  BY DEF ReleaseFailed, SweepAdmission, RecoverRelease, ReleaseOrphan
<1>3. ASSUME NEW k \in Keys, NEW at \in Nat, at <= cycle, Settle(k, 0, at)
      PROVE  SpendsNothing /\ ReservedStays
  <2>1. 0 \in Int /\ 0 <= res[k].reserved
    BY <1>1 DEF ReservationCovers, ResType
  <2> QED
    BY <1>1, <1>3, <2>1, SettleSpends
<1>4. \A k \in Keys : res[k].cycle \in Nat /\ res[k].cycle <= cycle
  BY <1>1 DEF ResType, NothingAhead
<1>5. ASSUME NEW p \in Preparers, ReleaseFailed(p) PROVE SpendingInv'
  <2>1. PICK k \in Keys : k = <<prep[p].req, 0>>
    BY <1>5, UnderWay DEF ReleaseFailed
  <2>2. UNCHANGED <<res, ledger>> \/ Settle(k, 0, res[k].cycle)
    BY <1>5, <2>1 DEF ReleaseFailed, Reconcile
  <2>4. SpendsNothing /\ ReservedStays
    <3>1. UNCHANGED <<res, ledger>> => SpendsNothing /\ ReservedStays
      BY <1>1, BooksUnchanged DEF ReservedStays
    <3> QED
      BY <1>3, <1>4, <2>2, <3>1
  <2>5. ChecksStay
    <3>1. \A q \in Preparers : /\ prep'[q].at = prep[q].at /\ (q # p => prep'[q] = prep[q])
                               /\ prep'[p].pc = "closing"
      BY <1>1, <1>5 DEF ReleaseFailed, Go, PrepType
    <3> QED
      BY <1>1, <3>1 DEF ChecksStay, NothingAhead
  <2>6. ReservationCovers'
    BY <1>2, <2>4, CoverStays
  <2> QED
    BY <1>2, <2>4, <2>5, <2>6, SpendingStep
<1>6. ASSUME prep' = prep, SpendsNothing, ReservedStays PROVE SpendingInv'
  <2>1. ReservationCovers'
    BY <1>2, <1>6, CoverStays
  <2> QED
    BY <1>2, <1>6, <2>1, ChecksUntouched, SpendingStep
<1>7. ASSUME NEW r \in Requests, SweepAdmission(r) PROVE SpendingInv'
  <2>1. PICK k \in Keys : k = <<r, 0>>
    <3>1. <<r, 0>> \in Keys
      BY KeyNames, ConstantsAreNat
    <3> QED
      BY <3>1
  <2>2. Settle(k, 0, cycle) /\ prep' = prep
    BY <1>7, <2>1 DEF SweepAdmission
  <2> QED
    BY <1>1, <1>3, <1>6, <2>2
<1>8. ASSUME NEW r \in Requests, RecoverRelease(r) PROVE SpendingInv'
  <2>1. PICK k \in Keys : k = <<r, run[r].generation + 1>>
    <3>1. run[r].generation < MaxGenerations
      BY <1>8 DEF RecoverRelease, AdmissionInv, RecoveryHolds
    <3> QED
      BY <3>1, NextGeneration
  <2>2. Settle(k, 0, res[k].cycle) /\ prep' = prep
    BY <1>8, <2>1 DEF RecoverRelease, Reconcile
  <2> QED
    BY <1>3, <1>4, <1>6, <2>2
<1>9. ASSUME NEW k \in Keys, ReleaseOrphan(k) PROVE SpendingInv'
  <2>1. SpendsNothing /\ ReservedStays
    BY <1>1, <1>9, ReleaseSpends
  <2> QED
    BY <1>6, <1>9, <2>1 DEF ReleaseOrphan
<1> QED
  BY <1>5, <1>7, <1>8, <1>9

\* Nothing is spent yet in a new cycle, and no check was made in it.
LEMMA CycleSpends ==
    ASSUME AdmissionInv, SpendingInv, NextCycle
    PROVE  SpendingInv'
<1>1. /\ prep \in [Preparers -> PrepType] /\ cycle \in Nat /\ NothingAhead
      /\ res \in [Keys -> ResType] /\ ledger \in [Keys -> [Kinds -> Entry]]
      /\ UNCHANGED <<run, res, ledger, prep>> /\ cycle' = cycle + 1
  BY DEF AdmissionInv, TypeOK, SpendingInv, NextCycle
<1>2. PICK c \in Nat : c = cycle + 1
  BY <1>1
<1>3. Planned(c) = 0
  <2>1. \A k \in Keys : \A kind \in Kinds : ledger[k][kind].cycle \in Nat /\ ledger[k][kind].cycle <= cycle
    BY <1>1 DEF NothingAhead, Entry
  <2>2. \A k \in Keys : \A kind \in Kinds : ledger[k][kind].cycle # c
    BY <1>1, <1>2, <2>1
  <2>3. \A k \in Keys : \A kind \in Kinds : Charge(ledger[k][kind], c) = 0
    BY <2>2 DEF Charge
  <2> QED
    BY <2>3, PlannedNothing
<1>4. Planned(cycle)' = Planned(c)
  BY <1>1, <1>2 DEF Planned, Spent, Charges, Charge, Overrun, Excesses, Excess
<1>5. WithinLimit'
  BY <1>3, <1>4, ConstantsAreNat DEF WithinLimit
<1>6. NothingAhead'
  <2>1. \A k \in Keys : \A kind \in Kinds : ledger[k][kind].cycle \in Nat
    BY <1>1 DEF Entry
  <2>2. \A k \in Keys : res[k].cycle \in Nat
    BY <1>1 DEF ResType
  <2>3. \A p \in Preparers : prep[p].at \in Nat
    BY <1>1 DEF PrepType
  <2> QED
    BY <1>1, <2>1, <2>2, <2>3 DEF NothingAhead
<1>7. CheckStands'
  <2>1. \A p \in Preparers : prep'[p].at # cycle'
    BY <1>1 DEF NothingAhead, PrepType
  <2> QED
    BY <2>1 DEF CheckStands
<1>8. ReservationCovers'
  <2>1. ReservedStays
    BY <1>1 DEF ReservedStays
  <2> QED
    BY <1>1, <2>1, CoverStays
<1> QED
  BY <1>5, <1>6, <1>7, <1>8 DEF SpendingInv

\* A lease that runs out, a refused call, a refused or crashed recovery touch no
\* money; a recovered run starts without usage.
LEMMA QuietSteps ==
    ASSUME AdmissionInv, SpendingInv, NEW r \in Requests,
           ExpirePreparation(r) \/ StopAtLimit(r) \/ RecoverCrash(r) \/ RecoverCommit(r)
    PROVE  SpendingInv'
<1>1. /\ TypeOK /\ NothingAhead /\ run \in [Requests -> RunType] /\ res \in [Keys -> ResType]
  BY DEF AdmissionInv, TypeOK, SpendingInv
<1>2. UNCHANGED <<res, ledger, prep, cycle>>
  BY DEF ExpirePreparation, StopAtLimit, RecoverCrash, RecoverCommit
<1>3. SpendsNothing /\ ReservedStays /\ ChecksStay
  BY <1>1, <1>2, BooksUnchanged, ChecksUntouched DEF ReservedStays
<1>4. CASE UNCHANGED run
  BY <1>2, <1>3, <1>4, CoverStays, SpendingStep
<1>5. CASE StopAtLimit(r)
  <2>1. \A q \in Requests : /\ run'[q].generation = run[q].generation /\ run'[q].cost = run[q].cost
                            /\ run'[q].state = "calling" => run[q].state = "calling"
    BY <1>1, <1>5 DEF StopAtLimit, RunType
  <2> QED
    BY <1>2, <1>3, <2>1, CoverStays, SpendingStep
<1>6. CASE run' = [run EXCEPT ![r] = [state |-> "running", generation |-> @.generation + 1,
                                      calls |-> 0, cost |-> 0, unpriced |-> FALSE]]
           /\ run[r].generation < MaxGenerations
  <2>1. /\ \A q \in Requests : q # r => run'[q] = run[q]
        /\ run'[r].state = "running" /\ run'[r].cost = 0 /\ run'[r].generation = run[r].generation + 1
    BY <1>1, <1>6
  <2>2. \A q \in Requests : q # r => CallCovered(q)'
    BY <1>2, <2>1 DEF CallCovered, Key, SpendingInv, ReservationCovers
  <2>3. <<r, run[r].generation + 1>> \in Keys
    BY <1>6, NextGeneration
  <2>4. CallCovered(r)'
    <3>1. Key(r)' = <<r, run[r].generation + 1>>
      BY <2>1 DEF Key
    <3>2. res'[Key(r)'].reserved \in Int /\ res'[Key(r)'].reserved >= 0
      BY <1>1, <1>2, <2>3, <3>1 DEF SpendingInv, ReservationCovers, ResType
    <3> QED
      BY <2>1, <3>2, ExcessOfCall DEF CallCovered, Key
  <2>5. ReservationCovers'
    BY <1>2, <2>2, <2>4 DEF SpendingInv, ReservationCovers
  <2> QED
    BY <1>2, <1>3, <2>5, SpendingStep
<1> QED
  BY <1>4, <1>5, <1>6 DEF ExpirePreparation, RecoverCrash, RecoverCommit, AdmissionInv, RecoveryHolds

\* The end of a run spends nothing but what its calls cost too much.
LEMMA EndSpends ==
    ASSUME AdmissionInv, SpendingInv, NEW r \in Requests, NEW state \in Ended, End(r, state),
           UNCHANGED <<prep, cycle>>
    PROVE  SpendingInv'
<1>1. /\ TypeOK /\ NothingAhead /\ LedgerKept /\ cycle \in Nat
      /\ run \in [Requests -> RunType] /\ res \in [Keys -> ResType] /\ run[r] \in RunType
  BY DEF AdmissionInv, TypeOK, SpendingInv
<1>2. PICK k \in Keys : k = Key(r)
  BY <1>1, KeyNames DEF Key, RunType
<1>3. run[r].cost \in Nat /\ res[k].reserved \in Int
  BY <1>1 DEF RunType, ResType
<1>4. PICK actual \in Int : actual = (IF run[r].unpriced THEN res[k].reserved ELSE run[r].cost)
  BY <1>3
<1>5. Settle(k, actual, cycle)
  BY <1>2, <1>4 DEF End, SettleRun
<1>6. SpendsNothing /\ ReservedStays
  BY <1>1, <1>4, <1>5, SettleSpends
<1>7. \A q \in Requests : /\ run'[q].generation = run[q].generation /\ run'[q].cost = run[q].cost
                          /\ run'[q].state = "calling" => run[q].state = "calling"
  BY <1>1 DEF End, RunType, Ended
<1>8. ReservationCovers'
  BY <1>6, <1>7, CoverStays
<1> QED
  BY <1>6, <1>8, ChecksUntouched, SpendingStep

\* A call starts when what it may cost is reserved; the lock keeps every check
\* out while the reservation grows.
LEMMA StartCallSpends ==
    ASSUME AdmissionInv, SpendingInv, NEW r \in Requests, StartCall(r)
    PROVE  SpendingInv'
<1>1. /\ TypeOK /\ NothingAhead /\ LedgerKept /\ cycle \in Nat /\ ReservationCovers
      /\ run \in [Requests -> RunType] /\ res \in [Keys -> ResType] /\ run[r] \in RunType
      /\ UNCHANGED <<prep, lock, cycle>>
  BY DEF AdmissionInv, TypeOK, SpendingInv, StartCall
<1>2. PICK k \in Keys : k = Key(r)
  BY <1>1, KeyNames DEF Key, RunType
<1>3. /\ \A q \in Requests : q # r => run'[q] = run[q]
      /\ run'[r].cost = run[r].cost /\ run'[r].generation = run[r].generation
  BY <1>1 DEF StartCall, RunType
<1>4. \A q \in Requests : Key(q)' = Key(q) /\ Key(q) \in Keys /\ (q # r => Key(q) # k)
  BY <1>1, <1>2, <1>3, KeyNames DEF Key, RunType
<1>5. run[r].cost \in Nat /\ res[k].reserved \in Int /\ Additional(r) = run[r].cost + CallEstimate - res[k].reserved
  BY <1>1, <1>2 DEF RunType, ResType, Additional
<1>6. ASSUME res'[k].reserved \in Int, run[r].cost + CallEstimate <= res'[k].reserved,
             res'[k].status = res[k].status, res[k].status # "none",
             \A j \in Keys : j # k => res'[j] = res[j]
      PROVE  ReservationCovers'
  <2>1. CallCovered(r)'
    <3>1. Key(r)' = k /\ run'[r].cost = run[r].cost
      BY <1>2, <1>3, <1>4
    <3> QED
      BY <1>5, <1>6, <3>1, ExcessOfCall, ConstantsAreNat DEF CallCovered
  <2>2. ASSUME NEW q \in Requests, q # r PROVE CallCovered(q)'
    <3>1. Key(q)' = Key(q) /\ res'[Key(q)] = res[Key(q)] /\ run'[q] = run[q] /\ CallCovered(q)
      BY <1>1, <1>3, <1>4, <1>6, <2>2 DEF ReservationCovers
    <3> QED
      BY <3>1 DEF CallCovered
  <2>3. \A j \in Keys : res'[j].reserved >= 0 /\ (res'[j].status = "none" => res'[j].reserved = 0)
    <3>1. res'[k].reserved >= 0
      BY <1>5, <1>6, ConstantsAreNat
    <3> QED
      BY <1>1, <1>6, <3>1 DEF ReservationCovers
  <2> QED
    BY <2>1, <2>2, <2>3 DEF ReservationCovers
<1>7. CASE Additional(r) <= 0
  <2>1. UNCHANGED <<res, ledger>>
    BY <1>7 DEF StartCall
  <2>2. SpendsNothing /\ ChecksStay
    BY <1>1, <2>1, BooksUnchanged, ChecksUntouched
  <2>3. ReservationCovers'
    <3>1. run[r].cost + CallEstimate <= res[k].reserved
      BY <1>5, <1>7, ConstantsAreNat
    <3>2. res[k].status = "reserved"
      BY <1>2 DEF StartCall
    <3> QED
      BY <1>5, <1>6, <2>1, <3>1, <3>2
  <2> QED
    BY <1>1, <2>2, <2>3, SpendingStep
<1>8. CASE ~(Additional(r) <= 0)
  <2>1. LockFree /\ ~Exceeds(Additional(r)) /\ Extend(r) /\ res[k].status = "reserved" /\ Additional(r) > 0
    BY <1>2, <1>5, <1>8, ConstantsAreNat DEF StartCall
  <2>2. /\ \A c \in Nat : Planned(c) \in Int /\ Planned(c)' \in Int /\ Planned(c)' <= Planned(c) + Additional(r)
        /\ \A j \in Keys : res'[j].cycle <= cycle /\ \A kind \in Kinds : ledger'[j][kind].cycle <= cycle
        /\ \A j \in Keys : j # k => res'[j] = res[j]
        /\ res'[k].reserved = run[r].cost + CallEstimate
        /\ res'[k].status = res[k].status /\ Additional(r) \in Int
    BY <1>1, <1>2, <2>1, ExtendSpends
  <2>3. PICK c \in Nat : c = cycle
    BY <1>1
  <2>4. Planned(cycle)' = Planned(c)' /\ Planned(cycle) = Planned(c)
    BY <1>1, <2>3, PlannedNow
  <2>5. WithinLimit'
    <3>1. Spent(c) + Additional(r) <= HardLimit
      BY <1>1, <2>1, <2>2, <2>3, PlannedIsNumber, ConstantsAreNat DEF Exceeds
    <3>2. Planned(c) + Additional(r) <= HardLimit
      BY <1>1, <2>2, <3>1, PlannedIsNumber, ConstantsAreNat
    <3> QED
      BY <2>2, <2>4, <3>2, ConstantsAreNat DEF WithinLimit
  <2>6. CheckStands'
    <3>1. \A p \in Preparers : prep'[p].pc # "checked"
      BY <1>1, <2>1, SentinelAssumption DEF TypeOK, LockFree
    <3> QED
      BY <3>1 DEF CheckStands
  <2>7. NothingAhead'
    BY <1>1, <2>2 DEF NothingAhead
  <2>8. ReservationCovers'
    <3>1. res'[k].reserved \in Int /\ run[r].cost + CallEstimate <= res'[k].reserved
      BY <1>5, <2>2, ConstantsAreNat
    <3> QED
      BY <1>6, <2>1, <2>2, <3>1
  <2> QED
    BY <2>5, <2>6, <2>7, <2>8 DEF SpendingInv
<1> QED
  BY <1>7, <1>8

\* What a call costs is covered by what it reserved, but for its excess.
LEMMA UsageSpends ==
    ASSUME AdmissionInv, SpendingInv, NEW r \in Requests, RecordUsage(r)
    PROVE  SpendingInv'
<1>1. /\ TypeOK /\ NothingAhead /\ ReservationCovers
      /\ run \in [Requests -> RunType] /\ res \in [Keys -> ResType] /\ run[r] \in RunType
      /\ UNCHANGED <<res, ledger, prep, cycle>> /\ run[r].state = "calling"
  BY DEF AdmissionInv, TypeOK, SpendingInv, RecordUsage
<1>2. PICK k \in Keys : k = Key(r)
  BY <1>1, KeyNames DEF Key, RunType
<1>3. PICK cost \in 0 .. MaxCallCost : /\ \A q \in Requests : q # r => run'[q] = run[q]
                                       /\ run'[r].cost = run[r].cost + cost /\ run'[r].state = "running"
                                       /\ run'[r].generation = run[r].generation
  BY <1>1 DEF RecordUsage, RunType
<1>4. \A q \in Requests : Key(q)' = Key(q)
  BY <1>3 DEF Key
<1>5. \A q \in Requests : q # r => CallCovered(q)'
  BY <1>1, <1>3, <1>4 DEF CallCovered, ReservationCovers
<1>6. CallCovered(r)'
  <2>1. run[r].cost \in Nat /\ res[k].reserved \in Int /\ run[r].cost + CallEstimate <= res[k].reserved
    BY <1>1, <1>2 DEF ReservationCovers, CallCovered, RunType, ResType
  <2>2. cost \in Nat /\ cost <= CallEstimate + CallExcess
    BY ExcessOfCall, ConstantsAreNat
  <2>3. run[r].cost + cost <= res[k].reserved + CallExcess /\ run[r].cost + cost \in Nat
    BY <2>1, <2>2, ExcessOfCall, ConstantsAreNat
  <2> QED
    BY <1>1, <1>2, <1>3, <1>4, <2>3 DEF CallCovered
<1>7. ReservationCovers'
  BY <1>1, <1>5, <1>6 DEF ReservationCovers
<1> QED
  BY <1>1, <1>7, BooksUnchanged, ChecksUntouched, SpendingStep

\* The worker, a cancellation or an operator ends the run.
LEMMA EndsSpend ==
    ASSUME AdmissionInv, SpendingInv, NEW r \in Requests, EndRun(r) \/ Cancel(r) \/ RecoverCancel(r)
    PROVE  SpendingInv'
<1>1. UNCHANGED <<prep, cycle>> /\ TypeOK /\ NothingAhead
  BY DEF EndRun, Cancel, RecoverCancel, AdmissionInv, SpendingInv
<1>2. CASE \E s \in Ended : End(r, s)
  BY <1>1, <1>2, EndSpends
<1>3. CASE UNCHANGED <<run, res, ledger>>
  <2>1. SpendsNothing /\ ReservedStays
    BY <1>1, <1>3, BooksUnchanged DEF ReservedStays
  <2> QED
    BY <1>1, <1>3, <2>1, CoverStays, ChecksUntouched, SpendingStep
<1> QED
  BY <1>2, <1>3 DEF EndRun, Cancel, RecoverCancel, Ended

\* The reservation of a recovery is of nothing.
LEMMA RecoverReserveSpends ==
    ASSUME AdmissionInv, SpendingInv, NEW r \in Requests, RecoverReserve(r)
    PROVE  SpendingInv'
<1>1. /\ TypeOK /\ NothingAhead /\ LedgerKept /\ ReservationCovers /\ cycle \in Nat
      /\ run \in [Requests -> RunType] /\ res \in [Keys -> ResType]
      /\ UNCHANGED <<run, prep, cycle>> /\ run[r].generation < MaxGenerations
  BY DEF AdmissionInv, TypeOK, SpendingInv, RecoverReserve
<1>2. PICK k \in Keys : k = <<r, run[r].generation + 1>>
  BY <1>1, NextGeneration
<1>3. PICK over \in BOOLEAN : over = Exceeds(0)
  BY ExceedsIsBoolean
<1>4. UNCHANGED <<res, ledger>> \/ (res[k].status = "none" /\ Insert(k, 0, over, cycle))
  BY <1>2, <1>3 DEF RecoverReserve
<1>5. CASE UNCHANGED <<res, ledger>>
  <2>1. SpendsNothing /\ ReservedStays
    BY <1>1, <1>5, BooksUnchanged DEF ReservedStays
  <2> QED
    BY <1>1, <2>1, CoverStays, ChecksUntouched, SpendingStep
<1>6. CASE res[k].status = "none" /\ Insert(k, 0, over, cycle)
  <2>1. /\ \A c \in Nat : Planned(c) \in Int /\ Planned(c)' \in Int /\ Planned(c)' = Planned(c) + 0
        /\ \A j \in Keys : res'[j].cycle <= cycle /\ \A kind \in Kinds : ledger'[j][kind].cycle <= cycle
        /\ \A j \in Keys : j # k => res'[j] = res[j]
        /\ res'[k].reserved = 0 /\ res'[k].status # "none"
    <3>1. 0 \in Nat /\ cycle <= cycle
      BY <1>1
    <3>2. /\ \A c \in Nat : /\ Planned(c) \in Int /\ Planned(c)' \in Int
                            /\ Planned(c)' = Planned(c) + IF ~over /\ cycle = c THEN 0 ELSE 0
          /\ \A j \in Keys : res'[j].cycle <= cycle /\ \A kind \in Kinds : ledger'[j][kind].cycle <= cycle
          /\ \A j \in Keys : j # k => res'[j] = res[j]
          /\ res'[k].reserved = (IF over THEN 0 ELSE 0) /\ res'[k].status # "none"
      <4>1. PICK at \in Nat : at = cycle
        BY <1>1
      <4>2. Insert(k, 0, over, at) /\ at <= cycle /\ res[k].status = "none"
        BY <1>6, <4>1
      <4> QED
        BY <1>1, <3>1, <4>1, <4>2, InsertSpends
    <3> QED
      BY <3>2
  <2>2. SpendsNothing
    BY <2>1 DEF SpendsNothing
  <2>3. \A j \in Keys : res'[j].reserved = res[j].reserved /\ (res'[j].status = "none" => res[j].status = "none")
    BY <1>1, <1>6, <2>1 DEF ReservationCovers
  <2>4. ReservationCovers'
    <3>1. \A q \in Requests : Key(q)' = Key(q) /\ Key(q) \in Keys /\ run'[q] = run[q]
      BY <1>1, KeyNames DEF Key, RunType
    <3>2. \A q \in Requests : CallCovered(q)'
      BY <1>1, <2>3, <3>1 DEF CallCovered, ReservationCovers
    <3> QED
      BY <1>1, <2>3, <3>2 DEF ReservationCovers
  <2> QED
    BY <1>1, <2>2, <2>4, ChecksUntouched, SpendingStep
<1> QED
  BY <1>4, <1>5, <1>6

\* Nothing is spent initially.
LEMMA InitSpending == Init => SpendingInv
<1> SUFFICES ASSUME Init PROVE SpendingInv
    OBVIOUS
<1>1. NothingAhead
  BY DEF Init, NothingAhead, NoEntry, Idle
<1>2. \A k \in Keys : res[k].reserved = 0 /\ res[k].status = "none"
  BY DEF Init
<1>3. ReservationCovers
  <2>1. \A r \in Requests : Key(r) \in Keys /\ run[r].cost = 0 /\ run[r].state = "none"
    BY KeyNames, ConstantsAreNat DEF Init, Key
  <2> QED
    BY <1>2, <2>1, ExcessOfCall DEF ReservationCovers, CallCovered
<1>4. \A k \in Keys : \A kind \in Kinds : Charge(ledger[k][kind], 0) = 0
  BY DEF Init, NoEntry, Charge
<1>5. Planned(cycle) = 0
  BY <1>4, PlannedNothing DEF Init
<1>6. WithinLimit /\ CheckStands
  BY <1>5, ConstantsAreNat DEF WithinLimit, CheckStands, Init, Idle
<1> QED
  BY <1>1, <1>3, <1>6 DEF SpendingInv

\* Every step keeps the second invariant.
LEMMA NextSpending == AdmissionInv /\ SpendingInv /\ [Next]_vars => SpendingInv'
<1> SUFFICES ASSUME AdmissionInv, SpendingInv, [Next]_vars PROVE SpendingInv'
    OBVIOUS
<1>1. ASSUME NEW p \in Preparers, Prepare(p) \/ Abandon(p) \/ PreparationFails(p)
      PROVE  SpendingInv'
  BY <1>1, PreparerSpends, CheckSpends, InsertStepSpends, ReleaseStepsSpend DEF Prepare
<1>2. ASSUME NEW p \in Preparers, NEW r \in Requests, BeginAdmission(p, r)
      PROVE  SpendingInv'
  BY <1>2, PreparerSpends
<1>3. ASSUME NEW r \in Requests,
             \/ ExpirePreparation(r) \/ SweepAdmission(r)
             \/ StartCall(r) \/ StopAtLimit(r) \/ RecordUsage(r) \/ EndRun(r)
             \/ Cancel(r) \/ RecoverReserve(r) \/ RecoverCommit(r) \/ RecoverRelease(r)
             \/ RecoverCrash(r) \/ RecoverCancel(r)
      PROVE  SpendingInv'
  BY <1>3, QuietSteps, ReleaseStepsSpend, StartCallSpends, UsageSpends, EndsSpend, RecoverReserveSpends
<1>4. ASSUME NEW k \in Keys, ReleaseOrphan(k) PROVE SpendingInv'
  BY <1>4, ReleaseStepsSpend
<1>5. CASE NextCycle
  BY <1>5, CycleSpends
<1>6. CASE UNCHANGED vars
  BY <1>6 DEF vars, SpendingInv, NothingAhead, ReservationCovers, CallCovered, Key, CheckStands,
              WithinLimit, Planned, Spent, Charges, Charge, Overrun, Excesses, Excess
<1> QED
  BY <1>1, <1>2, <1>3, <1>4, <1>5, <1>6 DEF Next

\* The ledger of the current cycle stays within the hard limit, whoever reserves,
\* extends and settles at the same time, for any number of requests, preparers
\* and cycles: the tenant's advisory lock makes check and insert, and check and
\* extension, one.  Only what a run's calls cost beyond what was reserved for them,
\* which is settled without a check, comes on top.
THEOREM SpendingWithinLimit == Spec => []WithinLimit
<1>1. Init => SpendingInv
  BY InitSpending
<1>2. AdmissionInv /\ SpendingInv /\ [Next]_vars => SpendingInv'
  BY NextSpending
<1>3. SpendingInv => WithinLimit
  BY DEF SpendingInv
<1> QED
  BY <1>1, <1>2, <1>3, Invariance, PTL DEF Spec

-----------------------------------------------------------------------------
(* TurnAdmission implements AdmissionContract.                               *)

\* What a reservation's row says of its account.
Standing(row) == CASE row.status = "reserved" -> "open"
                   [] row.status \in {"reconciled", "released"} -> "closed"
                   [] row.status = "blocked" -> "denied"
                   [] OTHER -> "none"
Held(row) == CASE row.status = "reserved" -> row.reserved
               [] row.status = "reconciled" -> row.actual
               [] OTHER -> 0

\* The sum of an account's ledger entries is what its row says, before a step and
\* after it.
LEMMA BarsFollowRows ==
    ASSUME AdmissionInv, AdmissionInv'
    PROVE  /\ accountBar = [k \in Keys |-> Standing(res[k])] /\ chargeBar = [k \in Keys |-> Held(res[k])]
           /\ accountBar' = [k \in Keys |-> Standing(res'[k])] /\ chargeBar' = [k \in Keys |-> Held(res'[k])]
<1>1. ASSUME NEW k \in Keys PROVE Net(k) = Held(res[k])
  <2>1. KeptAt(k) /\ res[k].reserved \in Int /\ res[k].actual \in Int
    BY DEF AdmissionInv, LedgerKept, TypeOK, ResType
  <2> QED
    BY <2>1 DEF KeptAt, Net, Held
<1>2. ASSUME NEW k \in Keys PROVE Net(k)' = Held(res'[k])
  <2>1. KeptAt(k)' /\ res'[k].reserved \in Int /\ res'[k].actual \in Int
    BY DEF AdmissionInv, LedgerKept, TypeOK, ResType
  <2> QED
    BY <2>1 DEF KeptAt, Net, Held
<1>3. accountBar = [k \in Keys |-> Standing(res[k])] /\ accountBar' = [k \in Keys |-> Standing(res'[k])]
  BY DEF accountBar, Standing
<1>4. chargeBar = [k \in Keys |-> Held(res[k])]
  BY <1>1 DEF chargeBar
<1>5. chargeBar' = [k \in Keys |-> Held(res'[k])]
  BY <1>2 DEF chargeBar
<1> QED
  BY <1>3, <1>4, <1>5

\* A step that leaves the rows of reservations alone leaves the accounts alone.
LEMMA AccountsStay ==
    ASSUME AdmissionInv, AdmissionInv', res' = res
    PROVE  UNCHANGED <<accountBar, chargeBar>>
BY BarsFollowRows

\* A step that writes the row of one reservation writes one account.
LEMMA BookOne ==
    ASSUME AdmissionInv, AdmissionInv', NEW k \in Keys, NEW row, res' = [res EXCEPT ![k] = row]
    PROVE  /\ Contract!Book(k, Standing(row), Held(row))
           /\ accountBar[k] = Standing(res[k]) /\ chargeBar[k] = Held(res[k])
<1>1. res \in [Keys -> ResType]
  BY DEF AdmissionInv, TypeOK
<1>2. \A j \in Keys : res'[j] = IF j = k THEN row ELSE res[j]
  BY <1>1
<1>3. accountBar' = [accountBar EXCEPT ![k] = Standing(row)]
  BY <1>2, BarsFollowRows
<1>4. chargeBar' = [chargeBar EXCEPT ![k] = Held(row)]
  BY <1>2, BarsFollowRows
<1> QED
  BY <1>3, <1>4, BarsFollowRows DEF Contract!Book

\* The accounts of the contract are the reservations.
LEMMA AccountsAreKeys == Contract!Accounts = Keys
BY DEF Contract!Accounts, Keys

\* Requests look the same when their runs do and none is cancelled.
LEMMA RequestsStay ==
    ASSUME run' = run, \A r \in Requests : intent'[r].state = "cancelled" <=> intent[r].state = "cancelled"
    PROVE  UNCHANGED <<requestBar, generationBar>>
<1>1. generationBar' = generationBar
  BY DEF generationBar
<1>2. requestBar' = requestBar
  BY DEF requestBar
<1> QED
  BY <1>1, <1>2

\* A settlement at nothing releases the account, or finds it closed.
LEMMA SettleImplements ==
    ASSUME AdmissionInv, AdmissionInv', NEW k \in Keys, NEW at, Settle(k, 0, at),
           UNCHANGED <<requestBar, generationBar>>
    PROVE  Contract!Next \/ UNCHANGED Contract!contractVars
<1>1. CASE res[k].status # "reserved"
  <2>1. res' = res
    BY <1>1 DEF Settle
  <2> QED
    BY <2>1, AccountsStay DEF Contract!contractVars
<1>2. CASE res[k].status = "reserved"
  <2> DEFINE row == [res[k] EXCEPT !.status = "reconciled", !.actual = 0]
  <2>0. res \in [Keys -> ResType] /\ res[k] \in ResType
    BY DEF AdmissionInv, TypeOK
  <2>1. res' = [res EXCEPT ![k] = row]
    BY <1>2, <2>0 DEF Settle
  <2>2. row.status = "reconciled" /\ row.actual = 0
    BY <2>0 DEF ResType
  <2>3. Standing(row) = "closed" /\ Held(row) = 0 /\ Standing(res[k]) = "open"
    BY <1>2, <2>2 DEF Standing, Held
  <2> HIDE DEF row
  <2>4. Contract!Book(k, "closed", 0) /\ accountBar[k] = "open"
    BY <2>1, <2>3, BookOne
  <2>5. Contract!Release(k)
    BY <2>4 DEF Contract!Release
  <2> QED
    BY <2>5, AccountsAreKeys DEF Contract!Next
<1> QED
  BY <1>1, <1>2

\* The release of an orphan is the contract's Release.
LEMMA ReleaseImplements ==
    ASSUME AdmissionInv, AdmissionInv', NEW k \in Keys, ReleaseOrphan(k)
    PROVE  Contract!Next
<1> DEFINE row == [status |-> "released", reserved |-> res[k].reserved, actual |-> 0, cycle |-> res[k].cycle]
<1>1. res' = [res EXCEPT ![k] = row] /\ res[k].status = "reserved" /\ UNCHANGED <<run, intent>>
  BY DEF ReleaseOrphan
<1>2. Standing(row) = "closed" /\ Held(row) = 0 /\ Standing(res[k]) = "open"
  BY <1>1 DEF Standing, Held
<1> HIDE DEF row
<1>3. Contract!Book(k, "closed", 0) /\ accountBar[k] = "open"
  BY <1>1, <1>2, BookOne
<1>4. Contract!Release(k)
  BY <1>1, <1>3, RequestsStay DEF Contract!Release
<1> QED
  BY <1>4, AccountsAreKeys DEF Contract!Next

\* An insert opens the account at the amount or denies it.
LEMMA InsertImplements ==
    ASSUME AdmissionInv, AdmissionInv', NEW k \in Keys, NEW amount \in {0, Estimate},
           NEW exceeded \in BOOLEAN, NEW at, res[k].status = "none", Insert(k, amount, exceeded, at),
           UNCHANGED <<requestBar, generationBar>>
    PROVE  Contract!Next
<1> DEFINE row == [status |-> IF exceeded THEN "blocked" ELSE "reserved",
                   reserved |-> IF exceeded THEN 0 ELSE amount, actual |-> 0, cycle |-> at]
<1>1. res' = [res EXCEPT ![k] = row]
  BY DEF Insert
<1>2. Standing(res[k]) = "none"
  BY DEF Standing
<1>3. CASE exceeded
  <2>1. Standing(row) = "denied" /\ Held(row) = 0
    BY <1>3 DEF Standing, Held
  <2> HIDE DEF row
  <2>2. Contract!Deny(k)
    BY <1>1, <1>2, <2>1, BookOne DEF Contract!Deny
  <2> QED
    BY <2>2, AccountsAreKeys DEF Contract!Next
<1>4. CASE ~exceeded
  <2>1. Standing(row) = "open" /\ Held(row) = amount
    BY <1>4 DEF Standing, Held
  <2> HIDE DEF row
  <2>2. Contract!Open(k, amount)
    BY <1>1, <1>2, <2>1, BookOne DEF Contract!Open
  <2> QED
    BY <2>2, AccountsAreKeys DEF Contract!Next
<1> QED
  BY <1>3, <1>4

\* How a request looks when its run or its intent is written.
LEMMA RequestWritten ==
    ASSUME NEW r \in Requests, NEW look,
           \A q \in Requests : q # r => run'[q] = run[q] /\ intent'[q].state = intent[q].state,
           requestBar'[r] = look
    PROVE  requestBar' = [requestBar EXCEPT ![r] = look]
<1>1. \A q \in Requests : q # r => requestBar'[q] = requestBar[q]
  BY DEF requestBar
<1>2. requestBar' = [q \in Requests |-> requestBar'[q]] /\ requestBar = [q \in Requests |-> requestBar[q]]
  BY DEF requestBar
<1> QED
  BY <1>1, <1>2

\* The initial states look like the contract's.
LEMMA InitImplements == Init => Contract!Init
<1> SUFFICES ASSUME Init PROVE Contract!Init
    OBVIOUS
<1>1. requestBar = [r \in Requests |-> "waiting"]
  BY DEF Init, requestBar, Active, Ended
<1>2. generationBar = [r \in Requests |-> 0]
  BY DEF Init, generationBar
<1>3. accountBar = [k \in Contract!Accounts |-> "none"]
  BY AccountsAreKeys DEF Init, accountBar
<1>4. chargeBar = [k \in Contract!Accounts |-> 0]
  <2>1. ASSUME NEW k \in Keys PROVE Net(k) = 0
    BY DEF Init, Net, NoEntry, Kinds
  <2> QED
    BY <2>1, AccountsAreKeys DEF chargeBar
<1> QED
  BY <1>1, <1>2, <1>3, <1>4 DEF Contract!Init

\* A step of a run that stays active, on the generation it had.
LEMMA RunningStays ==
    ASSUME NEW r \in Requests, run[r].state \in Active, run'[r].state \in Active,
           run'[r].generation = run[r].generation,
           \A q \in Requests : q # r => run'[q] = run[q], intent' = intent
    PROVE  UNCHANGED <<requestBar, generationBar>> /\ requestBar[r] = "running"
<1>1. requestBar[r] = "running" /\ requestBar'[r] = "running"
  BY DEF requestBar
<1>2. requestBar' = [requestBar EXCEPT ![r] = "running"]
  BY <1>1, RequestWritten
<1>3. requestBar' = requestBar
  BY <1>1, <1>2 DEF requestBar
<1>4. generationBar' = generationBar
  BY DEF generationBar
<1> QED
  BY <1>1, <1>3, <1>4

\* A call that starts raises the account of the run by at most a call's estimate
\* and the excess of the call before it, or finds enough reserved.
LEMMA StartCallImplements ==
    ASSUME AdmissionInv, AdmissionInv', SpendingInv, NEW r \in Requests, StartCall(r)
    PROVE  Contract!Next \/ UNCHANGED Contract!contractVars
<1>1. /\ run \in [Requests -> RunType] /\ res \in [Keys -> ResType] /\ run[r] \in RunType
      /\ run[r].state = "running" /\ intent' = intent
  BY DEF AdmissionInv, TypeOK, StartCall
<1>2. PICK k \in Keys : k = Key(r) /\ k[1] = r /\ k[2] = run[r].generation
  BY <1>1, KeyNames DEF Key, RunType
<1>3. /\ \A q \in Requests : q # r => run'[q] = run[q]
      /\ run'[r].state = "calling" /\ run'[r].generation = run[r].generation
  BY <1>1 DEF StartCall, RunType
<1>4. UNCHANGED <<requestBar, generationBar>> /\ requestBar[r] = "running"
  BY <1>1, <1>3, RunningStays DEF Active
<1>5. CASE res' = res
  BY <1>4, <1>5, AccountsStay DEF Contract!contractVars
<1>6. CASE Additional(r) > 0 /\ Extend(r)
  <2>1. /\ run[r].cost \in Nat /\ res[k].reserved \in Int /\ run[r].cost <= res[k].reserved + CallExcess
        /\ Additional(r) = run[r].cost + CallEstimate - res[k].reserved
    <3>1. CallCovered(r)
      BY DEF SpendingInv, ReservationCovers
    <3> QED
      BY <1>1, <1>2, <3>1 DEF CallCovered, RunType, ResType, Additional
  <2>2. PICK amount \in 1 .. CallEstimate + CallExcess : amount = Additional(r)
    BY <1>6, <2>1, ExcessOfCall, ConstantsAreNat
  <2>3. PICK total \in Int : total = res[k].reserved + amount
    BY <2>1, <2>2
  <2> DEFINE row == [res[k] EXCEPT !.reserved = total]
  <2>4. res' = [res EXCEPT ![k] = row]
    BY <1>1, <1>2, <1>6, <2>2, <2>3 DEF Extend
  <2>5. res[k].status = "reserved" /\ row.status = "reserved" /\ row.reserved = total
    BY <1>1, <1>2 DEF StartCall, ResType
  <2>6. Standing(row) = "open" /\ Held(row) = total /\ Standing(res[k]) = "open" /\ Held(res[k]) = res[k].reserved
    BY <2>5 DEF Standing, Held
  <2> HIDE DEF row
  <2>7. Contract!Book(k, "open", total) /\ accountBar[k] = "open" /\ chargeBar[k] = res[k].reserved
    BY <2>4, <2>6, BookOne
  <2>8. generationBar[k[1]] = k[2]
    BY <1>2 DEF generationBar
  <2>9. Contract!Raise(k, amount)
    BY <1>2, <1>4, <2>3, <2>7, <2>8 DEF Contract!Raise
  <2> QED
    BY <2>2, <2>9, AccountsAreKeys DEF Contract!Next
<1> QED
  <2>1. Additional(r) <= 0 \/ Additional(r) > 0
    BY <1>1, <1>2, ConstantsAreNat DEF Additional, RunType, ResType
  <2> QED
    BY <1>5, <1>6, <2>1 DEF StartCall

\* The end of a run closes its account at no more than it held and the excess of
\* its last call.
LEMMA EndImplements ==
    ASSUME AdmissionInv, AdmissionInv', SpendingInv, NEW r \in Requests, NEW state \in Ended, End(r, state),
           run[r].state \in Active \cup Ended,
           \A q \in Requests : q # r => intent'[q].state = intent[q].state
    PROVE  Contract!Next
<1>1. run \in [Requests -> RunType] /\ res \in [Keys -> ResType] /\ run[r] \in RunType
  BY DEF AdmissionInv, TypeOK
<1>2. PICK k \in Keys : k = Key(r)
  BY <1>1, KeyNames DEF Key, RunType
<1>3. /\ \A q \in Requests : q # r => run'[q] = run[q]
      /\ run'[r].state = state /\ run'[r].generation = run[r].generation
  BY <1>1 DEF End, RunType
<1>4. requestBar[r] \in {"running", "ended"} /\ requestBar'[r] = "ended"
  BY <1>3 DEF requestBar, Active, Ended
<1>5. requestBar' = [requestBar EXCEPT ![r] = "ended"]
  BY <1>3, <1>4, RequestWritten
<1>6. generationBar' = generationBar /\ k = <<r, generationBar[r]>>
  BY <1>2, <1>3 DEF generationBar, Key
<1>7. CASE res[k].status = "reserved"
  <2>1. /\ run[r].cost \in Nat /\ res[k].reserved \in Int /\ res[k].reserved >= 0
        /\ run[r].cost <= res[k].reserved + CallExcess
    <3>1. CallCovered(r) /\ run[r].cost \in Nat /\ res[k].reserved \in Int /\ res[k].reserved >= 0
      BY <1>1 DEF SpendingInv, ReservationCovers, RunType, ResType
    <3> QED
      BY <1>2, <3>1, ExcessOfCall, ConstantsAreNat DEF CallCovered
  <2>2. PICK actual \in 0 .. res[k].reserved + CallExcess :
             actual = IF run[r].unpriced THEN res[k].reserved ELSE run[r].cost
    BY <2>1, ExcessOfCall
  <2>3. Settle(k, actual, cycle)
    BY <1>2, <2>2 DEF End, SettleRun
  <2> DEFINE row == [res[k] EXCEPT !.status = "reconciled", !.actual = actual]
  <2>4. res' = [res EXCEPT ![k] = row]
    BY <1>1, <1>7, <2>3 DEF Settle
  <2>5. row.status = "reconciled" /\ row.actual = actual
    BY <1>1 DEF ResType
  <2>6. Standing(row) = "closed" /\ Held(row) = actual /\ Standing(res[k]) = "open" /\ Held(res[k]) = res[k].reserved
    BY <1>7, <2>5 DEF Standing, Held
  <2> HIDE DEF row
  <2>7. Contract!Book(k, "closed", actual) /\ accountBar[k] = "open" /\ actual \in 0 .. chargeBar[k] + CallExcess
    BY <2>2, <2>4, <2>6, BookOne
  <2>8. Contract!Finish(r)
    BY <1>4, <1>5, <1>6, <2>7 DEF Contract!Finish
  <2> QED
    BY <2>8 DEF Contract!Next
<1>8. CASE res[k].status # "reserved"
  <2>1. res' = res
    BY <1>2, <1>8 DEF End, SettleRun, Settle
  <2>2. accountBar[k] # "open"
    BY <1>8 DEF accountBar
  <2>3. Contract!Finish(r)
    BY <1>4, <1>5, <1>6, <2>1, <2>2, AccountsStay DEF Contract!Finish
  <2> QED
    BY <2>3 DEF Contract!Next
<1> QED
  BY <1>7, <1>8

\* The worker, a cancellation or an operator ends the run; a cancellation before
\* the admission is the contract's, and one after the end changes nothing.
LEMMA EndsImplement ==
    ASSUME AdmissionInv, AdmissionInv', SpendingInv, NEW r \in Requests,
           EndRun(r) \/ Cancel(r) \/ RecoverCancel(r)
    PROVE  Contract!Next \/ UNCHANGED Contract!contractVars
<1>1. intent \in [Requests -> IntentType] /\ run[r] \in RunType
  BY DEF AdmissionInv, TypeOK
<1>2. CASE EndRun(r)
  <2>1. run[r].state \in Active /\ intent' = intent /\ \E s \in Ended : End(r, s)
    BY <1>2 DEF EndRun, Active, Ended
  <2> QED
    BY <2>1, EndImplements
<1>3. CASE RecoverCancel(r)
  <2>1. run[r].state \in Ended /\ intent' = intent /\ \E s \in Ended : End(r, s)
    BY <1>3 DEF RecoverCancel, Ended
  <2> QED
    BY <2>1, EndImplements
<1>4. CASE Cancel(r)
  <2>1. \A q \in Requests : q # r => intent'[q].state = intent[q].state
    BY <1>1, <1>4 DEF Cancel
  <2>2. CASE run[r].state \in Active
    <3>1. \E s \in Ended : End(r, s)
      BY <1>4, <2>2 DEF Cancel, Ended
    <3> QED
      BY <2>1, <2>2, <3>1, EndImplements
  <2>3. CASE run[r].state \in Ended
    <3>1. UNCHANGED <<run, res>>
      BY <1>4, <2>3 DEF Cancel, Active, Ended
    <3>2. intent[r].state = "admitted"
      BY <2>3 DEF AdmissionInv, IntentMatchesRun, Ended
    <3>3. intent'[r].state = "admitted"
      BY <1>1, <1>4, <3>2 DEF Cancel, IntentType
    <3> QED
      BY <2>1, <3>1, <3>2, <3>3, RequestsStay, AccountsStay DEF Contract!contractVars
  <2>4. CASE run[r].state = "none"
    <3>1. UNCHANGED <<run, res>> /\ intent[r].state # "cancelled"
      BY <1>4, <2>4 DEF Cancel, Active
    <3>2. intent[r].state # "admitted"
      BY <2>4 DEF AdmissionInv, IntentMatchesRun
    <3>3. intent'[r].state = "cancelled"
      BY <1>1, <1>4, <3>2 DEF Cancel, IntentType
    <3>4. requestBar[r] = "waiting" /\ requestBar'[r] = "cancelled"
      BY <2>4, <3>1, <3>3 DEF requestBar, Active, Ended
    <3>5. requestBar' = [requestBar EXCEPT ![r] = "cancelled"] /\ generationBar' = generationBar
      BY <2>1, <3>1, <3>4, RequestWritten DEF generationBar
    <3>6. Contract!Cancel(r)
      BY <3>1, <3>4, <3>5, AccountsStay DEF Contract!Cancel
    <3> QED
      BY <3>6 DEF Contract!Next
  <2> QED
    BY <1>1, <2>2, <2>3, <2>4 DEF RunType
<1> QED
  BY <1>2, <1>3, <1>4

\* An admission starts the request on its open account, or finds nothing to do.
LEMMA AdmitImplements ==
    ASSUME AdmissionInv, AdmissionInv', NEW p \in Preparers, Admit(p)
    PROVE  Contract!Next \/ UNCHANGED Contract!contractVars
<1>1. PICK r \in Requests : r = prep[p].req
  BY UnderWay DEF Admit
<1>2. res' = res /\ run \in [Requests -> RunType] /\ intent \in [Requests -> IntentType] /\ run[r] \in RunType
  BY DEF Admit, AdmissionInv, TypeOK
<1>3. CASE UNCHANGED <<intent, run>>
  BY <1>2, <1>3, RequestsStay, AccountsStay DEF Contract!contractVars
<1>4. CASE /\ CurrentAttempt(p) /\ res[<<r, 0>>].status = "reserved"
           /\ run' = [run EXCEPT ![r].state = "running"]
           /\ intent' = [intent EXCEPT ![r].state = "admitted", ![r].leased = "none"]
  <2>1. intent[r].state = "preparing" /\ run[r].state = "none"
    BY <1>1, <1>4 DEF CurrentAttempt, AdmissionInv, IntentMatchesRun
  <2>2. /\ \A q \in Requests : q # r => run'[q] = run[q] /\ intent'[q].state = intent[q].state
        /\ run'[r].state = "running" /\ run'[r].generation = run[r].generation
    BY <1>2, <1>4 DEF RunType
  <2>3. requestBar[r] = "waiting" /\ requestBar'[r] = "running"
    BY <2>1, <2>2 DEF requestBar, Active, Ended
  <2>4. requestBar' = [requestBar EXCEPT ![r] = "running"]
    BY <2>2, <2>3, RequestWritten
  <2>5. generationBar' = generationBar
    BY <2>2 DEF generationBar
  <2>6. accountBar[<<r, 0>>] = "open"
    BY <1>4, KeyNames, ConstantsAreNat DEF accountBar
  <2>7. Contract!Start(r)
    BY <1>2, <2>3, <2>4, <2>5, <2>6, AccountsStay DEF Contract!Start
  <2> QED
    BY <2>7 DEF Contract!Next
<1> QED
  BY <1>1, <1>3, <1>4 DEF Admit

\* The commit of a recovery restarts the request on its next account.
LEMMA RecoverCommitImplements ==
    ASSUME AdmissionInv, AdmissionInv', NEW r \in Requests, RecoverCommit(r)
    PROVE  Contract!Next \/ UNCHANGED Contract!contractVars
<1>1. /\ UNCHANGED <<intent, res>> /\ run \in [Requests -> RunType] /\ run[r] \in RunType
      /\ run[r].state = "recovery_required" /\ run[r].generation < MaxGenerations
  BY DEF RecoverCommit, AdmissionInv, TypeOK, RecoveryHolds
<1>2. CASE run' = run
  BY <1>1, <1>2, RequestsStay, AccountsStay DEF Contract!contractVars
<1>3. CASE run' = [run EXCEPT ![r] = [state |-> "running", generation |-> @.generation + 1,
                                      calls |-> 0, cost |-> 0, unpriced |-> FALSE]]
  <2>1. /\ \A q \in Requests : q # r => run'[q] = run[q]
        /\ run'[r].state = "running" /\ run'[r].generation = run[r].generation + 1
    BY <1>1, <1>3
  <2>2. requestBar[r] = "ended" /\ requestBar'[r] = "running"
    BY <1>1, <2>1 DEF requestBar, Active, Ended
  <2>3. requestBar' = [requestBar EXCEPT ![r] = "running"]
    BY <1>1, <2>1, <2>2, RequestWritten
  <2>4. generationBar' = [generationBar EXCEPT ![r] = @ + 1] /\ generationBar[r] = run[r].generation
    BY <2>1 DEF generationBar
  <2>5. generationBar[r] + 1 \in 0 .. MaxGenerations
    BY <1>1, <2>4, ConstantsAreNat DEF RunType
  <2>6. Contract!Restart(r)
    BY <1>1, <2>2, <2>3, <2>4, <2>5, AccountsStay DEF Contract!Restart
  <2> QED
    BY <2>6 DEF Contract!Next
<1> QED
  BY <1>2, <1>3 DEF RecoverCommit

\* The reservation of a recovery opens or denies the account of the next
\* generation, or finds it open.
LEMMA RecoverReserveImplements ==
    ASSUME AdmissionInv, AdmissionInv', NEW r \in Requests, RecoverReserve(r)
    PROVE  Contract!Next \/ UNCHANGED Contract!contractVars
<1>1. UNCHANGED <<intent, run>> /\ run[r].generation < MaxGenerations
  BY DEF RecoverReserve
<1>2. PICK k \in Keys : k = <<r, run[r].generation + 1>>
  BY <1>1, NextGeneration
<1>3. PICK over \in BOOLEAN : over = Exceeds(0)
  BY ExceedsIsBoolean
<1>4. res' = res \/ (res[k].status = "none" /\ Insert(k, 0, over, cycle))
  BY <1>2, <1>3 DEF RecoverReserve
<1>5. UNCHANGED <<requestBar, generationBar>>
  BY <1>1, RequestsStay
<1>6. CASE res' = res
  BY <1>5, <1>6, AccountsStay DEF Contract!contractVars
<1>7. CASE res[k].status = "none" /\ Insert(k, 0, over, cycle)
  BY <1>5, <1>7, InsertImplements
<1> QED
  BY <1>4, <1>6, <1>7

\* The insert of an admission opens or denies the request's first account.
LEMMA InsertReservationImplements ==
    ASSUME AdmissionInv, AdmissionInv', NEW p \in Preparers, InsertReservation(p)
    PROVE  Contract!Next
<1>1. UNCHANGED <<intent, run>> /\ prep[p].pc = "checked" /\ prep[p].exceeded \in BOOLEAN
  BY DEF InsertReservation, AdmissionInv, TypeOK, PrepType
<1>2. PICK k \in Keys : k = <<prep[p].req, 0>>
  BY <1>1, UnderWay, KeyNames, ConstantsAreNat
<1>3. res[k].status = "none"
  BY <1>1, <1>2 DEF AdmissionInv, CheckedIsNew
<1>4. Insert(k, Estimate, prep[p].exceeded, prep[p].at)
  BY <1>2 DEF InsertReservation
<1> QED
  BY <1>1, <1>3, <1>4, RequestsStay, InsertImplements

\* A settlement at nothing, by a failed preparation, by the sweep or by a refused
\* recovery, releases the account or finds it closed.
LEMMA SettlementsImplement ==
    ASSUME AdmissionInv, AdmissionInv',
           \/ \E p \in Preparers : ReleaseFailed(p)
           \/ \E r \in Requests : SweepAdmission(r) \/ RecoverRelease(r)
    PROVE  Contract!Next \/ UNCHANGED Contract!contractVars
<1>1. ASSUME NEW p \in Preparers, ReleaseFailed(p) PROVE Contract!Next \/ UNCHANGED Contract!contractVars
  <2>1. UNCHANGED <<intent, run>>
    BY <1>1 DEF ReleaseFailed
  <2>2. CASE res' = res
    BY <2>1, <2>2, RequestsStay, AccountsStay DEF Contract!contractVars
  <2>3. CASE prep[p].pc = "failing" /\ Reconcile(<<prep[p].req, 0>>, 0)
    <3>1. PICK k \in Keys : k = <<prep[p].req, 0>>
      BY <2>3, UnderWay, KeyNames, ConstantsAreNat
    <3>2. Settle(k, 0, res[k].cycle)
      BY <2>3, <3>1 DEF Reconcile
    <3> QED
      BY <2>1, <3>2, RequestsStay, SettleImplements
  <2> QED
    BY <1>1, <2>2, <2>3 DEF ReleaseFailed
<1>2. ASSUME NEW r \in Requests, SweepAdmission(r) PROVE Contract!Next \/ UNCHANGED Contract!contractVars
  <2>1. intent \in [Requests -> IntentType] /\ intent[r] \in IntentType
    BY DEF AdmissionInv, TypeOK
  <2>2. \A q \in Requests : intent'[q].state = "cancelled" <=> intent[q].state = "cancelled"
    BY <1>2, <2>1 DEF SweepAdmission, IntentType
  <2>3. PICK k \in Keys : k = <<r, 0>>
    <3>1. <<r, 0>> \in Keys
      BY KeyNames, ConstantsAreNat
    <3> QED
      BY <3>1
  <2>4. run' = run /\ Settle(k, 0, cycle)
    BY <1>2, <2>3 DEF SweepAdmission
  <2> QED
    BY <2>2, <2>4, RequestsStay, SettleImplements
<1>3. ASSUME NEW r \in Requests, RecoverRelease(r) PROVE Contract!Next \/ UNCHANGED Contract!contractVars
  <2>1. UNCHANGED <<intent, run>> /\ run[r].generation < MaxGenerations
    BY <1>3 DEF RecoverRelease, AdmissionInv, RecoveryHolds
  <2>2. PICK k \in Keys : k = <<r, run[r].generation + 1>>
    BY <2>1, NextGeneration
  <2>3. Settle(k, 0, res[k].cycle)
    BY <1>3, <2>2 DEF RecoverRelease, Reconcile
  <2> QED
    BY <2>1, <2>3, RequestsStay, SettleImplements
<1> QED
  BY <1>1, <1>2, <1>3

\* The steps of a preparer that write neither a reservation nor a run, and time.
LEMMA QuietImplement ==
    ASSUME AdmissionInv, AdmissionInv',
           \/ \E p \in Preparers : \/ ReuseReservation(p) \/ CheckBudget(p) \/ FailAdmission(p)
                                   \/ Abandon(p) \/ PreparationFails(p)
                                   \/ \E r \in Requests : BeginAdmission(p, r)
           \/ \E r \in Requests : ExpirePreparation(r) \/ RecoverCrash(r)
           \/ NextCycle \/ UNCHANGED vars
    PROVE  UNCHANGED Contract!contractVars
<1>1. intent \in [Requests -> IntentType]
  BY DEF AdmissionInv, TypeOK
<1>2. UNCHANGED <<run, res>>
  BY DEF ReuseReservation, CheckBudget, FailAdmission, Abandon, PreparationFails, BeginAdmission,
         ExpirePreparation, RecoverCrash, NextCycle, vars
<1>3. \A q \in Requests : intent'[q].state = "cancelled" <=> intent[q].state = "cancelled"
  <2>1. ASSUME NEW p \in Preparers, FailAdmission(p)
        PROVE  \A q \in Requests : intent'[q].state = "cancelled" <=> intent[q].state = "cancelled"
    <3>1. PICK r \in Requests : r = prep[p].req
      BY <2>1, UnderWay DEF FailAdmission
    <3>2. CASE intent' = intent
      BY <3>2
    <3>3. CASE CurrentAttempt(p) /\ intent' = [intent EXCEPT ![r].state = "retryable", ![r].leased = "none"]
      BY <1>1, <3>1, <3>3 DEF CurrentAttempt, IntentType
    <3> QED
      BY <2>1, <3>1, <3>2, <3>3 DEF FailAdmission
  <2>2. ASSUME NEW p \in Preparers, NEW r \in Requests, BeginAdmission(p, r)
        PROVE  \A q \in Requests : intent'[q].state = "cancelled" <=> intent[q].state = "cancelled"
    BY <1>1, <2>2 DEF BeginAdmission, MayBegin
  <2>3. ASSUME NEW r \in Requests, ExpirePreparation(r)
        PROVE  \A q \in Requests : intent'[q].state = "cancelled" <=> intent[q].state = "cancelled"
    BY <1>1, <2>3 DEF ExpirePreparation, IntentType
  <2>4. ASSUME intent' = intent
        PROVE  \A q \in Requests : intent'[q].state = "cancelled" <=> intent[q].state = "cancelled"
    BY <2>4
  <2>5. \/ \E p \in Preparers : FailAdmission(p) \/ \E r \in Requests : BeginAdmission(p, r)
        \/ \E r \in Requests : ExpirePreparation(r)
        \/ intent' = intent
    BY DEF ReuseReservation, CheckBudget, Abandon, PreparationFails, RecoverCrash, NextCycle, vars
  <2> QED
    BY <2>1, <2>2, <2>3, <2>4, <2>5
<1> QED
  BY <1>2, <1>3, RequestsStay, AccountsStay DEF Contract!contractVars

\* A call that is refused, or that reports its usage, changes nothing a caller
\* sees.
LEMMA CallsImplement ==
    ASSUME AdmissionInv, AdmissionInv', NEW r \in Requests, StopAtLimit(r) \/ RecordUsage(r)
    PROVE  UNCHANGED Contract!contractVars
<1>1. run \in [Requests -> RunType] /\ run[r] \in RunType /\ UNCHANGED <<intent, res>>
  BY DEF AdmissionInv, TypeOK, StopAtLimit, RecordUsage
<1>2. /\ run[r].state \in Active /\ run'[r].state \in Active /\ run'[r].generation = run[r].generation
      /\ \A q \in Requests : q # r => run'[q] = run[q]
  <2>1. CASE StopAtLimit(r)
    BY <1>1, <2>1 DEF StopAtLimit, RunType, Active
  <2>2. CASE RecordUsage(r)
    <3>1. PICK total, flag : run' = [run EXCEPT ![r].state = "running", ![r].cost = total, ![r].unpriced = flag]
      <4>1. PICK cost, unpriced : run' = [run EXCEPT ![r].state = "running", ![r].cost = @ + cost,
                                                    ![r].unpriced = @ \/ unpriced]
        BY <2>2 DEF RecordUsage
      <4>2. PICK total : total = run[r].cost + cost
        OBVIOUS
      <4>3. PICK flag : flag = (run[r].unpriced \/ unpriced)
        OBVIOUS
      <4> QED
        BY <1>1, <4>1, <4>2, <4>3
    <3>2. run[r].state = "calling"
      BY <2>2 DEF RecordUsage
    <3> QED
      BY <1>1, <3>1, <3>2 DEF RunType, Active
  <2> QED
    BY <2>1, <2>2
<1> QED
  BY <1>1, <1>2, RunningStays, AccountsStay DEF Contract!contractVars

\* Every step is a step of the contract or changes nothing a caller sees.
LEMMA NextImplements ==
    AdmissionInv /\ AdmissionInv' /\ SpendingInv /\ [Next]_vars => [Contract!Next]_(Contract!contractVars)
<1> SUFFICES ASSUME AdmissionInv, AdmissionInv', SpendingInv, [Next]_vars
             PROVE  Contract!Next \/ UNCHANGED Contract!contractVars
    OBVIOUS
<1>1. ASSUME NEW p \in Preparers, Prepare(p) \/ Abandon(p) \/ PreparationFails(p)
      PROVE  Contract!Next \/ UNCHANGED Contract!contractVars
  BY <1>1, QuietImplement, InsertReservationImplements, AdmitImplements, SettlementsImplement DEF Prepare
<1>2. ASSUME NEW p \in Preparers, NEW r \in Requests, BeginAdmission(p, r)
      PROVE  UNCHANGED Contract!contractVars
  BY <1>2, QuietImplement
<1>3. ASSUME NEW r \in Requests,
             \/ ExpirePreparation(r) \/ SweepAdmission(r)
             \/ StartCall(r) \/ StopAtLimit(r) \/ RecordUsage(r) \/ EndRun(r)
             \/ Cancel(r) \/ RecoverReserve(r) \/ RecoverCommit(r) \/ RecoverRelease(r)
             \/ RecoverCrash(r) \/ RecoverCancel(r)
      PROVE  Contract!Next \/ UNCHANGED Contract!contractVars
  BY <1>3, QuietImplement, SettlementsImplement, StartCallImplements, CallsImplement, EndsImplement,
     RecoverReserveImplements, RecoverCommitImplements
<1>4. ASSUME NEW k \in Keys, ReleaseOrphan(k) PROVE Contract!Next
  BY <1>4, ReleaseImplements
<1>5. CASE NextCycle \/ UNCHANGED vars
  BY <1>5, QuietImplement
<1> QED
  BY <1>1, <1>2, <1>3, <1>4, <1>5 DEF Next

\* Admission, the worker, the sweeps, cancellation, recovery and maintenance
\* implement the contract between them, for any number of requests, preparers,
\* generations and cycles, whatever calls cost beyond their estimates.
THEOREM AdmissionImplementsContract == Spec => ContractSpec
<1>1. Init => Contract!Init /\ SpendingInv
  BY InitImplements, InitSpending
<1>2. AdmissionInv /\ SpendingInv /\ [Next]_vars => SpendingInv'
  BY NextSpending
<1>3. AdmissionInv /\ AdmissionInv' /\ SpendingInv /\ [Next]_vars => [Contract!Next]_(Contract!contractVars)
  BY NextImplements
<1> QED
  BY <1>1, <1>2, <1>3, Invariance, PTL DEF Spec, ContractSpec, Contract!Spec
=============================================================================
