------------------------- MODULE LeaseRenewal_proof -------------------------
(***************************************************************************)
(* Theorems about LeaseRenewal, for every lifetime of a lease, every set   *)
(* of calls that may fail and every number of leases.                      *)
(***************************************************************************)
EXTENDS LeaseRenewal, TLAPS

-----------------------------------------------------------------------------
(* The invariants.                                                         *)

Running == {"serving", "joining"}
Round   == {"creating", "adding", "undoing", "swapping", "deleting"}
Holding == {"adding", "undoing", "swapping"}

\* A lease that nobody has deleted.
Kept(l) == l \in live \/ expires[l] <= now

(* Where run() is tells where the renewer can be.                          *)
PlaceInv ==
  /\ main \in {"start", "setup", "deleting", "done"} \cup Running
  /\ renewer \in {"none", "waiting", "returned"} \cup Round
  /\ main \in {"start", "setup"} => renewer = "none"
  /\ main \in Running => renewer # "none"
  /\ main \in {"deleting", "done"} => renewer \in {"none", "returned"}
  /\ renewer = "returned" => cancelled

(* The lease in the holder is not the one that the renewer holds, and both *)
(* are kept.                                                               *)
HolderInv ==
  /\ created \in 0 .. MaxLeases /\ now \in Nat
  /\ live \subseteq 1 .. created
  /\ expires \in [Lease -> Nat]
  /\ main \notin {"start", "done"} => cur \in 1 .. created
  /\ renewer \in Holding => fresh \in 1 .. created /\ fresh # cur
  /\ renewer = "deleting" => old # cur
  /\ main \notin {"start", "done"} => Kept(cur)
  /\ renewer \in Holding => Kept(fresh)

\* The leases that somebody has still to delete.
Owed == (IF main \in {"start", "done"} THEN {} ELSE {cur})
          \cup (IF renewer \in Holding THEN {fresh} ELSE {})
          \cup (IF renewer = "deleting" THEN {old} ELSE {})

NoneOverlooked == live \subseteq stranded \cup Owed

(* The renewer's clock: a round begins an interval after the one before it *)
(* and is over before the next tick.                                       *)
ClockInv ==
  /\ main = "start" => now = 0
  /\ main \in {"start", "setup"} => ~ticked
  /\ main = "setup" => now <= SetupTime
  /\ nextTick \in Nat /\ since \in Nat
  /\ renewer = "waiting" => IF ticked THEN now + interval = nextTick ELSE now < nextTick
  /\ renewer \in Round =>
       ~ticked /\ nextTick = since + interval /\ since <= now /\ now <= since + CallTime

\* When the next round begins.
Begins == IF ticked THEN now ELSE nextTick

(* The lease that covers the snapshot outlives the round that replaces it. *)
CoverInv ==
  /\ main = "setup" => cur \in covers /\ expires[cur] = expiry
  /\ renewer = "waiting" /\ ~behind => cur \in covers /\ expires[cur] > Begins + CallTime
  /\ renewer \in {"creating", "adding"} /\ ~behind =>
       cur \in covers /\ expires[cur] > since + CallTime
  /\ renewer \in {"adding", "swapping"} => expires[fresh] >= since + expiry
  /\ renewer = "swapping" => fresh \in covers
  /\ renewer = "deleting" => cur \in covers /\ expires[cur] >= since + expiry
  /\ renewer = "undoing" => behind

-----------------------------------------------------------------------------
(* The places.                                                             *)

LEMMA PlaceInvariant == Spec => []PlaceInv
<1> USE DEF PlaceInv, Running, Round
<1>1. Init => PlaceInv
  BY DEF Init
<1>2. PlaceInv /\ [Next]_vars => PlaceInv'
  <2> SUFFICES ASSUME PlaceInv, [Next]_vars PROVE PlaceInv'
    OBVIOUS
  <2>1. CASE RunStep
    BY <2>1 DEF RunStep, RunAcquires, RunStartsRenewer, RunSetupFails, RunStops, RunJoins,
                RunDeletesCurrent, RunAcquireFails, renewVars
  <2>2. CASE RenewerStep
    <3>1. /\ main' = main /\ cancelled' = cancelled
          /\ renewer \in {"waiting"} \cup Round
          /\ renewer' \in {"waiting"} \cup Round \/ (renewer' = "returned" /\ cancelled)
      BY <2>2 DEF RenewerStep, RenewerReturns, RenewerTicks, RenewerCreates,
                  RenewerCreateFails, RenewerAdds, RenewerAddFails, RenewerUndoes,
                  RenewerSwaps, RenewerDeletesOld, Renew, RoundEnds
    <3> QED
      BY <3>1
  <2>3. CASE Cancel \/ Tick \/ UNCHANGED vars
    BY <2>3 DEF Cancel, Tick, vars, renewVars
  <2> QED
    BY <2>1, <2>2, <2>3 DEF Next
<1> QED
  BY <1>1, <1>2, PTL DEF Spec

-----------------------------------------------------------------------------
(* The holder.                                                             *)

\* The lifetime is positive.
LEMMA ExpiryIsPositive == expiry \in Nat \ {0}
BY LeaseAssumption DEF expiry

\* A new lease is none of the others, and is kept.
LEMMA NewLease ==
  ASSUME HolderInv, CreateLease, now' = now
  PROVE  /\ created' = created + 1 /\ created' \in 1 .. MaxLeases /\ created' \in Lease
         /\ live' = live \cup {created'} /\ live' \subseteq 1 .. created'
         /\ expires' \in [Lease -> Nat] /\ expires'[created'] = now + expiry
         /\ \A l \in 1 .. created : /\ l # created' /\ l \in 1 .. created'
                                    /\ expires'[l] = expires[l]
                                    /\ Kept(l) => Kept(l)'
<1>1. created \in Nat /\ created < MaxLeases /\ created' = created + 1 /\ MaxLeases \in Nat
  BY LeaseAssumption DEF CreateLease, HolderInv
<1>2. created' \in 1 .. MaxLeases /\ \A l \in 1 .. created : l # created' /\ l \in 1 .. created'
  BY <1>1
<1>3. live' = live \cup {created'} /\ expires' = [expires EXCEPT ![created'] = now + expiry]
  BY DEF CreateLease
<1>4. expires' \in [Lease -> Nat] /\ expires'[created'] = now + expiry
  BY <1>2, <1>3, ExpiryIsPositive DEF HolderInv, Lease
<1>5. \A l \in 1 .. created : expires'[l] = expires[l]
  BY <1>1, <1>2, <1>3 DEF HolderInv, Lease
<1> QED
  BY <1>1, <1>2, <1>3, <1>4, <1>5 DEF HolderInv, Kept, Lease

\* A creation that fails leaves all leases as they are, and may add one.
LEMMA LeaseOfNobody ==
  ASSUME HolderInv, CreateLeaseFails, now' = now
  PROVE  /\ created' \in 0 .. MaxLeases /\ live' \subseteq 1 .. created'
         /\ expires' \in [Lease -> Nat]
         /\ \A l \in 1 .. created : /\ l \in 1 .. created' /\ expires'[l] = expires[l]
                                    /\ Kept(l) => Kept(l)'
<1>1. CASE CreateLease
  BY <1>1, NewLease
<1>2. CASE UNCHANGED <<live, expires, created>>
  BY <1>2 DEF HolderInv, Kept
<1> QED
  BY <1>1, <1>2 DEF CreateLeaseFails

\* Nobody touches the leases that are kept for the holder and the renewer.
LEMMA LeasesUntouched ==
  ASSUME HolderInv, UNCHANGED <<created, now, expires, live, cur>>,
         main' \notin {"start", "done"} => main \notin {"start", "done"},
         renewer' \in Holding => renewer \in Holding /\ fresh' = fresh,
         renewer' = "deleting" => renewer = "deleting" /\ old' = old
  PROVE  HolderInv'
BY DEF HolderInv, Kept

\* It holds: a lease is deleted only after it was swapped out of the holder.
LEMMA HolderInvariant == Spec => []HolderInv
<1>1. Init => HolderInv
  BY LeaseAssumption DEF Init, HolderInv, Holding
<1>2. PlaceInv /\ HolderInv /\ [Next]_vars => HolderInv'
  <2> SUFFICES ASSUME PlaceInv, HolderInv, [Next]_vars PROVE HolderInv'
    OBVIOUS
  <2>0. created \in 0 .. MaxLeases /\ now \in Nat /\ live \subseteq 1 .. created
        /\ expires \in [Lease -> Nat] /\ 1 .. created \subseteq Lease
    BY LeaseAssumption DEF HolderInv, Lease
  <2>1. CASE RunAcquires
    <3>1. CreateLease /\ now' = now /\ cur' = created' /\ renewer' = "none"
          /\ main' = "setup"
      BY <2>1 DEF RunAcquires, renewVars, PlaceInv
    <3>2. Kept(cur)'
      BY <3>1, NewLease DEF Kept
    <3> QED
      BY <2>0, <3>1, <3>2, NewLease DEF HolderInv, Holding
  <2>2. CASE RunStartsRenewer \/ RunSetupFails \/ RunStops \/ RunJoins \/ Cancel
             \/ RenewerReturns \/ RenewerTicks \/ RenewerAdds
             \/ RenewerAddFails \/ UNCHANGED vars
    <3>1. /\ UNCHANGED <<created, now, expires, live, cur, fresh>>
          /\ main' \notin {"start", "done"} => main \notin {"start", "done"}
          /\ renewer' \in Holding => renewer \in Holding
          /\ renewer' = "deleting" => renewer = "deleting" /\ old' = old
      BY <2>2 DEF RunStartsRenewer, RunSetupFails, RunStops, RunJoins, Cancel,
                  RenewerReturns, RenewerTicks, RenewerAdds, RenewerAddFails,
                  Renew, RoundEnds, renewVars, vars, Holding
    <3> QED
      BY <3>1, LeasesUntouched
  <2>3. CASE RunDeletesCurrent
    <3>1. /\ UNCHANGED <<created, now, expires, cur, renewer>> /\ live' \subseteq live
          /\ main = "deleting" /\ main' = "done" /\ renewer \in {"none", "returned"}
      BY <2>3 DEF RunDeletesCurrent, DeleteLease, DeleteLeaseFails, renewVars, PlaceInv
    <3> QED
      BY <2>0, <3>1 DEF HolderInv, Holding
  <2>4. CASE RenewerCreates
    <3>1. /\ CreateLease /\ now' = now /\ fresh' = created' /\ renewer' = "adding"
          /\ UNCHANGED <<main, cur>> /\ main \notin {"start", "done"}
      BY <2>4 DEF RenewerCreates, Renew, PlaceInv
    <3>2. cur \in 1 .. created /\ Kept(cur)
      BY <3>1 DEF HolderInv
    <3>3. Kept(cur)' /\ Kept(fresh)' /\ fresh' # cur' /\ cur' \in 1 .. created'
          /\ fresh' \in 1 .. created'
      BY <3>1, <3>2, NewLease DEF Kept
    <3> QED
      BY <2>0, <3>1, <3>3, NewLease DEF HolderInv, Holding
  <2>5. CASE RenewerUndoes
    <3>1. /\ UNCHANGED <<created, now, expires, cur, fresh, main>> /\ renewer' = "waiting"
          /\ live' = live \/ live' = live \ {fresh}
          /\ renewer = "undoing"
      BY <2>5 DEF RenewerUndoes, RoundEnds, DeleteLease, DeleteLeaseFails
    <3> QED
      BY <2>0, <3>1 DEF HolderInv, Holding, Kept
  <2>6. CASE RenewerSwaps
    <3>1. /\ UNCHANGED <<created, now, expires, live, fresh, main>>
          /\ renewer = "swapping" /\ renewer' = "deleting" /\ old' = cur /\ cur' = fresh
      BY <2>6 DEF RenewerSwaps, Renew
    <3> QED
      BY <2>0, <3>1 DEF HolderInv, Holding, Kept
  <2>7. CASE RenewerDeletesOld
    <3>1. /\ UNCHANGED <<created, now, expires, cur, main>> /\ renewer' = "waiting"
          /\ live' = live \/ live' = live \ {old}
          /\ renewer = "deleting"
      BY <2>7 DEF RenewerDeletesOld, RoundEnds, DeleteLease, DeleteLeaseFails
    <3> QED
      BY <2>0, <3>1 DEF HolderInv, Holding, Kept
  <2>8. CASE Tick
    <3>1. /\ UNCHANGED <<created, expires, main, renewer, cur, fresh, old>>
          /\ now' = now + 1 /\ live' = {l \in live : expires[l] > now'}
      BY <2>8 DEF Tick
    <3>2. \A l \in Lease : Kept(l) => Kept(l)'
      <4> SUFFICES ASSUME NEW l \in Lease, Kept(l) PROVE Kept(l)'
        OBVIOUS
      <4>1. expires[l] \in Nat /\ now \in Nat
        BY <2>0
      <4> QED
        BY <3>1, <4>1 DEF Kept
    <3>3. main \notin {"start", "done"} => cur \in Lease
      BY <2>0 DEF HolderInv
    <3>4. renewer \in Holding => fresh \in Lease
      BY <2>0 DEF HolderInv
    <3>5. main \notin {"start", "done"} => Kept(cur)'
      BY <3>1, <3>2, <3>3 DEF HolderInv
    <3>6. renewer \in Holding => Kept(fresh)'
      BY <3>1, <3>2, <3>4 DEF HolderInv
    <3>7. live' \subseteq 1 .. created' /\ now' \in Nat
      <4>1. live' \subseteq live /\ created' = created
        BY <3>1
      <4>2. now' \in Nat
        BY <2>0, <3>1
      <4> QED
        BY <2>0, <4>1, <4>2
    <3>8. UNCHANGED <<created, expires, main, renewer, cur, fresh, old>>
      BY <3>1
    <3> QED
      BY <2>0, <3>5, <3>6, <3>7, <3>8 DEF HolderInv
  <2>9. CASE RunAcquireFails \/ RenewerCreateFails
    <3>1. /\ CreateLeaseFails /\ UNCHANGED <<now, cur, fresh, old>>
          /\ main' \notin {"start", "done"} => main \notin {"start", "done"}
          /\ renewer' \notin Holding /\ renewer' # "deleting"
      BY <2>9 DEF RunAcquireFails, RenewerCreateFails, RoundEnds, renewVars, Holding,
                  PlaceInv
    <3>2. main' \notin {"start", "done"} => cur' \in 1 .. created' /\ Kept(cur)'
      BY <3>1, LeaseOfNobody DEF HolderInv
    <3> QED
      BY <2>0, <3>1, <3>2, LeaseOfNobody DEF HolderInv
  <2> QED
    BY <2>1, <2>2, <2>3, <2>4, <2>5, <2>6, <2>7, <2>8, <2>9
       DEF Next, RunStep, RenewerStep
<1> QED
  BY <1>1, <1>2, PlaceInvariant, PTL DEF Spec

\* The renewer never deletes the lease in the holder: until run() deletes it,
\* it is gone only by its own expiry, whatever calls fail.
THEOREM HolderIsKept == Spec => []HolderKept
<1>1. HolderInv => HolderKept
  BY DEF HolderInv, HolderKept, Kept
<1> QED
  BY <1>1, HolderInvariant, PTL

-----------------------------------------------------------------------------
(* Nothing is overlooked.                                                  *)

LEMMA OwedInvariant == Spec => []NoneOverlooked
<1>1. Init => NoneOverlooked
  BY DEF Init, NoneOverlooked
<1>2. PlaceInv /\ NoneOverlooked /\ [Next]_vars => NoneOverlooked'
  <2> SUFFICES ASSUME PlaceInv, NoneOverlooked, [Next]_vars PROVE NoneOverlooked'
    OBVIOUS
  <2> USE DEF NoneOverlooked
  <2>1. CASE RunAcquires
    <3>1. /\ live' = live \cup {cur'} /\ stranded' = stranded /\ main' = "setup"
          /\ main = "start" /\ renewer = "none"
      BY <2>1 DEF RunAcquires, CreateLease, PlaceInv
    <3> QED
      BY <3>1 DEF Owed, Holding
  <2>2. CASE RunStartsRenewer \/ RunSetupFails \/ RunStops \/ RunJoins \/ Cancel
             \/ RenewerReturns \/ RenewerTicks \/ RenewerAdds
             \/ RenewerAddFails \/ UNCHANGED vars \/ Tick
    <3>1. /\ UNCHANGED <<cur, fresh, old, stranded>> /\ live' \subseteq live
          /\ main \notin {"start", "done"} => main' \notin {"start", "done"}
          /\ renewer \in Holding => renewer' \in Holding
          /\ renewer = "deleting" => renewer' = "deleting"
      BY <2>2 DEF RunStartsRenewer, RunSetupFails, RunStops, RunJoins, Cancel,
                  RenewerReturns, RenewerTicks, RenewerAdds, RenewerAddFails,
                  Tick, Renew, RoundEnds, renewVars, vars, Holding, PlaceInv
    <3>2. Owed \subseteq Owed'
      BY <3>1 DEF Owed
    <3> QED
      BY <3>1, <3>2
  <2>3. CASE RunDeletesCurrent
    <3>1. /\ UNCHANGED <<cur, fresh, old, renewer>>
          /\ main = "deleting" /\ renewer \in {"none", "returned"}
          /\ \/ live' = live \ {cur} /\ stranded' = stranded
             \/ live' \subseteq live /\ stranded' = stranded \cup {cur}
      BY <2>3 DEF RunDeletesCurrent, DeleteLease, DeleteLeaseFails, renewVars, PlaceInv
    <3>2. Owed = {cur}
      BY <3>1 DEF Owed, Holding
    <3> QED
      BY <3>1, <3>2
  <2>4. CASE RenewerCreates
    <3>1. /\ live' = live \cup {fresh'} /\ UNCHANGED <<stranded, main, cur>>
          /\ renewer = "creating" /\ renewer' = "adding"
      BY <2>4 DEF RenewerCreates, CreateLease, Renew
    <3> QED
      BY <3>1 DEF Owed, Holding
  <2>5. CASE RenewerUndoes
    <3>1. /\ UNCHANGED <<cur, main>> /\ renewer = "undoing" /\ renewer' = "waiting"
          /\ \/ live' = live \ {fresh} /\ stranded' = stranded
             \/ live' \subseteq live /\ stranded' = stranded \cup {fresh}
      BY <2>5 DEF RenewerUndoes, RoundEnds, DeleteLease, DeleteLeaseFails
    <3> QED
      BY <3>1 DEF Owed, Holding
  <2>6. CASE RenewerSwaps
    <3>1. /\ UNCHANGED <<live, main, stranded>> /\ main \notin {"start", "done"}
          /\ renewer = "swapping" /\ renewer' = "deleting" /\ old' = cur /\ cur' = fresh
      BY <2>6 DEF RenewerSwaps, Renew, PlaceInv
    <3> QED
      BY <3>1 DEF Owed, Holding
  <2>7. CASE RenewerDeletesOld
    <3>1. /\ UNCHANGED <<cur, main>> /\ renewer = "deleting" /\ renewer' = "waiting"
          /\ \/ live' = live \ {old} /\ stranded' = stranded
             \/ live' \subseteq live /\ stranded' = stranded \cup {old}
      BY <2>7 DEF RenewerDeletesOld, RoundEnds, DeleteLease, DeleteLeaseFails
    <3> QED
      BY <3>1 DEF Owed, Holding
  <2>8. CASE RunAcquireFails \/ RenewerCreateFails
    <3>1. /\ UNCHANGED <<cur, fresh, old>>
          /\ \/ live' = live /\ stranded' = stranded
             \/ \E l : live' = live \cup {l} /\ stranded' = stranded \cup {l}
      BY <2>8 DEF RunAcquireFails, RenewerCreateFails, CreateLeaseFails, CreateLease,
                  renewVars
    <3>2. \/ main = "start" /\ renewer = "none"
          \/ main' = main /\ renewer = "creating"
      BY <2>8 DEF RunAcquireFails, RenewerCreateFails, PlaceInv
    <3>3. Owed \subseteq Owed'
      BY <3>1, <3>2 DEF Owed, Holding
    <3> QED
      BY <3>1, <3>3
  <2> QED
    BY <2>1, <2>2, <2>3, <2>4, <2>5, <2>6, <2>7, <2>8 DEF Next, RunStep, RenewerStep
<1> QED
  BY <1>1, <1>2, PlaceInvariant, PTL DEF Spec

\* The cleanup deletes every lease that run() and the renewer know of: what is
\* left when run() is done is a lease whose deletion failed, or which a call made
\* that was reported to have failed.
THEOREM OnlyStrandedAreLeft == Spec => []OnlyStrandedRemain
<1>1. PlaceInv /\ NoneOverlooked => OnlyStrandedRemain
  BY DEF PlaceInv, NoneOverlooked, Owed, Holding, OnlyStrandedRemain
<1> QED
  BY <1>1, PlaceInvariant, OwedInvariant, PTL

-----------------------------------------------------------------------------
(* The cover, when setup and a round together take less than the interval, *)
(* and the lifetime is not too short for the renewer's least interval.     *)

Timely == SetupTime + CallTime < interval /\ Minute <= expiry \div 2

\* What Timely says about the constants, in plain arithmetic.
LEMMA TimelyFacts ==
  ASSUME Timely
  PROVE  /\ interval \in Nat \ {0} /\ expiry \in Nat \ {0}
         /\ CallTime \in Nat /\ SetupTime \in Nat
         /\ CallTime < interval /\ SetupTime < interval
         /\ SetupTime + CallTime < interval
         /\ interval + interval <= expiry
<1>1. interval = expiry \div 2 /\ expiry \in Nat \ {0}
  BY ExpiryIsPositive, LeaseAssumption DEF Timely, interval
<1> HIDE DEF expiry
<1>2. interval \in Nat /\ interval + interval <= expiry
  BY <1>1
<1> HIDE DEF interval
<1> QED
  BY <1>1, <1>2, LeaseAssumption DEF Timely

\* It holds: a round ends before the next tick, so the ticker never fills up.
LEMMA ClockInvariant == ASSUME Timely PROVE Spec => []ClockInv
<1>0. /\ interval \in Nat \ {0} /\ CallTime \in Nat /\ SetupTime \in Nat
      /\ CallTime < interval
  BY TimelyFacts
<1>1. Init => ClockInv
  BY <1>0 DEF Init, ClockInv, Round
<1>2. PlaceInv /\ HolderInv /\ ClockInv /\ [Next]_vars => ClockInv'
  <2> SUFFICES ASSUME PlaceInv, HolderInv, ClockInv, [Next]_vars PROVE ClockInv'
    OBVIOUS
  <2>0. now \in Nat /\ nextTick \in Nat /\ since \in Nat
    BY DEF HolderInv, ClockInv
  <2>1. CASE RunAcquires \/ RunAcquireFails
    BY <1>0, <2>1 DEF RunAcquires, RunAcquireFails, ClockInv, renewVars, PlaceInv, Round
  <2>2. CASE RunStartsRenewer
    <3>1. /\ main' = "serving" /\ renewer' = "waiting" /\ nextTick' = now + interval
          /\ UNCHANGED <<now, ticked, since>> /\ ~ticked
      BY <2>2 DEF RunStartsRenewer, ClockInv
    <3> QED
      BY <1>0, <2>0, <3>1 DEF ClockInv, Round
  <2>3. CASE RunSetupFails \/ RunStops \/ RunJoins \/ RunDeletesCurrent \/ Cancel
             \/ UNCHANGED vars
    BY <2>3 DEF RunSetupFails, RunStops, RunJoins, RunDeletesCurrent, Cancel, vars,
                renewVars, ClockInv
  <2>4. CASE RenewerReturns
    BY <2>4 DEF RenewerReturns, Renew, ClockInv, Round, PlaceInv
  <2>5. CASE RenewerTicks
    <3>1. /\ renewer = "waiting" /\ ticked /\ renewer' = "creating"
          /\ ticked' = FALSE /\ since' = now /\ UNCHANGED <<now, nextTick, main>>
      BY <2>5 DEF RenewerTicks, Renew
    <3>2. now + interval = nextTick
      BY <3>1 DEF ClockInv
    <3> QED
      BY <1>0, <2>0, <3>1, <3>2 DEF ClockInv
  <2>6. CASE RenewerCreates \/ RenewerAdds \/ RenewerAddFails \/ RenewerSwaps
    <3>1. /\ renewer \in Round /\ renewer' \in Round
          /\ UNCHANGED <<now, nextTick, ticked, since, main>>
      BY <2>6 DEF RenewerCreates, RenewerAdds, RenewerAddFails, RenewerSwaps, Renew, Round
    <3> QED
      BY <3>1 DEF ClockInv, Round
  <2>7. CASE RenewerCreateFails \/ RenewerUndoes \/ RenewerDeletesOld
    <3>1. /\ renewer \in Round /\ renewer' = "waiting"
          /\ UNCHANGED <<now, nextTick, ticked, since, main>>
      BY <2>7 DEF RenewerCreateFails, RenewerUndoes, RenewerDeletesOld, RoundEnds, Round
    <3>2. ~ticked /\ nextTick = since + interval /\ now <= since + CallTime
      BY <3>1 DEF ClockInv
    <3>3. now < nextTick
      BY <1>0, <2>0, <3>2
    <3> QED
      BY <3>1, <3>2, <3>3 DEF ClockInv, Round
  <2>8. CASE Tick
    <3> DEFINE fires == main \notin {"start", "setup"} /\ now' >= nextTick
    <3>1. /\ now' = now + 1 /\ UNCHANGED <<main, renewer, since>> /\ InTime
          /\ ticked' <=> ticked \/ fires
          /\ fires => nextTick' = nextTick + interval
          /\ ~fires => nextTick' = nextTick
      BY <2>8 DEF Tick
    <3>2. nextTick' \in Nat /\ now' \in Nat
      BY <1>0, <2>0, <3>1
    <3>3. CASE main = "setup"
      <4>1. ~fires /\ ~ticked /\ renewer = "none" /\ now < SetupTime
        BY <3>1, <3>3 DEF ClockInv, PlaceInv, InTime
      <4>2. ~ticked' /\ now' <= SetupTime
        BY <1>0, <2>0, <3>1, <4>1
      <4> QED
        BY <2>0, <3>1, <3>2, <3>3, <4>1, <4>2 DEF ClockInv, Round
    <3>4. CASE main # "setup" /\ renewer = "waiting"
      <4>1. ~ticked /\ now < nextTick /\ main \in Running
        BY <3>1, <3>4 DEF ClockInv, InTime, PlaceInv
      <4>2. IF ticked' THEN now' + interval = nextTick' ELSE now' < nextTick'
        <5>1. CASE fires
          <6>1. now' = nextTick /\ nextTick' = nextTick + interval /\ ticked'
            BY <2>0, <3>1, <4>1, <5>1
          <6> QED
            BY <6>1
        <5>2. CASE ~fires
          <6>1. now' < nextTick
            BY <2>0, <3>1, <4>1, <5>2 DEF Running
          <6>2. nextTick' = nextTick /\ ~ticked'
            BY <3>1, <4>1, <5>2
          <6> QED
            BY <6>1, <6>2
        <5> QED
          BY <5>1, <5>2
      <4> QED
        BY <2>0, <3>1, <3>2, <3>4, <4>1, <4>2 DEF ClockInv, Running, Round
    <3>5. CASE main # "setup" /\ renewer \in Round
      <4>1. /\ ~ticked /\ nextTick = since + interval /\ since <= now
            /\ now < since + CallTime /\ main \in Running
        BY <3>1, <3>5 DEF ClockInv, InTime, PlaceInv, Round
      <4>2. ~fires
        BY <1>0, <2>0, <3>1, <4>1
      <4>3. ~ticked' /\ nextTick' = since + interval /\ since <= now'
            /\ now' <= since + CallTime
        <5>1. ~ticked' /\ nextTick' = nextTick
          BY <3>1, <4>1, <4>2
        <5>2. now' <= since + CallTime /\ since <= now'
          BY <1>0, <2>0, <3>1, <4>1
        <5> QED
          BY <4>1, <5>1, <5>2
      <4> QED
        BY <2>0, <3>1, <3>2, <3>5, <4>1, <4>3 DEF ClockInv, Running, Round
    <3>6. CASE main # "setup" /\ renewer \in {"none", "returned"}
      <4>1. main # "start"
        BY <3>1 DEF InTime
      <4> QED
        BY <2>0, <3>1, <3>2, <3>6, <4>1 DEF ClockInv, Round
    <3> QED
      BY <3>3, <3>4, <3>5, <3>6 DEF PlaceInv
  <2> QED
    BY <2>1, <2>2, <2>3, <2>4, <2>5, <2>6, <2>7, <2>8 DEF Next, RunStep, RenewerStep
<1> QED
  BY <1>1, <1>2, PlaceInvariant, HolderInvariant, PTL DEF Spec

\* It holds: the lease that covers the snapshot lives until the next round is
\* over.
LEMMA CoverInvariant == ASSUME Timely PROVE Spec => []CoverInv
<1>0. /\ interval \in Nat \ {0} /\ expiry \in Nat \ {0} /\ CallTime \in Nat
      /\ SetupTime \in Nat /\ CallTime < interval /\ SetupTime + CallTime < interval
      /\ interval + interval <= expiry
  BY TimelyFacts
<1>1. Init => CoverInv
  BY DEF Init, CoverInv
<1>2. PlaceInv /\ HolderInv /\ ClockInv /\ ClockInv' /\ CoverInv /\ [Next]_vars
        => CoverInv'
  <2> SUFFICES ASSUME PlaceInv, HolderInv, ClockInv, ClockInv', CoverInv, [Next]_vars
               PROVE  CoverInv'
    OBVIOUS
  <2>0. /\ now \in Nat /\ nextTick \in Nat /\ since \in Nat
        /\ expires \in [Lease -> Nat] /\ 1 .. created \subseteq Lease
    BY LeaseAssumption DEF HolderInv, ClockInv, Lease
  <2>1. CASE RunAcquires
    <3>1. /\ CreateLease /\ now' = now /\ cur' = created' /\ renewer' = "none"
          /\ covers' = covers \cup {created'} /\ now = 0
      BY <2>1 DEF RunAcquires, renewVars, PlaceInv, ClockInv
    <3>2. expires'[cur'] = expiry
      BY <1>0, <3>1, NewLease
    <3> QED
      BY <3>1, <3>2 DEF CoverInv
  <2>2. CASE RunStartsRenewer
    <3>1. /\ main = "setup" /\ main' = "serving" /\ renewer' = "waiting"
          /\ nextTick' = now + interval
          /\ UNCHANGED <<now, ticked, cur, expires, covers>> /\ ~ticked /\ now <= SetupTime
          /\ cur \in covers /\ expires[cur] = expiry
      BY <2>2 DEF RunStartsRenewer, ClockInv, CoverInv
    <3>2. Begins' = now + interval
      BY <3>1 DEF Begins
    <3>3. expiry > now + interval + CallTime
      BY <1>0, <2>0, <3>1
    <3> QED
      BY <3>1, <3>2, <3>3 DEF CoverInv
  <2>3. CASE RunSetupFails \/ RunStops \/ RunJoins \/ RunDeletesCurrent \/ Cancel
             \/ UNCHANGED vars
    <3>1. /\ UNCHANGED <<expires, covers, cur, renewVars, now>>
          /\ main' = "setup" => main = "setup"
      BY <2>3 DEF RunSetupFails, RunStops, RunJoins, RunDeletesCurrent, Cancel, vars,
                  renewVars
    <3> QED
      BY <3>1 DEF CoverInv, Begins, renewVars
  <2>4. CASE RenewerReturns
    BY <2>4 DEF RenewerReturns, Renew, CoverInv, PlaceInv
  <2>5. CASE RenewerTicks
    <3>1. /\ renewer = "waiting" /\ ticked /\ renewer' = "creating" /\ since' = now
          /\ UNCHANGED <<expires, covers, cur, behind, main>>
      BY <2>5 DEF RenewerTicks, Renew
    <3> QED
      BY <3>1 DEF CoverInv, Begins, PlaceInv
  <2>6. CASE RenewerCreates
    <3>1. /\ CreateLease /\ now' = now /\ fresh' = created' /\ renewer = "creating"
          /\ renewer' = "adding" /\ UNCHANGED <<covers, cur, behind, main, since>>
      BY <2>6 DEF RenewerCreates, Renew
    <3>2. cur \in 1 .. created /\ main # "setup"
      BY <3>1 DEF HolderInv, PlaceInv
    <3>3. expires'[cur] = expires[cur] /\ expires'[fresh'] = now + expiry
      BY <3>1, <3>2, NewLease
    <3>4. since <= now
      BY <3>1 DEF ClockInv, Round
    <3>5. expires'[fresh'] >= since' + expiry
      BY <1>0, <2>0, <3>1, <3>3, <3>4
    <3> QED
      BY <3>1, <3>2, <3>3, <3>5 DEF CoverInv
  <2>7. CASE RenewerCreateFails \/ RenewerAddFails \/ RunAcquireFails
    BY <2>7 DEF RenewerCreateFails, RenewerAddFails, RunAcquireFails, Renew, RoundEnds,
                renewVars, CoverInv, PlaceInv
  <2>8. CASE RenewerAdds
    BY <2>8 DEF RenewerAdds, Renew, CoverInv, PlaceInv
  <2>9. CASE RenewerUndoes
    BY <2>9 DEF RenewerUndoes, RoundEnds, CoverInv, PlaceInv
  <2>10. CASE RenewerSwaps
    BY <2>10 DEF RenewerSwaps, Renew, CoverInv, PlaceInv
  <2>11. CASE RenewerDeletesOld
    <3>1. /\ renewer = "deleting" /\ renewer' = "waiting"
          /\ UNCHANGED <<expires, covers, cur, main, now, nextTick, ticked, since>>
      BY <2>11 DEF RenewerDeletesOld, RoundEnds
    <3>2. /\ cur \in covers /\ expires[cur] >= since + expiry
          /\ ~ticked /\ nextTick = since + interval /\ main # "setup"
          /\ cur \in Lease
      BY <2>0, <3>1 DEF CoverInv, ClockInv, Round, PlaceInv, HolderInv
    <3>3. Begins' = since + interval /\ expires[cur] \in Nat
      BY <2>0, <3>1, <3>2 DEF Begins
    <3>4. expires[cur] > since + interval + CallTime
      BY <1>0, <2>0, <3>2, <3>3
    <3> QED
      BY <3>1, <3>2, <3>3, <3>4 DEF CoverInv
  <2>12. CASE Tick
    <3>1. /\ UNCHANGED <<main, renewer, cur, fresh, covers, expires, behind, since>>
          /\ InTime /\ now' = now + 1
      BY <2>12 DEF Tick
    <3>2. renewer = "waiting" => Begins' = Begins
      <4> SUFFICES ASSUME renewer = "waiting" PROVE Begins' = Begins
        OBVIOUS
      <4> DEFINE fires == main \notin {"start", "setup"} /\ now' >= nextTick
      <4>1. /\ ~ticked /\ now < nextTick /\ (ticked' <=> ticked \/ fires)
            /\ ~fires => nextTick' = nextTick
        BY <2>12, <3>1 DEF Tick, InTime, ClockInv
      <4>2. CASE fires
        <5>1. now' = nextTick
          BY <2>0, <3>1, <4>1, <4>2
        <5>2. ticked'
          BY <4>1, <4>2
        <5> QED
          BY <4>1, <5>1, <5>2 DEF Begins
      <4>3. CASE ~fires
        BY <4>1, <4>3 DEF Begins
      <4> QED
        BY <4>2, <4>3
    <3> QED
      BY <3>1, <3>2 DEF CoverInv
  <2> QED
    BY <2>1, <2>2, <2>3, <2>4, <2>5, <2>6, <2>7, <2>8, <2>9, <2>10, <2>11, <2>12
       DEF Next, RunStep, RenewerStep
<1> QED
  BY <1>1, <1>2, PlaceInvariant, HolderInvariant, ClockInvariant, PTL DEF Spec

\* As long as nobody has cancelled the machine and the last renewal succeeded,
\* some lease that containerd still knows references the snapshot, at every
\* moment of every renewal: if setup and one round are shorter than the
\* interval, and the lifetime is at least twice the least interval.
THEOREM SnapshotStaysCovered ==
  ASSUME SetupTime + CallTime < interval, Minute <= expiry \div 2
  PROVE  Spec => []SnapshotCovered
<1>0. Timely
  BY DEF Timely
<1>1. PlaceInv /\ HolderInv /\ ClockInv /\ CoverInv => SnapshotCovered
  <2> SUFFICES ASSUME PlaceInv, HolderInv, ClockInv, CoverInv,
                      main \in {"setup", "serving", "joining"}, ~cancelled, ~behind
               PROVE  live \cap covers # {}
    BY DEF SnapshotCovered
  <2>0. /\ interval \in Nat \ {0} /\ expiry \in Nat \ {0} /\ CallTime \in Nat
        /\ SetupTime \in Nat /\ CallTime < interval /\ SetupTime < interval
        /\ interval + interval <= expiry
    BY <1>0, TimelyFacts
  <2>1. /\ now \in Nat /\ nextTick \in Nat /\ since \in Nat
        /\ expires \in [Lease -> Nat] /\ 1 .. created \subseteq Lease
    BY LeaseAssumption DEF HolderInv, ClockInv, Lease
  <2>2. cur \in Lease /\ Kept(cur) /\ expires[cur] \in Nat
    BY <2>1 DEF HolderInv
  <2>3. CASE main = "setup"
    <3>1. cur \in covers /\ expires[cur] > now
      BY <2>0, <2>1, <2>3 DEF CoverInv, ClockInv
    <3> QED
      BY <2>1, <2>2, <3>1 DEF Kept
  <2>4. CASE renewer = "waiting"
    <3>1. cur \in covers /\ expires[cur] > Begins + CallTime
      BY <2>4 DEF CoverInv
    <3>2. Begins >= now /\ Begins \in Nat
      BY <2>1, <2>4 DEF Begins, ClockInv
    <3>3. expires[cur] > now
      BY <2>0, <2>1, <2>2, <3>1, <3>2
    <3> QED
      BY <2>1, <2>2, <3>1, <3>3 DEF Kept
  <2>5. CASE renewer \in {"creating", "adding"}
    <3>1. cur \in covers /\ expires[cur] > since + CallTime /\ now <= since + CallTime
      BY <2>5 DEF CoverInv, ClockInv, Round
    <3>2. expires[cur] > now
      BY <2>0, <2>1, <2>2, <3>1
    <3> QED
      BY <2>1, <2>2, <3>1, <3>2 DEF Kept
  <2>6. CASE renewer = "swapping"
    <3>1. fresh \in covers /\ expires[fresh] >= since + expiry /\ now <= since + CallTime
          /\ fresh \in Lease /\ Kept(fresh)
      BY <2>1, <2>6 DEF CoverInv, ClockInv, Round, HolderInv, Holding
    <3>2. expires[fresh] \in Nat
      BY <2>1, <3>1
    <3>3. expires[fresh] > now
      BY <2>0, <2>1, <3>1, <3>2
    <3> QED
      BY <2>1, <3>1, <3>2, <3>3 DEF Kept
  <2>7. CASE renewer = "deleting"
    <3>1. cur \in covers /\ expires[cur] >= since + expiry /\ now <= since + CallTime
      BY <2>7 DEF CoverInv, ClockInv, Round
    <3>2. expires[cur] > now
      BY <2>0, <2>1, <2>2, <3>1
    <3> QED
      BY <2>1, <2>2, <3>1, <3>2 DEF Kept
  <2> QED
    BY <2>3, <2>4, <2>5, <2>6, <2>7 DEF PlaceInv, Running, Round, CoverInv
<1> QED
  BY <1>0, <1>1, PlaceInvariant, HolderInvariant, ClockInvariant, CoverInvariant, PTL
=============================================================================
