---------------------------- MODULE LeaseRenewal ----------------------------
(***************************************************************************)
(* The containerd leases of one machine in internal/vmmgr/manager.go: the  *)
(* lease run() acquires, the renewLease goroutine that replaces it by a    *)
(* fresh one at half its lifetime, the holder the two share, and run()'s   *)
(* deferred deletion of whichever lease is current.                        *)
(*                                                                         *)
(* Time is discrete.  containerd removes a lease at its expiry, and        *)
(* without a lease that references it the VM's snapshot may be collected.  *)
(***************************************************************************)
EXTENDS Naturals

CONSTANTS
  LeaseExpiration,  \* Config.LeaseExpiration
  DefaultExpiry,    \* what a LeaseExpiration of zero falls back to: 24 h
  Minute,           \* the least renewal interval
  CallTime,         \* longest time a step of the renewer takes
  SetupTime,        \* longest time from the first lease to the renewer's start
  MayFail,          \* containerd calls that may fail although not cancelled
  MaxLeases,        \* bound: leases created
  MaxTime           \* bound: the clock

ASSUME LeaseAssumption ==
  /\ LeaseExpiration \in Nat /\ DefaultExpiry \in Nat \ {0}
  /\ Minute \in Nat \ {0}
  /\ CallTime \in Nat /\ SetupTime \in Nat
  /\ MayFail \subseteq {"create", "add", "delete"}
  /\ MaxLeases \in Nat \ {0} /\ MaxTime \in Nat

expiry == IF LeaseExpiration = 0 THEN DefaultExpiry ELSE LeaseExpiration

interval == IF expiry \div 2 < Minute THEN Minute ELSE expiry \div 2

Lease == 1 .. MaxLeases

VARIABLES
  now,        \* the clock
  live,       \* leases containerd knows
  expires,    \* expires[l]: when containerd removes l
  covers,     \* leases that reference the snapshot
  created,    \* leases created so far
  main,       \* run(): "start", "setup", "serving", "joining", "deleting", "done"
  renewer,    \* renewLease: "none", "waiting", "creating", "adding", "undoing",
              \*             "swapping", "deleting", "returned"
  cur,        \* leaseHolder.cur
  fresh,      \* the lease renewLease is installing
  old,        \* the lease it replaced
  nextTick,   \* when the ticker fires next
  ticked,     \* a tick is buffered
  since,      \* when the renewer's current round began
  cancelled,  \* the machine's context
  doomed,     \* the renewer's call began after that context was cancelled
  behind,     \* history: a renewal has failed and none has succeeded since
  stranded    \* history: leases whose deletion, or whose creation, has failed

renewVars == <<renewer, fresh, old, nextTick, ticked, since, doomed, behind>>

vars == <<now, live, expires, covers, created, main, renewer, cur, fresh, old,
          nextTick, ticked, since, cancelled, doomed, behind, stranded>>

Init ==
  /\ now = 0
  /\ live = {} /\ covers = {} /\ created = 0
  /\ expires = [l \in Lease |-> 0]
  /\ main = "start" /\ renewer = "none"
  /\ cur = 0 /\ fresh = 0 /\ old = 0
  /\ nextTick = 0 /\ ticked = FALSE /\ since = 0
  /\ cancelled = FALSE /\ doomed = FALSE
  /\ behind = FALSE /\ stranded = {}

\* A call with the machine's context fails when that was cancelled before the
\* call, and may fail when it is cancelled during the call.
Fails(what) == cancelled \/ what \in MayFail

Succeeds == ~doomed

\* leases.Manager.Create with WithExpiration(expiry).
CreateLease ==
  /\ created < MaxLeases
  /\ created' = created + 1
  /\ live' = live \cup {created'}
  /\ expires' = [expires EXCEPT ![created'] = now + expiry]

\* A call that fails may have been carried out all the same; of a lease made in
\* such a call nobody knows.
CreateLeaseFails ==
  \/ UNCHANGED <<live, expires, created, stranded>>
  \/ CreateLease /\ stranded' = stranded \cup {created'}

\* leases.Manager.Delete, which gives the lease up or fails.
DeleteLease(l) == live' = live \ {l} /\ UNCHANGED stranded

DeleteLeaseFails(l) == stranded' = stranded \cup {l} /\ live' \in {live, live \ {l}}

\* The next position; a call that starts there is doomed if cancelled by now.
Renew(from, to) == renewer = from /\ renewer' = to /\ doomed' = cancelled

\* The round is over: back to the select.
RoundEnds == renewer' = "waiting" /\ UNCHANGED doomed

-----------------------------------------------------------------------------
(* Faulty variants of operations below, each a bug the code could have had *)
(* and a property catches; no specification uses them.                     *)

\* The cleanup does not wait for the renewer.
RunJoinsNobody ==
  /\ main = "joining"
  /\ main' = "deleting"
  /\ UNCHANGED <<now, live, expires, covers, created, renewVars, cur, cancelled,
                 stranded>>

\* The old lease is deleted before the new one references the snapshot.
RenewerCreatesAndDeletes ==
  /\ Succeeds
  /\ Renew("creating", "adding")
  /\ created < MaxLeases
  /\ created' = created + 1
  /\ live' = (live \cup {created'}) \ {cur}
  /\ expires' = [expires EXCEPT ![created'] = now + expiry]
  /\ fresh' = created'
  /\ UNCHANGED <<now, covers, main, cur, old, nextTick, ticked, since, cancelled,
                 behind, stranded>>

\* The holder is not told of the new lease.
RenewerForgetsSwap ==
  /\ Renew("swapping", "deleting")
  /\ old' = cur
  /\ UNCHANGED <<now, live, expires, covers, created, main, cur, fresh, nextTick,
                 ticked, since, cancelled,
                 behind, stranded>>

-----------------------------------------------------------------------------
(* run().                                                                  *)

\* The first lease; pulling and preparing under it reference the snapshot.
RunAcquires ==
  /\ main = "start"
  /\ CreateLease
  /\ covers' = covers \cup {created'}
  /\ cur' = created'
  /\ main' = "setup"
  /\ UNCHANGED <<now, renewVars, cancelled, stranded>>

\* Without a first lease there is nothing to defer.
RunAcquireFails ==
  /\ main = "start" /\ Fails("create")
  /\ CreateLeaseFails
  /\ main' = "done"
  /\ UNCHANGED <<now, covers, renewVars, cur, cancelled>>

RunStartsRenewer ==
  /\ main = "setup"
  /\ main' = "serving"
  /\ renewer' = "waiting" /\ doomed' = FALSE
  /\ nextTick' = now + interval
  /\ UNCHANGED <<now, live, expires, covers, created, cur, fresh, old, ticked,
                 since, cancelled,
                 behind, stranded>>

\* A step before the renewer's start fails: only the lease is left to delete.
RunSetupFails ==
  /\ main = "setup"
  /\ main' = "deleting"
  /\ UNCHANGED <<now, live, expires, covers, created, renewVars, cur, cancelled,
                 stranded>>

\* The VM stops, or a step after the renewer's start fails: join the renewer.
RunStops ==
  /\ main = "serving"
  /\ main' = "joining"
  /\ UNCHANGED <<now, live, expires, covers, created, renewVars, cur, cancelled,
                 stranded>>

RunJoins ==
  /\ main = "joining" /\ renewer = "returned"
  /\ main' = "deleting"
  /\ UNCHANGED <<now, live, expires, covers, created, renewVars, cur, cancelled,
                 stranded>>

\* The deferred deletion uses a background context.
RunDeletesCurrent ==
  /\ main = "deleting"
  /\ main' = "done"
  /\ \/ DeleteLease(cur)
     \/ "delete" \in MayFail /\ DeleteLeaseFails(cur)
  /\ UNCHANGED <<now, expires, covers, created, renewVars, cur, cancelled>>

\* DELETE, or the manager shutting down.
Cancel ==
  /\ ~cancelled
  /\ cancelled' = TRUE
  /\ UNCHANGED <<now, live, expires, covers, created, main, renewVars, cur,
                 stranded>>

-----------------------------------------------------------------------------
(* renewLease.                                                             *)

RenewerReturns ==
  /\ cancelled
  /\ Renew("waiting", "returned")
  /\ UNCHANGED <<now, live, expires, covers, created, main, cur, fresh, old,
                 nextTick, ticked, since, cancelled,
                 behind, stranded>>

\* The select takes a tick; it may do so although the context is cancelled.
RenewerTicks ==
  /\ ticked
  /\ Renew("waiting", "creating")
  /\ ticked' = FALSE /\ since' = now
  /\ UNCHANGED <<now, live, expires, covers, created, main, cur, fresh, old,
                 nextTick, cancelled, behind, stranded>>

RenewerCreates ==
  /\ Succeeds
  /\ Renew("creating", "adding")
  /\ CreateLease
  /\ fresh' = created'
  /\ UNCHANGED <<now, covers, main, cur, old, nextTick, ticked, since, cancelled,
                 behind, stranded>>

RenewerCreateFails ==
  /\ renewer = "creating" /\ Fails("create")
  /\ CreateLeaseFails
  /\ behind' = TRUE
  /\ RoundEnds
  /\ UNCHANGED <<now, covers, main, cur, fresh, old, nextTick, ticked, since,
                 cancelled>>

RenewerAdds ==
  /\ Succeeds
  /\ Renew("adding", "swapping")
  /\ covers' = covers \cup {fresh}
  /\ behind' = FALSE
  /\ UNCHANGED <<now, live, expires, created, main, cur, fresh, old, nextTick,
                 ticked, since, cancelled, stranded>>

RenewerAddFails ==
  /\ Fails("add")
  /\ covers' \in {covers, covers \cup {fresh}}
  /\ behind' = TRUE
  /\ Renew("adding", "undoing")
  /\ UNCHANGED <<now, live, expires, created, main, cur, fresh, old, nextTick,
                 ticked, since, cancelled, stranded>>

\* The fresh lease is deleted with the machine's context, the error ignored.
RenewerUndoes ==
  /\ renewer = "undoing"
  /\ RoundEnds
  /\ \/ Succeeds /\ DeleteLease(fresh)
     \/ Fails("delete") /\ DeleteLeaseFails(fresh)
  /\ UNCHANGED <<now, expires, covers, created, main, cur, fresh, old, nextTick,
                 ticked, since, cancelled, behind>>

RenewerSwaps ==
  /\ Renew("swapping", "deleting")
  /\ old' = cur /\ cur' = fresh
  /\ UNCHANGED <<now, live, expires, covers, created, main, fresh, nextTick, ticked,
                 since, cancelled,
                 behind, stranded>>

\* The old lease is deleted with the machine's context, the error only logged.
RenewerDeletesOld ==
  /\ renewer = "deleting"
  /\ RoundEnds
  /\ \/ Succeeds /\ DeleteLease(old)
     \/ Fails("delete") /\ DeleteLeaseFails(old)
  /\ UNCHANGED <<now, expires, covers, created, main, cur, fresh, old, nextTick,
                 ticked, since, cancelled, behind>>

-----------------------------------------------------------------------------
(* Time.  A round of the renewer takes at most CallTime, a buffered tick   *)
(* is taken at once, and the setup takes at most SetupTime.  A tick that   *)
(* finds one buffered is dropped.                                          *)
InTime ==
  /\ renewer \in {"waiting", "none", "returned"} \/ now < since + CallTime
  /\ ~(renewer = "waiting" /\ ticked)
  /\ main # "start" /\ (main = "setup" => now < SetupTime)

Tick ==
  /\ now < MaxTime
  /\ InTime
  /\ now' = now + 1
  /\ LET fires == main \notin {"start", "setup"} /\ now' >= nextTick IN
       /\ ticked' = (ticked \/ fires)
       /\ nextTick' = IF fires THEN nextTick + interval ELSE nextTick
  /\ live' = {l \in live : expires[l] > now'}
  /\ UNCHANGED <<expires, covers, created, main, renewer, cur, fresh, old, since,
                 cancelled, doomed, behind, stranded>>

RunStep ==
  \/ RunAcquires \/ RunAcquireFails \/ RunStartsRenewer \/ RunSetupFails
  \/ RunStops \/ RunJoins \/ RunDeletesCurrent

RenewerStep ==
  \/ RenewerReturns \/ RenewerTicks
  \/ RenewerCreates \/ RenewerCreateFails \/ RenewerAdds \/ RenewerAddFails
  \/ RenewerUndoes \/ RenewerSwaps \/ RenewerDeletesOld

Next == RunStep \/ Cancel \/ RenewerStep \/ Tick

Spec == Init /\ [][Next]_vars

-----------------------------------------------------------------------------
(* Properties.                                                             *)

(* As long as nobody has cancelled the machine and the last renewal has    *)
(* succeeded, some lease that containerd still knows references the        *)
(* snapshot: there is no moment, renewal or not, at which the collector    *)
(* could take the disk of a running VM.  This needs setup and one round to *)
(* take less than half of the lease's lifetime.                            *)
SnapshotCovered ==
  main \in {"setup", "serving", "joining"} /\ ~cancelled /\ ~behind =>
    live \cap covers # {}

(* The renewer never deletes the lease in the holder: until run() deletes  *)
(* it, it is gone only by its own expiry, whatever calls fail.             *)
HolderKept ==
  main \in {"setup", "serving", "joining", "deleting"} =>
    cur \in live \/ expires[cur] <= now

(* The cleanup deletes every lease that run() and the renewer know of: one *)
(* that is left when run() is done is one whose deletion failed, with the  *)
(* cancelled context or in containerd, or one that containerd made in a    *)
(* call that failed; none was overlooked.                                  *)
OnlyStrandedRemain == main = "done" => live \subseteq stranded
=============================================================================
