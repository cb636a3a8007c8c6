------------------------------ MODULE OrphanSweep ------------------------------
(***************************************************************************)
(* The reconciler's second pass (direct/reconciler.go): backend state of a *)
(* uuid that has no registry entry is an orphan.  A uuid found so in two   *)
(* passes gets a synthetic entry (Registry.RegisterOrphan) and that entry  *)
(* departs like any other.  This module adds the pass to DepartureFunnel,  *)
(* whose first pass (dead sessions) is ReconcileDead.                      *)
(*                                                                         *)
(* The reconciler is one goroutine.  It reads the three maps under the     *)
(* backend mutex, then the cache, then judges the uuids one by one; the    *)
(* departure of an orphan runs to its end before the pass goes on.  The    *)
(* minimum age is "seen in an earlier pass": how long a pass waits to      *)
(* start is open, so every longer age is covered.                          *)
(***************************************************************************)
EXTENDS DepartureFunnel

CONSTANT Marker   \* the entity existence marker: the bare-uuid key

ASSUME MarkerAssumption == Marker \in SentKeys

VARIABLES
  pass,        \* "idle", "cache", "judge", "depart", "wait": where the pass is
  derived,     \* uuids found by this pass and not judged yet
  found,       \* uuids found by this pass
  seen,        \* firstSeen: uuids found without an entry by an earlier pass
  sweeping     \* the synthetic entry being departed, or None

sweepVars == <<pass, derived, found, seen, sweeping>>
sweptVars == <<vars, sweepVars>>

SweepInit ==
  /\ Init
  /\ pass = "idle"
  /\ derived = {}
  /\ found = {}
  /\ seen = {}
  /\ sweeping = None

-------------------------------------------------------------------------------
(* derivedUuids: the maps under the mutex, then the cache.                 *)

InMaps(u) == handlers[u] # None \/ bouncers[u] # None \/ tracked[u].present

InCache(u) == cache[u][Marker].kind = "set"

ScanMaps ==
  /\ pass = "idle"
  /\ lock = None
  /\ found' = {u \in Uuids : InMaps(u)}
  /\ pass' = "cache"
  /\ UNCHANGED <<vars, derived, seen, sweeping>>

ScanCache ==
  /\ pass = "cache"
  /\ found' = found \cup {u \in Uuids : InCache(u)}
  /\ derived' = found'
  /\ pass' = "judge"
  /\ UNCHANGED <<vars, seen, sweeping>>

\* A uuid with an entry is nobody's orphan.
JudgeOwned(u) ==
  /\ pass = "judge"
  /\ u \in derived
  /\ registry[u] # None
  /\ seen' = seen \ {u}
  /\ derived' = derived \ {u}
  /\ UNCHANGED <<vars, pass, found, sweeping>>

\* First sight: remember it for a later pass.
JudgeNew(u) ==
  /\ pass = "judge"
  /\ u \in derived \ seen
  /\ registry[u] = None
  /\ seen' = seen \cup {u}
  /\ derived' = derived \ {u}
  /\ UNCHANGED <<vars, pass, found, sweeping>>

\* A synthetic entry of the instance stands for a new one as long as nothing
\* refers to an earlier use of it.
Unused(o) ==
  /\ entry[o] \in {"none", "departed"}
  /\ mixer.waits # o
  /\ \A c \in Conns : admOld[c] # o

\* RegisterOrphan: installs the synthetic entry o, under the registry's own
\* mutex only, if the uuid still has no entry.
RegisterOrphan(u, o) ==
  /\ pass = "judge"
  /\ u \in derived \cap seen
  /\ registry[u] = None
  /\ UuidOf[o] = u
  /\ Unused(o)
  /\ registry' = [registry EXCEPT ![u] = o]
  /\ entry' = [entry EXCEPT ![o] = "live"]
  /\ sweeping' = o
  /\ seen' = seen \ {u}
  /\ derived' = derived \ {u}
  /\ pass' = "depart"
  /\ depPc' = [depPc EXCEPT ![o] = "none"]
  /\ claimH' = [claimH EXCEPT ![o] = None]
  /\ claimB' = [claimB EXCEPT ![o] = None]
  /\ UNCHANGED <<closed, exited, admitVars, sweep, mapVars, clientVars, busVars, mixVars,
                 found>>

\* DepartNode of the synthetic entry; a lost CAS returns at once.
DepartOrphan ==
  /\ pass = "depart"
  /\ IF entry[sweeping] = "live"
     THEN /\ BeginDeparture(sweeping)
          /\ pass' = "wait"
     ELSE /\ UNCHANGED <<entry, depPc, closed>>
          /\ pass' = "judge"
  /\ UNCHANGED <<registry, exited, admitVars, claimH, claimB, sweep, mapVars, clientVars, busVars,
                 mixVars, derived, found, seen, sweeping>>

OrphanDeparted ==
  /\ pass = "wait"
  /\ depPc[sweeping] = "done"
  /\ pass' = "judge"
  /\ UNCHANGED <<vars, derived, found, seen, sweeping>>

\* Seeded bug: firstSeen does not survive the pass.
EndPass_Forgets ==
  /\ pass = "judge"
  /\ derived = {}
  /\ seen' = {}
  /\ found' = {}
  /\ sweeping' = None
  /\ pass' = "idle"
  /\ UNCHANGED <<vars, derived>>

\* What is no longer derived is no longer remembered.
EndPass ==
  /\ pass = "judge"
  /\ derived = {}
  /\ seen' = seen \cap found
  /\ found' = {}
  /\ sweeping' = None
  /\ pass' = "idle"
  /\ UNCHANGED <<vars, derived>>

Reconcile ==
  \/ ScanMaps
  \/ ScanCache
  \/ \E u \in Uuids : JudgeOwned(u) \/ JudgeNew(u)
  \/ \E u \in Uuids, o \in Orphans : RegisterOrphan(u, o)
  \/ DepartOrphan
  \/ OrphanDeparted
  \/ EndPass

SweepNext == (Next /\ UNCHANGED sweepVars) \/ Reconcile

SweepSpec == SweepInit /\ [][SweepNext]_sweptVars

SweepFairness ==
  /\ \A e \in Entries :
       /\ WF_sweptVars(DepartStep(e) /\ UNCHANGED sweepVars)
       /\ SF_sweptVars(Announce(e) /\ UNCHANGED sweepVars)
  /\ \A c \in Conns :
       /\ WF_sweptVars(admPc[c] # "idle" /\ AdmitStep(c) /\ UNCHANGED sweepVars)
       /\ WF_sweptVars(OwnerStops(c) /\ UNCHANGED sweepVars)
       /\ WF_sweptVars(ReconcileDead(c) /\ UNCHANGED sweepVars)
  /\ WF_sweptVars(MixerStep /\ UNCHANGED sweepVars)
  /\ WF_sweptVars(Dispatch /\ UNCHANGED sweepVars)
  /\ WF_sweptVars(Reconcile)

FairSweepSpec == SweepSpec /\ SweepFairness

-------------------------------------------------------------------------------
(* Properties.                                                             *)

Residue(u) == InMaps(u) \/ InCache(u)

LiveSession(u) == \E c \in Conns : UuidOf[c] = u /\ entry[c] = "live"

\* The convergence guarantee of reconciler.go: whatever departures, late
\* dispatches and lost events leave behind for a uuid is gone again once the
\* uuid has no live session.
ResidueSwept == \A u \in Uuids : Residue(u) ~> (~Residue(u) \/ LiveSession(u))

\* scope.go, KeyScope: connection-scoped keys "are tombstoned when their SUBJECT's
\* connection departs - on every removal path".  No key a departed session wrote
\* stays in the cache, whoever sent it and however late it was dispatched.
DepartedLeaveNoKeys ==
  \A c \in Conns, k \in Keys :
    (entry[c] = "departed") ~> cache[UuidOf[c]][k] # [kind |-> "set", by |-> c]
===============================================================================
