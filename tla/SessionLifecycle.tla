--------------------------- MODULE SessionLifecycle ---------------------------
(***************************************************************************)
(* What the session registry and the departure funnel promise together,    *)
(* without locks, channels or goroutines: sessions of one identity are     *)
(* strictly serialized.  A session joins only when its identity is         *)
(* unoccupied, it leaves exactly once, and after that it is history.       *)
(*                                                                         *)
(* DepartureFunnel implements this module: there an identity is occupied   *)
(* from sessions.Registry.Register until the departure has released every  *)
(* backend resource of the session.                                        *)
(***************************************************************************)
CONSTANTS Uuids,    \* node identities (ticket jti)
          Conns,    \* session instances; one entry, one generation each
          UuidOf,   \* [Conns -> Uuids]
          None

VARIABLES occupant, \* [Uuids -> Conns \cup {None}]
          phase     \* [Conns -> {"before", "present", "gone"}]

lifecycleVars == <<occupant, phase>>

LifecycleInit ==
  /\ occupant = [u \in Uuids |-> None]
  /\ phase = [c \in Conns |-> "before"]

\* A new session takes an identity nobody occupies.
Join(c) ==
  /\ phase[c] = "before"
  /\ occupant[UuidOf[c]] = None
  /\ occupant' = [occupant EXCEPT ![UuidOf[c]] = c]
  /\ phase' = [phase EXCEPT ![c] = "present"]

\* The occupant leaves; its identity is free again and it never returns.
Leave(c) ==
  /\ phase[c] = "present"
  /\ occupant[UuidOf[c]] = c
  /\ occupant' = [occupant EXCEPT ![UuidOf[c]] = None]
  /\ phase' = [phase EXCEPT ![c] = "gone"]

LifecycleNext == \E c \in Conns : Join(c) \/ Leave(c)

LifecycleSpec == LifecycleInit /\ [][LifecycleNext]_lifecycleVars
===============================================================================
