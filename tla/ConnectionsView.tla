-------------------------- MODULE ConnectionsView --------------------------
(***************************************************************************)
(* The connections of the overview (Overview.tsx): a list that a reload    *)
(* lengthens on a timer, and an inspector that holds a copy of one entry   *)
(* from which it is blocked and unblocked.                                 *)
(***************************************************************************)
EXTENDS Naturals, SequencesExt

CONSTANTS
  InitialConnections,  \* the list the view starts with
  ListCap,             \* length a reload trims the list to, 20 in the code
  MaxReloads           \* bound on reloads of one mounted view

(* The ids of the first list are apart from those of reloads.              *)
ASSUME ConnectionsAssumption ==
  /\ InitialConnections \in Seq([id : 1..100, status : {"allowed", "blocked"}])
  /\ \A i, j \in DOMAIN InitialConnections :
       InitialConnections[i].id = InitialConnections[j].id => i = j
  /\ ListCap \in Nat \ {0} /\ MaxReloads \in Nat

VARIABLES
  connections,  \* the list, newest first
  inspecting,   \* the copy in the inspector, or NoConnection
  reloading,    \* a reload's timer is running
  reloads       \* reloads so far, naming the connections they add

connectionVars == <<connections, inspecting, reloading, reloads>>

NoConnection == [id |-> 0, status |-> "none"]
Fresh(n) == [id |-> 100 + n, status |-> "allowed"]

WithStatus(list, id, status) ==
  [i \in DOMAIN list |-> IF list[i].id = id THEN [list[i] EXCEPT !.status = status] ELSE list[i]]

(* The inspector covers the page.                                          *)
handleReload ==
  /\ inspecting = NoConnection
  /\ ~ reloading /\ reloads < MaxReloads
  /\ reloading' = TRUE
  /\ reloads' = reloads + 1
  /\ UNCHANGED <<connections, inspecting>>

(* Broken: the timer adds to the list the view was opened with.            *)
StaleReloaded ==
  /\ reloading
  /\ connections' = <<Fresh(reloads)>> \o InitialConnections
  /\ reloading' = FALSE
  /\ UNCHANGED <<inspecting, reloads>>

(* The timer adds to the list as it is by then and trims it.               *)
Reloaded ==
  /\ reloading
  /\ connections' = SubSeq(<<Fresh(reloads)>> \o connections, 1,
                           IF Len(connections) < ListCap THEN Len(connections) + 1 ELSE ListCap)
  /\ reloading' = FALSE
  /\ UNCHANGED <<inspecting, reloads>>

InspectConnection ==
  /\ inspecting = NoConnection
  /\ \E c \in ToSet(connections) : inspecting' = c
  /\ UNCHANGED <<connections, reloading, reloads>>

CloseInspector ==
  /\ inspecting # NoConnection
  /\ inspecting' = NoConnection
  /\ UNCHANGED <<connections, reloading, reloads>>

handleBlockConnection ==
  /\ inspecting.status = "allowed"
  /\ connections' = WithStatus(connections, inspecting.id, "blocked")
  /\ inspecting' = [inspecting EXCEPT !.status = "blocked"]
  /\ UNCHANGED <<reloading, reloads>>

UnblockConnection ==
  /\ inspecting.status = "blocked"
  /\ connections' = WithStatus(connections, inspecting.id, "allowed")
  /\ inspecting' = NoConnection
  /\ UNCHANGED <<reloading, reloads>>

ConnectionsInit ==
  /\ connections = InitialConnections
  /\ inspecting = NoConnection /\ reloading = FALSE /\ reloads = 0

(* The timer of a view that is gone fires without effect.                  *)
ConnectionsUnmount ==
  /\ connections' = InitialConnections
  /\ inspecting' = NoConnection /\ reloading' = FALSE /\ reloads' = 0

ConnectionsNext ==
  \/ handleReload \/ Reloaded \/ InspectConnection \/ CloseInspector
  \/ handleBlockConnection \/ UnblockConnection

---------------------------------------------------------------------------
(* Properties. *)

(* A connection the user blocked stays blocked while it is listed, however *)
(* reloads fall in between, until the user unblocks it in the inspector.   *)
(* A step of the view: leaving the tab forgets all blocks.                 *)
BlockSticks ==
  \A c \in ToSet(connections) :
    c.status = "blocked" =>
      \/ c \in ToSet(connections')
      \/ \A d \in ToSet(connections') : d.id # c.id
      \/ inspecting.id = c.id /\ inspecting' = NoConnection

=============================================================================
