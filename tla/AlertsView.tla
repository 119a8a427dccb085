----------------------------- MODULE AlertsView -----------------------------
(***************************************************************************)
(* Alerts: the view (AlertsView.tsx), the three requests it makes          *)
(* (src/services/api.ts) and the sets behind them at the API               *)
(* (api/routes/alerts.py).  A handler keeps the list it was rendered with  *)
(* across its request, and writes it back when the answer comes.           *)
(***************************************************************************)
EXTENDS Naturals, SequencesExt, Filter

CONSTANTS
  Exposed,       \* ids of the exposed ports an inspection of the host can find
  Preset,        \* the address the API starts with as blocked
  SampleAlerts,  \* the list shown until live alerts arrive
  MaxAlertCalls  \* bound on requests outstanding

VARIABLES
  alerts,      \* the list on screen, a set
  chosen,      \* the alert in the inspection modal, or Nothing
  loading,     \* the refresh button is disabled
  alertCalls,  \* requests under way, with the list each handler holds
  acked,       \* _ACKNOWLEDGED_IDS, those of exposed ports
  blocked,     \* _BLOCKED_IPS
  undone       \* what handlers took for done and is not (history), see Asked

alertVars == <<alerts, chosen, loading, alertCalls, acked, blocked, undone>>

Loopback == "127.0.0.1"
Nothing == "nothing"

Alert(id, ip, status, from) == [id |-> id, ip |-> ip, status |-> status, from |-> from]
With(as, id, status) == {IF a.id = id THEN [a EXCEPT !.status = status] ELSE a : a \in as}

SampleIds == {a.id : a \in SampleAlerts}
Addresses == {Preset} \union {a.ip : a \in SampleAlerts}

(* The samples carry ids of their own, all different; those of the API are *)
(* made of a port and a process, or of an address.                         *)
ASSUME AlertsAssumption ==
  /\ \A a \in SampleAlerts :
       /\ a = Alert(a.id, a.ip, a.status, "sample")
       /\ a.status \in {"active", "acknowledged", "blocked"}
  /\ \A a, b \in SampleAlerts : a.id = b.id => a = b
  /\ SampleIds \intersect (Exposed \union Addresses) = {}
  /\ Exposed \intersect Addresses = {}

---------------------------------------------------------------------------
(* The API. *)

ExposedAlert(id) ==
  Alert(id, Loopback, IF id \in acked THEN "acknowledged" ELSE "active", "live")

BlockedAlert(ip) == Alert(ip, ip, "blocked", "live")

(* get_alerts.  Each call inspects the host anew: processes come and go,   *)
(* and an inspection that raises leaves what it found before.              *)
Listed(found) ==
  {ExposedAlert(id) : id \in found} \union {BlockedAlert(ip) : ip \in blocked}

(* To acknowledge all is to record what is listed at that moment; of the   *)
(* ids recorded only those of exposed ports are ever looked up, and kept   *)
(* here.                                                                   *)
AckedBy(call, found) ==
  IF call.kind = "acknowledge" THEN acked \union found ELSE acked

BlockedBy(call) == IF call.kind = "block" THEN blocked \union {call.ip} ELSE blocked

---------------------------------------------------------------------------
(* Requests.  A handler of a view that is gone changes nothing any more,   *)
(* but its request reaches the API all the same.                           *)

Call(kind, id, ip, held) ==
  [kind |-> kind, id |-> id, ip |-> ip, held |-> held, stage |-> "sent",
   answer |-> {}, here |-> TRUE]

Send(call) ==
  /\ Len(alertCalls) < MaxAlertCalls
  /\ alertCalls' = Append(alertCalls, call)

(* What the handler that sent the call will take for done.                 *)
Asked(call) ==
  CASE call.kind = "acknowledge" -> {a.id : a \in call.held} \intersect Exposed
    [] call.kind = "block" -> {call.ip}
    [] OTHER -> {}

(* What has been done of all that may be asked.                            *)
HasDone == acked \union blocked

ApiHandles(i) ==
  \E found \in SUBSET Exposed :
    LET call == alertCalls[i]
    IN /\ call.stage = "sent"
       /\ acked' = AckedBy(call, found)
       /\ blocked' = BlockedBy(call)
       /\ undone' = (undone \union Asked(call)) \ HasDone'
       /\ alertCalls' =
            IF ~ call.here THEN RemoveAt(alertCalls, i)
            ELSE [alertCalls EXCEPT ![i].stage = "handled",
                    ![i].answer = IF call.kind = "load" THEN Listed(found) ELSE {}]
       /\ UNCHANGED <<alerts, chosen, loading>>

(* A restart of the API forgets both sets.                                 *)
ApiRestarts ==
  /\ acked' = {} /\ blocked' = {Preset}
  /\ undone' = (undone \union HasDone) \ HasDone'
  /\ UNCHANGED <<alerts, chosen, loading, alertCalls>>

(* The handler goes on: with what the API answered, or with nothing when   *)
(* the request or its answer is lost, which no handler looks at.           *)
Answered(i, kind, answer) ==
  LET call == alertCalls[i]
  IN /\ call.here /\ call.kind = kind
     /\ \/ call.stage = "handled" /\ answer \in {call.answer, {}} /\ UNCHANGED undone
        \/ call.stage = "sent" /\ answer = {}
           /\ undone' = undone \union (Asked(call) \ HasDone)
     /\ alertCalls' = RemoveAt(alertCalls, i)
     /\ UNCHANGED <<chosen, acked, blocked>>

---------------------------------------------------------------------------
(* The view. *)

loadAlerts ==
  /\ ~ loading
  /\ loading' = TRUE
  /\ Send(Call("load", Nothing, Nothing, {}))
  /\ UNCHANGED <<alerts, chosen, acked, blocked, undone>>

(* Broken: the flag is reset only when there is something to show.         *)
StuckLoadAnswered(i) ==
  \E answer \in {{}, alertCalls[i].answer} :
    /\ Answered(i, "load", answer)
    /\ IF answer # {}
       THEN alerts' = answer /\ loading' = FALSE
       ELSE UNCHANGED <<alerts, loading>>

(* An empty list, like none, leaves what is shown.                         *)
LoadAnswered(i) ==
  \E answer \in {{}, alertCalls[i].answer} :
    /\ Answered(i, "load", answer)
    /\ alerts' = IF answer # {} THEN answer ELSE alerts
    /\ loading' = FALSE

(* Broken: the alerts are shown as acknowledged before the API was asked.  *)
OptimisticAcknowledgeAll ==
  /\ Send(Call("acknowledge", Nothing, Nothing, alerts))
  /\ alerts' = {[a EXCEPT !.status = "acknowledged"] : a \in alerts}
  /\ UNCHANGED <<chosen, loading, acked, blocked, undone>>

AcknowledgeAll ==
  /\ \E a \in alerts : a.status = "active"
  /\ Send(Call("acknowledge", Nothing, Nothing, alerts))
  /\ UNCHANGED <<alerts, chosen, loading, acked, blocked, undone>>

AcknowledgeAnswered(i) ==
  /\ Answered(i, "acknowledge", {})
  /\ alerts' = {[a EXCEPT !.status = "acknowledged"] : a \in alertCalls[i].held}
  /\ UNCHANGED loading

(* Broken: the alert is shown as blocked before the API was asked.         *)
OptimisticBlock(id) ==
  /\ alerts' = With(alerts, id, "blocked")
  /\ IF \E a \in alerts : a.id = id /\ a.ip # Loopback
     THEN \E a \in alerts : a.id = id /\ Send(Call("block", id, a.ip, alerts))
     ELSE UNCHANGED alertCalls

(* The host itself is only shown as blocked; an alert that is not on the   *)
(* list any more is not blocked at all.                                    *)
handleBlockIp(id) ==
  \/ \E a \in alerts : a.id = id /\ a.ip # Loopback
                        /\ Send(Call("block", id, a.ip, alerts)) /\ UNCHANGED alerts
  \/ /\ \A a \in alerts : a.id = id => a.ip = Loopback
     /\ alerts' = With(alerts, id, "blocked")
     /\ UNCHANGED alertCalls

BlockListed ==
  /\ \E a \in alerts : a.status # "blocked" /\ handleBlockIp(a.id)
  /\ UNCHANGED <<chosen, loading, acked, blocked, undone>>

(* The modal offers to block whatever the status of its alert is by now.   *)
BlockChosen ==
  /\ chosen # Nothing
  /\ handleBlockIp(chosen)
  /\ chosen' = Nothing
  /\ UNCHANGED <<loading, acked, blocked, undone>>

BlockAnswered(i) ==
  /\ Answered(i, "block", {})
  /\ alerts' = With(alertCalls[i].held, alertCalls[i].id, "blocked")
  /\ UNCHANGED loading

InspectAlert ==
  /\ \E a \in alerts : chosen' = a.id
  /\ UNCHANGED <<alerts, loading, alertCalls, acked, blocked, undone>>

CloseInspection ==
  /\ chosen # Nothing
  /\ chosen' = Nothing
  /\ UNCHANGED <<alerts, loading, alertCalls, acked, blocked, undone>>

handleDismiss ==
  /\ \E a \in alerts : alerts' = alerts \ {a}
  /\ UNCHANGED <<chosen, loading, alertCalls, acked, blocked, undone>>

(* Mounting loads; unmounting leaves requests behind that the API still    *)
(* has to handle.                                                          *)
AlertsInit ==
  /\ alerts = SampleAlerts /\ chosen = Nothing
  /\ loading = FALSE /\ alertCalls = <<>>
  /\ acked = {} /\ blocked = {Preset} /\ undone = {}

AlertsMount ==
  /\ loading' = TRUE
  /\ Send(Call("load", Nothing, Nothing, {}))
  /\ UNCHANGED <<alerts, chosen, acked, blocked, undone>>

AlertsUnmount ==
  /\ alerts' = SampleAlerts /\ chosen' = Nothing
  /\ loading' = FALSE /\ undone' = {}
  /\ LET left == Chosen(alertCalls, {c \in ToSet(alertCalls) : c.stage = "sent" /\ c.kind # "load"})
     IN alertCalls' = [i \in DOMAIN left |-> [left[i] EXCEPT !.here = FALSE, !.held = {}]]
  /\ UNCHANGED <<acked, blocked>>

AlertsAnswer(i) == LoadAnswered(i) \/ AcknowledgeAnswered(i) \/ BlockAnswered(i)

(* The modal covers the page.                                              *)
AlertsUser ==
  \/ /\ chosen = Nothing
     /\ loadAlerts \/ AcknowledgeAll \/ BlockListed \/ InspectAlert \/ handleDismiss
  \/ BlockChosen \/ CloseInspection

AlertsNetwork ==
  \E i \in DOMAIN alertCalls : ApiHandles(i) \/ AlertsAnswer(i)

(* What becomes of the refresh under way.                                  *)
LoadProgress ==
  \E i \in DOMAIN alertCalls :
    /\ alertCalls[i].kind = "load"
    /\ ApiHandles(i) \/ LoadAnswered(i)

---------------------------------------------------------------------------
(* Properties. *)

(* What the view says was done was done, although answers overtake each    *)
(* other, lists are written back late and other tabs come in between: an   *)
(* alert shown as blocked has its address in the API's set (the host       *)
(* itself, which is never sent, and a sample that comes as blocked apart), *)
(* a live one shown as acknowledged is recorded there.  The exceptions are *)
(* those the code makes and no others, each for the alerts it concerns: a  *)
(* request for this very address was lost, one that held this very alert   *)
(* was lost, the inspection did not find it when the API acknowledged, or  *)
(* a restart of the API has forgotten it.                                  *)
ShownIsDone ==
  \A a \in alerts \ SampleAlerts :
    /\ a.status = "blocked" /\ a.ip # Loopback => a.ip \in blocked \union undone
    /\ a.status = "acknowledged" /\ a.id \in Exposed => a.id \in acked \union undone

=============================================================================
