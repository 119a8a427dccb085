------------------------------ MODULE AppsView ------------------------------
(***************************************************************************)
(* The list of network applications (AllAppsView.tsx): samples until a     *)
(* load brings live ones, and toasts that their timers take down.          *)
(***************************************************************************)
EXTENDS Naturals

CONSTANT MaxToasts  \* bound on toast timers running at once

VARIABLES
  appsLive,     \* live applications are listed, and said to be
  appsLoading,  \* a load is under way, the refresh button disabled
  card,         \* "none", or the modal that is open: "app" or "rules"
  toast,        \* a toast is shown
  toastTimers   \* timers that will take the toast down

appsVars == <<appsLive, appsLoading, card, toast, toastTimers>>

(* Broken: a toast that is up already gets no timer of its own, and the    *)
(* one that runs was for the toast before it.                              *)
TimerlessToast ==
  /\ toast' = TRUE
  /\ UNCHANGED toastTimers

(* Every toast starts a timer; the timers of earlier ones are not cleared. *)
showToast ==
  /\ toastTimers < MaxToasts
  /\ toast' = TRUE
  /\ toastTimers' = toastTimers + 1

loadLiveApps ==
  /\ ~ appsLoading
  /\ appsLoading' = TRUE
  /\ UNCHANGED <<appsLive, card, toast, toastTimers>>

(* Whether the answer lists applications; it does not without an answer.   *)
getNetworkApps == BOOLEAN

(* Live applications replace the list and are announced.                   *)
AppsAnswered ==
  /\ appsLoading
  /\ appsLoading' = FALSE
  /\ \E found \in getNetworkApps :
       IF found THEN appsLive' = TRUE /\ showToast
       ELSE UNCHANGED <<appsLive, toast, toastTimers>>
  /\ UNCHANGED card

OpenCard ==
  /\ card = "none"
  /\ card' \in {"app", "rules"}
  /\ UNCHANGED <<appsLive, appsLoading, toast, toastTimers>>

CloseCard ==
  /\ card # "none"
  /\ card' = "none"
  /\ UNCHANGED <<appsLive, appsLoading, toast, toastTimers>>

(* Saving stores nothing: it closes the modal and says it did.             *)
SaveCard ==
  /\ card # "none"
  /\ card' = "none"
  /\ showToast
  /\ UNCHANGED <<appsLive, appsLoading>>

(* A timer takes down whatever toast is up by now.                         *)
ToastTimer ==
  /\ toastTimers > 0
  /\ toastTimers' = toastTimers - 1
  /\ toast' = FALSE
  /\ UNCHANGED <<appsLive, appsLoading, card>>

AppsInit ==
  /\ appsLive = FALSE /\ appsLoading = FALSE /\ card = "none"
  /\ toast = FALSE /\ toastTimers = 0

AppsMount ==
  /\ appsLoading' = TRUE
  /\ UNCHANGED <<appsLive, card, toast, toastTimers>>

AppsUnmount ==
  /\ appsLive' = FALSE /\ appsLoading' = FALSE /\ card' = "none"
  /\ toast' = FALSE /\ toastTimers' = 0

AppsNext ==
  \/ loadLiveApps \/ AppsAnswered \/ OpenCard \/ CloseCard
  \/ SaveCard \/ ToastTimer

=============================================================================
