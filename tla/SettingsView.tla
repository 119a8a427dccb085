---------------------------- MODULE SettingsView ----------------------------
(***************************************************************************)
(* The settings (GlobalSettingsView.tsx): a list of resolvers and options  *)
(* by section, kept by the view alone.  Saving stores nothing: it shows a  *)
(* banner that a timer takes down, and leaving the tab forgets every change. *)
(***************************************************************************)
EXTENDS Naturals, SequencesExt

CONSTANTS
  SectionOf,         \* the switches and their sections; numbers are left out
  InitialResolvers,  \* the list the view starts with
  DefaultResolvers,  \* the list Reset Defaults puts in its place
  NewResolver,       \* what the user types
  MaxResolvers,      \* bound on the list
  MaxSaves           \* bound on banner timers running at once

VARIABLES
  activeSection,
  dnsServers,
  addingServer,  \* the form for a resolver is open
  newServerInput,         \* it holds more than blanks; kept when the form is closed
  changed,       \* options that differ from what they were at the start
  savedBanner,
  bannerTimers   \* timers that will take the banner down

settingsVars ==
  <<activeSection, dnsServers, addingServer, newServerInput, changed, savedBanner, bannerTimers>>

Sections == {"dns", "scanner", "logs", "network", "general"}

OpenSection ==
  /\ activeSection' \in Sections
  /\ UNCHANGED <<dnsServers, addingServer, newServerInput, changed, savedBanner, bannerTimers>>

OpenForm ==
  /\ activeSection = "dns" /\ ~ addingServer
  /\ addingServer' = TRUE
  /\ UNCHANGED <<activeSection, dnsServers, newServerInput, changed, savedBanner, bannerTimers>>

TypeResolver ==
  /\ activeSection = "dns" /\ addingServer
  /\ newServerInput' \in BOOLEAN
  /\ UNCHANGED <<activeSection, dnsServers, addingServer, changed, savedBanner, bannerTimers>>

CancelForm ==
  /\ activeSection = "dns" /\ addingServer
  /\ addingServer' = FALSE
  /\ UNCHANGED <<activeSection, dnsServers, newServerInput, changed, savedBanner, bannerTimers>>

handleAddServer ==
  /\ activeSection = "dns" /\ addingServer
  /\ newServerInput
  /\ Len(dnsServers) < MaxResolvers
  /\ dnsServers' = Append(dnsServers, NewResolver)
  /\ newServerInput' = FALSE /\ addingServer' = FALSE
  /\ UNCHANGED <<activeSection, changed, savedBanner, bannerTimers>>

(* By position: a resolver may be listed twice.                            *)
RemoveServer ==
  /\ activeSection = "dns"
  /\ \E i \in DOMAIN dnsServers : dnsServers' = RemoveAt(dnsServers, i)
  /\ UNCHANGED <<activeSection, addingServer, newServerInput, changed, savedBanner, bannerTimers>>

ToggleOption ==
  /\ \E o \in DOMAIN SectionOf :
       /\ SectionOf[o] = activeSection
       /\ changed' = (changed \ {o}) \union ({o} \ changed)
  /\ UNCHANGED <<activeSection, dnsServers, addingServer, newServerInput, savedBanner, bannerTimers>>

(* Every save starts a timer; those of earlier saves are not cleared.      *)
Banner ==
  /\ bannerTimers < MaxSaves
  /\ savedBanner' = TRUE
  /\ bannerTimers' = bannerTimers + 1

handleSave ==
  /\ Banner
  /\ UNCHANGED <<activeSection, dnsServers, addingServer, newServerInput, changed>>

(* The switches keep what the user made of them; the text beside the       *)
(* button speaks of the detection rules too.                               *)
ResetDefaults ==
  /\ activeSection = "general"
  /\ dnsServers' = DefaultResolvers
  /\ Banner
  /\ UNCHANGED <<activeSection, addingServer, newServerInput, changed>>

BannerTimer ==
  /\ bannerTimers > 0
  /\ bannerTimers' = bannerTimers - 1
  /\ savedBanner' = FALSE
  /\ UNCHANGED <<activeSection, dnsServers, addingServer, newServerInput, changed>>

SettingsInit ==
  /\ activeSection = "dns"
  /\ dnsServers = InitialResolvers
  /\ addingServer = FALSE /\ newServerInput = FALSE
  /\ changed = {}
  /\ savedBanner = FALSE /\ bannerTimers = 0

SettingsUnmount ==
  /\ activeSection' = "dns"
  /\ dnsServers' = InitialResolvers
  /\ addingServer' = FALSE /\ newServerInput' = FALSE
  /\ changed' = {}
  /\ savedBanner' = FALSE /\ bannerTimers' = 0

SettingsNext ==
  \/ OpenSection \/ OpenForm \/ TypeResolver \/ CancelForm \/ handleAddServer
  \/ RemoveServer \/ ToggleOption \/ handleSave \/ ResetDefaults \/ BannerTimer

=============================================================================
