----------------------------- MODULE MCConsole -----------------------------
(* The instance of Console that TLC checks: a syslog line, one with a      *)
(* priority off the scale, a key-value line that the two parsers read      *)
(* differently, one exposed port and one sample alert from an address;     *)
(* alerts of the host itself come by loads.                                *)
EXTENDS Console

Syslog == Line("syslog", 134, "", "", "")
OffScale == Line("syslog", 192, "", "", "")
KeyValue == Line("key_value", 0, "", "", "drop")

MCLines == {Syslog, OffScale, KeyValue}
(* A line alone, and a text of two.                                        *)
MCTexts == {<<Syslog>>, <<OffScale, KeyValue>>}
MCSamples == <<Syslog>>
MCSampleAlerts ==
  {Alert("sample", "198.51.100.1", "active", "sample")}
(* The views share no state, so that visiting them in pairs is enough.     *)
MCJourneys == {{"overview", t} : t \in Tabs}

MCSectionOf == [useDnsCache |-> "dns", ruleSshEnabled |-> "logs"]
MCInitial == <<"cloudflare", "quad9">>
MCDefault == <<"quad9">>

MCConnections == <<[id |-> 1, status |-> "allowed"], [id |-> 2, status |-> "blocked"]>>

=============================================================================
