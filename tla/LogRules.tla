------------------------------ MODULE LogRules ------------------------------
(***************************************************************************)
(* How a log line gets its severity, twice: parseLine of the browser       *)
(* (src/services/api.ts) and StreamingParser of the API (core/parser.py).  *)
(* A line is reduced to the rule that matches it, which is the same in     *)
(* both, and the parts a severity is inferred from.                        *)
(***************************************************************************)
EXTENDS Integers, Sequences

(* rule: "syslog", "apache_clf", "key_value" or "none"; number: the        *)
(* priority or the status; level, severity, action: the values of these    *)
(* keys in lower case, "" when absent.                                     *)
Line(rule, number, level, severity, action) ==
  [rule |-> rule, number |-> number, level |-> level, severity |-> severity, action |-> action]

Names == {"debug", "info", "notice", "warning", "error", "critical", "alert", "emergency", "unknown"}
Scale == <<"emergency", "alert", "critical", "error", "warning", "notice", "info", "debug">>

(* Broken: the facility is taken for the severity.                         *)
FacilityAsSeverity(pri) ==
  IF pri \in 0..191 /\ pri \div 8 < 8 THEN Scale[(pri \div 8) + 1] ELSE "unknown"

syslogPriorityToSeverity(pri) ==
  IF pri \in 0..191 THEN Scale[(pri % 8) + 1] ELSE "unknown"

statusToSeverity(status) ==
  IF status >= 500 THEN "error" ELSE IF status >= 400 THEN "warning" ELSE "info"

FirstOf(line) ==
  CASE line.level # "" -> line.level
    [] line.severity # "" -> line.severity
    [] OTHER -> line.action

(* Broken: a word is taken for a severity as it stands.                    *)
RawWord(word) == IF word = "" THEN "unknown" ELSE word

wordToSeverity(word) ==
  CASE word \in {"emergency", "emerg"} -> "emergency"
    [] word \in {"alert", "crit", "critical"} -> "critical"
    [] word \in {"error", "err", "failed", "denied", "drop"} -> "error"
    [] word \in {"warning", "warn"} -> "warning"
    [] word \in {"notice", "info", "accept", "allow"} -> "info"
    [] word = "debug" -> "debug"
    [] OTHER -> "unknown"

(* The severity the browser gives a line.                                  *)
parseLine(line) ==
  CASE line.rule = "syslog" -> syslogPriorityToSeverity(line.number)
    [] line.rule = "apache_clf" -> statusToSeverity(line.number)
    [] line.rule = "key_value" -> wordToSeverity(FirstOf(line))
    [] OTHER -> "unknown"

from_syslog_priority(priority) ==
  LET code == IF 0 <= priority /\ priority <= 191 THEN priority % 8 ELSE -1
  IN IF code \in 0..7 THEN Scale[code + 1] ELSE "unknown"

(* The severity the API gives it: only the key level counts, and only by   *)
(* the names of the scale.                                                 *)
feed_line(line) ==
  CASE line.rule = "syslog" -> from_syslog_priority(line.number)
    [] line.rule = "apache_clf" -> statusToSeverity(line.number)
    [] line.rule = "key_value" -> IF line.level \in Names THEN line.level ELSE "unknown"
    [] OTHER -> "unknown"

=============================================================================
