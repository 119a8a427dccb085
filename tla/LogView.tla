------------------------------ MODULE LogView ------------------------------
(***************************************************************************)
(* The log analyzer (LogParser.tsx): a list of events fed by pasted lines, *)
(* the host's logs, test samples and a demo on a timer; answers of the API *)
(* come while the user goes on.  Lists and timers are as they stand after  *)
(* the handler and the effects of its rendering.                           *)
(***************************************************************************)
EXTENDS LogRules, Filter, SequencesExt

CONSTANTS
  Lines,       \* the log lines that occur
  Texts,       \* the texts that are pasted or come as the host's logs, in lines
  Samples,     \* the synthetic lines, in order
  Speeds,      \* the intervals of the demo
  BufferCap,   \* what a tick of the demo trims the list to, 200 in the code
  MaxEvents,   \* bound on the length of the list
  MaxLogCalls  \* bound on requests outstanding

ASSUME LogAssumption ==
  /\ \A line \in Lines : line.number \in Int
  /\ Texts \subseteq Seq(Lines) \ {<<>>}
  /\ Samples \in Seq(Lines) /\ Samples # <<>>
  /\ Speeds # {}
  /\ BufferCap \in Nat \ {0} /\ MaxEvents \in Nat /\ MaxLogCalls \in Nat

VARIABLES
  events,      \* the list, newest first
  selected,    \* the event in the insight pane, None for none
  simulating,  \* the demo is on
  speed,       \* its interval
  timers,      \* intervals that are ticking
  typed,       \* the lines in the text box
  logCalls,    \* requests under way: what was asked
  fell         \* the selected event was trimmed off the list (history)

logVars == <<events, selected, simulating, speed, timers, typed, logCalls, fell>>

None == [line |-> Line("none", 0, "", "", ""), severity |-> "unknown", by |-> "nobody", demo |-> FALSE]

Parsed(line, demo) == [line |-> line, severity |-> parseLine(line), by |-> "client", demo |-> demo]
Served(line) == [line |-> line, severity |-> feed_line(line), by |-> "server", demo |-> FALSE]
EachParsed(lines, demo) == [i \in 1..Len(lines) |-> Parsed(lines[i], demo)]
EachServed(lines) == [i \in 1..Len(lines) |-> Served(lines[i])]

Real(e) == ~ e.demo
Show(evts) == events' = evts

Pick(e) ==
  /\ selected' = e
  /\ fell' = FALSE

(* Broken: the interval is not cleared before the next one is set.         *)
LeakyTimersAfter(on, pace) ==
  IF on = simulating /\ pace = speed THEN timers
  ELSE IF on THEN timers + 1 ELSE 0

(* The effect on [isSimulating, speed]: its cleanup, then its body.        *)
TimersAfter(on, pace) ==
  IF on = simulating /\ pace = speed THEN timers
  ELSE timers - (IF simulating THEN 1 ELSE 0) + (IF on THEN 1 ELSE 0)

Demo(on) ==
  /\ simulating' = on
  /\ timers' = TimersAfter(on, speed)

Room(n) == Len(events) + n <= MaxEvents
Ask(call) == Len(logCalls) < MaxLogCalls /\ logCalls' = Append(logCalls, call)

---------------------------------------------------------------------------
(* A tick trims the list, whatever it holds.                               *)
Tick ==
  /\ timers > 0
  /\ \E line \in ToSet(Samples) :
       LET next == <<Parsed(line, TRUE)>> \o SubSeq(events, 1, IF Len(events) < BufferCap THEN Len(events) ELSE BufferCap - 1)
       IN /\ Show(next)
          /\ fell' = (selected # None /\ selected \notin ToSet(next))
  /\ UNCHANGED <<selected, simulating, speed, timers, typed, logCalls>>

(* Broken: the demo starts with its samples whatever is listed.            *)
ReplacingToggle ==
  /\ Demo(~ simulating)
  /\ IF ~ simulating
     THEN LET initial == EachParsed(Samples, TRUE)
          IN Show(initial) /\ Pick(initial[1])
     ELSE UNCHANGED <<events, selected, fell>>
  /\ UNCHANGED <<speed, typed, logCalls>>

(* The demo starts with the samples only if the list is empty.             *)
toggleSimulation ==
  /\ Demo(~ simulating)
  /\ IF ~ simulating /\ events = <<>>
     THEN LET initial == EachParsed(Samples, TRUE)
          IN Room(Len(initial)) /\ Show(initial) /\ Pick(initial[1])
     ELSE UNCHANGED <<events, selected, fell>>
  /\ UNCHANGED <<speed, typed, logCalls>>

(* "Stop Demo" of the banner.                                              *)
StopDemo ==
  /\ simulating
  /\ Demo(FALSE)
  /\ UNCHANGED <<events, selected, speed, typed, logCalls, fell>>

SetSpeed(pace) ==
  /\ simulating
  /\ speed' = pace
  /\ timers' = TimersAfter(simulating, pace)
  /\ UNCHANGED <<events, selected, simulating, typed, logCalls, fell>>

loadLiveSystemLogs ==
  /\ Demo(FALSE)
  /\ Ask([kind |-> "load"])
  /\ UNCHANGED <<events, selected, speed, typed, fell>>

(* The host's logs replace the list as it is by now; no logs, an error     *)
(* status or a failed request change nothing.                              *)
Loaded(i) ==
  /\ logCalls[i].kind = "load"
  /\ logCalls' = RemoveAt(logCalls, i)
  /\ \/ \E lines \in Texts : Show(EachServed(lines)) /\ Pick(Served(lines[1]))
     \/ UNCHANGED <<events, selected, fell>>
  /\ UNCHANGED <<simulating, speed, timers, typed>>

Type ==
  /\ typed' \in Texts
  /\ UNCHANGED <<events, selected, simulating, speed, timers, logCalls, fell>>

(* The text stays until the answer is there: the button can be pressed     *)
(* again.                                                                  *)
handleIngest ==
  /\ typed # <<>>
  /\ Ask([kind |-> "ingest", lines |-> typed])
  /\ UNCHANGED <<events, selected, simulating, speed, timers, typed, fell>>

(* Broken: no fallback when the API does not answer.                       *)
IngestedBy(by, lines) == IF by = "server" THEN EachServed(lines) ELSE <<>>

(* Without an answer of the API, or with an empty one, the browser parses. *)
ParsedBy(by, lines) ==
  IF by = "server" THEN EachServed(lines) ELSE EachParsed(lines, FALSE)

(* Whatever is in the text box by now is wiped.                            *)
Ingested(i) ==
  /\ logCalls[i].kind = "ingest"
  /\ logCalls' = RemoveAt(logCalls, i)
  /\ \E by \in {"server", "client"} :
       LET new == ParsedBy(by, logCalls[i].lines)
       IN /\ Room(Len(new))
          /\ Show(new \o events)
          /\ IF new # <<>> THEN Pick(new[1]) ELSE UNCHANGED <<selected, fell>>
  /\ typed' = <<>>
  /\ UNCHANGED <<simulating, speed, timers>>

injectSample ==
  /\ Room(1)
  /\ \E line \in Lines :
       LET e == Parsed(line, TRUE) IN Show(<<e>> \o events) /\ Pick(e)
  /\ UNCHANGED <<simulating, speed, timers, typed, logCalls>>

handleClear ==
  /\ events # <<>>
  /\ Demo(FALSE)
  /\ Show(<<>>) /\ Pick(None)
  /\ UNCHANGED <<speed, typed, logCalls>>

(* Broken: the insight pane keeps the demo event.                          *)
KeptSelection(real) == selected

Reselected(real) ==
  IF selected.demo
  THEN IF real = <<>> THEN None ELSE real[1]
  ELSE selected

clearSimulatedOnly ==
  LET real == Chosen(events, {e \in ToSet(events) : Real(e)})
  IN /\ real # events
     /\ Demo(FALSE)
     /\ Show(real)
     /\ selected' = Reselected(real)
     /\ fell' = (fell /\ selected' = selected)
     /\ UNCHANGED <<speed, typed, logCalls>>

SelectEvent ==
  /\ \E e \in ToSet(events) : Pick(e)
  /\ UNCHANGED <<events, simulating, speed, timers, typed, logCalls>>

(* Mounting and unmounting.  Answers to a view that is gone change nothing *)
(* that is read again; its timer is cleared.                               *)
LogInit ==
  /\ events = <<>> /\ selected = None
  /\ simulating = FALSE /\ speed = CHOOSE s \in Speeds : TRUE
  /\ timers = 0 /\ typed = <<>> /\ logCalls = <<>> /\ fell = FALSE

LogUnmount ==
  /\ events' = <<>> /\ selected' = None
  /\ simulating' = FALSE /\ speed' = CHOOSE s \in Speeds : TRUE
  /\ timers' = TimersAfter(FALSE, speed)
  /\ typed' = <<>> /\ logCalls' = <<>> /\ fell' = FALSE

LogNext ==
  \/ Tick \/ toggleSimulation \/ StopDemo \/ loadLiveSystemLogs
  \/ Type \/ handleIngest \/ injectSample \/ handleClear
  \/ clearSimulatedOnly \/ SelectEvent
  \/ \E pace \in Speeds : SetSpeed(pace)
  \/ \E i \in DOMAIN logCalls : Loaded(i) \/ Ingested(i)

---------------------------------------------------------------------------
(* Properties. *)

LogEvents == [line : Lines, severity : Names, by : {"client", "server"}, demo : BOOLEAN]

LogTypeOK ==
  /\ events \in Seq(LogEvents)
  /\ selected \in LogEvents \union {None}
  /\ simulating \in BOOLEAN /\ speed \in Speeds
  /\ timers \in Nat
  /\ typed \in Seq(Lines)
  /\ Len(logCalls) <= MaxLogCalls

(* The insight pane explains an event of the list, unless the demo pushed  *)
(* that one off the end of it.                                             *)
SelectedIsListed == selected \in ToSet(events) \union {None} \/ fell

(* Switching the demo on and off, its speed, clearing, loading and leaving *)
(* the tab never leave a timer behind nor stop the demo unasked.           *)
OneTimer == timers = IF simulating THEN 1 ELSE 0

(* Real events are only lost with the user's knowledge or to the buffer:   *)
(* one leaves the list by Clear, by an answer to Load, or pushed out by a  *)
(* demo that found the list full; no other button and no late answer to an *)
(* ingestion costs one.  A step of the view.                               *)
RealLogsSurvive ==
  \A e \in ToSet(events) :
    Real(e) =>
      \/ e \in ToSet(events')
      \/ events' = <<>>
      \/ \E i \in DOMAIN logCalls : logCalls[i].kind = "load" /\ logCalls' = RemoveAt(logCalls, i)
      \/ timers > 0 /\ Len(events) >= BufferCap

(* An ingestion ends with its lines in the list as real events, whoever    *)
(* parsed them, whatever the list and the text box hold by then.  A step   *)
(* of the view.                                                            *)
IngestLands ==
  \A i \in DOMAIN logCalls :
    logCalls[i].kind = "ingest" /\ logCalls' = RemoveAt(logCalls, i) =>
      \A k \in DOMAIN logCalls[i].lines :
        \E e \in ToSet(events') : e.line = logCalls[i].lines[k] /\ Real(e)

(* A line gets the same severity from both parsers if it is no key-value   *)
(* line, so that a fallback in between does not show in the list.          *)
PlainLinesAgree ==
  \A e, f \in ToSet(events) :
    e.line = f.line /\ e.line.rule # "key_value" => e.severity = f.severity

=============================================================================
