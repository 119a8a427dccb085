--------------------------- MODULE ConsoleProofs ---------------------------
(***************************************************************************)
(* Theorems about the tabs of Console, for all lines, lists, alerts,       *)
(* journeys and bounds.                                                    *)
(***************************************************************************)
EXTENDS Console, FilterProofs

(* The demo is on or off, and so are timers and loops.                     *)
LoopInv == simulating \in BOOLEAN /\ OneLoopEach

LEMMA LogStepKeepsTimer ==
  ASSUME simulating \in BOOLEAN, OneTimer, LogNext
  PROVE  simulating' \in BOOLEAN /\ OneTimer'
<1> USE DEF OneTimer, TimersAfter, Demo
<1>1. ASSUME NEW on \in BOOLEAN, Demo(on)
      PROVE  simulating' \in BOOLEAN /\ OneTimer'
  BY <1>1
<1>2. CASE UNCHANGED <<simulating, timers>>
  BY <1>2
<1>3. CASE toggleSimulation \/ StopDemo \/ loadLiveSystemLogs \/ handleClear \/ clearSimulatedOnly
  <2>1. \E on \in BOOLEAN : Demo(on)
    BY <1>3 DEF toggleSimulation, StopDemo, loadLiveSystemLogs, handleClear, clearSimulatedOnly
  <2> QED
    BY <1>1, <2>1
<1>4. CASE Tick \/ Type \/ handleIngest \/ injectSample \/ SelectEvent
  BY <1>2, <1>4 DEF Tick, Type, handleIngest, injectSample, SelectEvent
<1>5. ASSUME NEW pace \in Speeds, SetSpeed(pace)
      PROVE  simulating' \in BOOLEAN /\ OneTimer'
  BY <1>5 DEF SetSpeed
<1>6. ASSUME NEW i \in DOMAIN logCalls, Loaded(i) \/ Ingested(i)
      PROVE  simulating' \in BOOLEAN /\ OneTimer'
  BY <1>2, <1>6 DEF Loaded, Ingested
<1> QED
  BY <1>3, <1>4, <1>5, <1>6 DEF LogNext

LEMMA RadarStepKeepsLoop ==
  ASSUME OneBeam(TRUE), RadarNext
  PROVE  OneBeam(TRUE)'
  BY DEF OneBeam, RadarNext, loadLiveConnections, SweepAnswered, SelectHost, ReportArrives,
         Restarted

LEMMA NavigateKeepsLoops ==
  ASSUME LoopInv, NEW t \in Tabs, Navigate(t)
  PROVE  LoopInv'
<1> USE DEF LoopInv, OneLoopEach
<1>1. tab' = t /\ t # tab
  BY DEF Navigate
<1>2. simulating' \in BOOLEAN /\ OneTimer'
  <2>1. CASE tab = "logs"
    <3>1. simulating' = FALSE /\ timers' = TimersAfter(FALSE, speed)
      BY <2>1 DEF Navigate, Leave, LogUnmount
    <3>2. timers' = 0
      <4>1. CASE simulating
        <5>1. timers = 1 /\ timers' = timers - 1 + 0
          BY <3>1, <4>1 DEF OneTimer, TimersAfter
        <5> QED
          BY <5>1, SMT
      <4>2. CASE ~ simulating
        BY <3>1, <4>2 DEF OneTimer, TimersAfter
      <4> QED
        BY <4>1, <4>2
    <3> QED
      BY <3>1, <3>2, Zenon DEF OneTimer
  <2>2. CASE tab # "logs"
    BY <2>2 DEF Navigate, Leave, logVars, OneTimer
  <2> QED
    BY <2>1, <2>2
<1>3. loops' = IF t = "radar" THEN 1 ELSE 0
  <2>1. CASE tab = "radar"
    <3>1. RadarUnmount
      BY <2>1 DEF Navigate
    <3> QED
      BY <1>1, <2>1, <3>1 DEF RadarUnmount, OneBeam
  <2>2. CASE tab # "radar" /\ t = "radar"
    <3>1. RadarMount
      BY <2>2 DEF Navigate
    <3> QED
      BY <2>2, <3>1 DEF RadarMount, OneBeam, Restarted
  <2>3. CASE tab # "radar" /\ t # "radar"
    <3>1. UNCHANGED radarVars
      BY <2>3 DEF Navigate
    <3> QED
      BY <2>3, <3>1 DEF radarVars, mountedVars, OneBeam
  <2> QED
    BY <2>1, <2>2, <2>3
<1> QED
  BY <1>1, <1>2, <1>3 DEF OneBeam

LEMMA StepKeepsLoops == LoopInv /\ [Next]_consoleVars => LoopInv'
<1> SUFFICES ASSUME LoopInv, [Next]_consoleVars PROVE LoopInv'
  OBVIOUS
<1> USE DEF LoopInv, OneLoopEach
<1>1. ASSUME UNCHANGED <<tab, logVars, radarVars>>
      PROVE  LoopInv'
  BY <1>1 DEF logVars, radarVars, mountedVars, OneTimer, OneBeam
<1>2. CASE InLogs /\ LogNext
  BY <1>2, LogStepKeepsTimer DEF InLogs, Stay, radarVars, mountedVars, OneBeam
<1>3. CASE InRadar /\ RadarNext
  BY <1>3, RadarStepKeepsLoop DEF InRadar, Stay, logVars, OneTimer, OneBeam
<1>4. ASSUME NEW t \in Tabs, Navigate(t)
      PROVE  LoopInv'
  BY <1>4, NavigateKeepsLoops
<1>5. CASE \/ InAlerts /\ (AlertsUser \/ AlertsNetwork)
           \/ InOverview /\ ConnectionsNext
           \/ InApps /\ AppsNext
           \/ InSettings /\ SettingsNext
           \/ LeftBehind
           \/ Restart
           \/ UNCHANGED consoleVars
  BY <1>1, <1>5 DEF InAlerts, InOverview, InApps, InSettings, LeftBehind, Restart, Stay, consoleVars
<1> QED
  BY <1>2, <1>3, <1>4, <1>5 DEF Next

---------------------------------------------------------------------------
(* Theorems. *)

(* Safety: one demo timer while the demo runs and one drawing loop while   *)
(* the radar is open, none otherwise (LogParser.tsx, ThreatRadar.tsx).     *)
THEOREM LoopsAreSingle == Spec => []OneLoopEach
<1>1. Init => LoopInv
  BY DEF Init, LogInit, RadarInit, LoopInv, OneLoopEach, OneTimer, OneBeam
<1>2. LoopInv => OneLoopEach
  BY DEF LoopInv
<1> QED
  BY <1>1, <1>2, StepKeepsLoops, PTL DEF Spec

(* The two parsers agree on every priority, those out of range included.   *)
LEMMA PrioritiesAgree ==
  ASSUME NEW priority \in Int
  PROVE  syslogPriorityToSeverity(priority) = from_syslog_priority(priority)
<1>1. CASE priority \in 0..191
  <2>1. priority % 8 \in 0..7
    BY <1>1
  <2> QED
    BY <1>1, <2>1 DEF syslogPriorityToSeverity, from_syslog_priority
<1>2. CASE priority \notin 0..191
  BY <1>2 DEF syslogPriorityToSeverity, from_syslog_priority
<1> QED
  BY <1>1, <1>2

(* The browser gives a line that is no key-value line the severity the API *)
(* gives it (src/services/api.ts, parseLine; core/parser.py, feed_line).   *)
THEOREM ParsersAgree ==
  ASSUME NEW line, line.number \in Int, line.rule # "key_value"
  PROVE  parseLine(line) = feed_line(line)
  BY PrioritiesAgree DEF parseLine, feed_line

---------------------------------------------------------------------------
(* Lists. *)

LEMMA RemovedEntry ==
  ASSUME NEW S, NEW list \in Seq(S), NEW i \in 1..Len(list)
  PROVE  /\ RemoveAt(list, i) \in Seq(S)
         /\ Len(list) \in Nat /\ Len(RemoveAt(list, i)) = Len(list) - 1
         /\ \A k \in 1..(Len(list) - 1) :
              RemoveAt(list, i)[k] = IF k < i THEN list[k] ELSE list[k + 1]
<1> DEFINE n == Len(list)
           left == SubSeq(list, 1, i - 1)
           right == SubSeq(list, i + 1, n)
<1>1. n \in Nat /\ i \in Nat /\ 1 <= i /\ i <= n /\ \A k \in 1..n : list[k] \in S
  BY LenProperties, ElementOfSeq
<1>2. /\ left \in Seq(S) /\ Len(left) = i - 1
      /\ \A k \in 1..(i - 1) : left[k] = list[k]
  <2>1. 1 \in Int /\ i - 1 \in Int /\ \A k \in 1..(i - 1) : list[k] \in S
    BY <1>1
  <2>2. /\ left \in Seq(S)
        /\ Len(left) = IF 1 <= i - 1 THEN (i - 1) - 1 + 1 ELSE 0
        /\ \A k \in 1..((i - 1) - 1 + 1) : left[k] = list[1 + k - 1]
    BY <2>1, SubSeqProperties
  <2>3. (i - 1) - 1 + 1 = i - 1 /\ \A k \in 1..(i - 1) : 1 + k - 1 = k
    BY <1>1
  <2> QED
    BY <1>1, <2>2, <2>3
<1>3. /\ right \in Seq(S) /\ Len(right) = n - i
      /\ \A k \in 1..(n - i) : right[k] = list[i + k]
  <2>1. n \in Int /\ i + 1 \in Int /\ \A k \in (i + 1)..n : list[k] \in S
    BY <1>1
  <2>2. /\ right \in Seq(S)
        /\ Len(right) = IF i + 1 <= n THEN n - (i + 1) + 1 ELSE 0
        /\ \A k \in 1..(n - (i + 1) + 1) : right[k] = list[(i + 1) + k - 1]
    BY <2>1, SubSeqProperties
  <2>3. n - (i + 1) + 1 = n - i /\ \A k \in 1..(n - i) : (i + 1) + k - 1 = i + k
    BY <1>1
  <2> HIDE DEF n, right
  <2>4. Len(right) = n - i
    BY <1>1, <2>2
  <2>5. \A k \in 1..(n - i) : right[k] = list[i + k]
    BY <2>2, <2>3
  <2> QED
    BY <2>2, <2>4, <2>5
<1> HIDE DEF n, left, right
<1>4. /\ left \o right \in Seq(S) /\ Len(left \o right) = Len(left) + Len(right)
      /\ \A k \in 1..(Len(left) + Len(right)) :
           (left \o right)[k] = IF k <= Len(left) THEN left[k] ELSE right[k - Len(left)]
  BY <1>2, <1>3, ConcatProperties
<1>5. Len(left) + Len(right) = n - 1
  BY <1>1, <1>2, <1>3
<1>6. ASSUME NEW k \in 1..(n - 1)
      PROVE  (left \o right)[k] = IF k < i THEN list[k] ELSE list[k + 1]
  <2>1. CASE k < i
    <3>1. k \in 1..(i - 1) /\ k <= Len(left) /\ k \in 1..(Len(left) + Len(right))
      BY <1>1, <1>2, <1>5, <2>1
    <3> QED
      BY <1>2, <1>4, <2>1, <3>1
  <2>2. CASE ~ (k < i)
    <3>1. /\ ~ (k <= Len(left)) /\ k \in 1..(Len(left) + Len(right))
          /\ k - Len(left) \in 1..(n - i) /\ i + (k - Len(left)) = k + 1
      BY <1>1, <1>2, <1>5, <2>2
    <3> QED
      BY <1>3, <1>4, <2>2, <3>1
  <2> QED
    BY <2>1, <2>2
<1>7. RemoveAt(list, i) = left \o right
  BY DEF RemoveAt, left, right, n
<1> QED
  BY <1>1, <1>4, <1>5, <1>6, <1>7 DEF n

(* Which entry was removed shows in the list, up to equal ones.            *)
LEMMA RemovedLater ==
  ASSUME NEW S, NEW list \in Seq(S), NEW i \in 1..Len(list), NEW j \in 1..Len(list),
         i <= j, RemoveAt(list, i) = RemoveAt(list, j)
  PROVE  list[i] = list[j]
<1> DEFINE T == {k \in i..j : list[k] # list[i]}
<1> SUFFICES ASSUME list[i] # list[j] PROVE FALSE
  OBVIOUS
<1>1. Len(list) \in Nat /\ i \in Nat /\ j \in Nat /\ 1 <= i /\ j <= Len(list)
  BY LenProperties
<1>2. j \in T /\ T \subseteq Nat
  BY <1>1
<1> HIDE DEF T
<1>3. PICK k \in T : \A m \in T : k <= m
  BY <1>2, LeastOf
<1>4. k \in i..j /\ list[k] # list[i] /\ k \in Nat
  BY <1>2 DEF T
<1>5. k # i /\ k - 1 \in i..j /\ k - 1 \in 1..(Len(list) - 1) /\ (k - 1) + 1 = k
  BY <1>1, <1>4
<1>6. list[k - 1] = list[i]
  <2>1. k - 1 \notin T
    BY <1>3, <1>4, <1>5
  <2> QED
    BY <1>5, <2>1 DEF T
<1>7. RemoveAt(list, i)[k - 1] = list[k]
  <2>1. ~ (k - 1 < i)
    BY <1>1, <1>5
  <2> QED
    BY <1>5, <2>1, RemovedEntry
<1>8. RemoveAt(list, j)[k - 1] = list[k - 1]
  <2>1. k - 1 < j
    BY <1>1, <1>4
  <2> QED
    BY <1>5, <2>1, RemovedEntry
<1> QED
  BY <1>4, <1>6, <1>7, <1>8

LEMMA RemovedSame ==
  ASSUME NEW S, NEW list \in Seq(S), NEW i \in 1..Len(list), NEW j \in 1..Len(list),
         RemoveAt(list, i) = RemoveAt(list, j)
  PROVE  list[i] = list[j]
<1>1. i <= j \/ j <= i
  OBVIOUS
<1> QED
  BY <1>1, RemovedLater

(* What the entries of lists made from other lists are.                    *)
LEMMA ListEntries ==
  ASSUME NEW S, NEW list \in Seq(S)
  PROVE  ToSet(list) = {list[i] : i \in 1..Len(list)} /\ ToSet(list) \subseteq S
<1>1. DOMAIN list = 1..Len(list) /\ \A i \in 1..Len(list) : list[i] \in S
  BY LenProperties, ElementOfSeq
<1> QED
  BY <1>1 DEF ToSet

LEMMA JoinedEntries ==
  ASSUME NEW S, NEW list \in Seq(S), NEW tail \in Seq(S)
  PROVE  /\ list \o tail \in Seq(S)
         /\ ToSet(list \o tail) = ToSet(list) \union ToSet(tail)
<1>1. /\ list \o tail \in Seq(S) /\ Len(list \o tail) = Len(list) + Len(tail)
      /\ \A i \in 1..(Len(list) + Len(tail)) :
           (list \o tail)[i] = IF i <= Len(list) THEN list[i] ELSE tail[i - Len(list)]
      /\ Len(list) \in Nat /\ Len(tail) \in Nat
  BY ConcatProperties, LenProperties
<1>2. /\ ToSet(list) = {list[i] : i \in 1..Len(list)}
      /\ ToSet(tail) = {tail[i] : i \in 1..Len(tail)}
      /\ ToSet(list \o tail) = {(list \o tail)[i] : i \in 1..Len(list \o tail)}
  BY <1>1, ListEntries
<1>3. ASSUME NEW i \in 1..Len(list)
      PROVE  list[i] \in ToSet(list \o tail)
  <2>1. i \in 1..(Len(list) + Len(tail)) /\ i <= Len(list)
    BY <1>1
  <2> QED
    BY <1>1, <1>2, <2>1
<1>4. ASSUME NEW i \in 1..Len(tail)
      PROVE  tail[i] \in ToSet(list \o tail)
  <2>1. /\ i + Len(list) \in 1..(Len(list) + Len(tail))
        /\ ~ (i + Len(list) <= Len(list)) /\ (i + Len(list)) - Len(list) = i
    BY <1>1
  <2> QED
    BY <1>1, <1>2, <2>1
<1>5. ASSUME NEW i \in 1..(Len(list) + Len(tail))
      PROVE  (list \o tail)[i] \in ToSet(list) \union ToSet(tail)
  <2>1. CASE i <= Len(list)
    <3>1. i \in 1..Len(list)
      BY <1>1, <2>1
    <3> QED
      BY <1>1, <1>2, <2>1, <3>1
  <2>2. CASE ~ (i <= Len(list))
    <3>1. i - Len(list) \in 1..Len(tail)
      BY <1>1, <2>2
    <3> QED
      BY <1>1, <1>2, <2>2, <3>1
  <2> QED
    BY <2>1, <2>2
<1> QED
  BY <1>1, <1>2, <1>3, <1>4, <1>5

---------------------------------------------------------------------------
(* The log analyzer. *)

(* An event says what the parser it came from makes of its line.           *)
Judged ==
  {e \in LogEvents :
     e.severity = IF e.by = "server" THEN feed_line(e.line) ELSE parseLine(e.line)}

LogRequests ==
  [kind : {"load"}] \union [kind : {"ingest"}, lines : Seq(Lines)]

LogInv ==
  /\ events \in Seq(Judged)
  /\ selected \in Judged \union {None}
  /\ simulating \in BOOLEAN /\ speed \in Speeds
  /\ typed \in Seq(Lines)
  /\ logCalls \in Seq(LogRequests) /\ Len(logCalls) <= MaxLogCalls
  /\ fell \in BOOLEAN
  /\ SelectedIsListed

LEMMA SeveritiesAreNames ==
  ASSUME NEW line
  PROVE  parseLine(line) \in Names /\ feed_line(line) \in Names
<1>1. \A k \in 1..8 : Scale[k] \in Names
  BY DEF Scale, Names
<1>2. ASSUME NEW pri
      PROVE  syslogPriorityToSeverity(pri) \in Names
  <2>1. CASE pri \in 0..191
    <3>1. (pri % 8) + 1 \in 1..8
      BY <2>1
    <3> QED
      BY <1>1, <2>1, <3>1 DEF syslogPriorityToSeverity
  <2>2. CASE pri \notin 0..191
    BY <2>2 DEF syslogPriorityToSeverity, Names
  <2> QED
    BY <2>1, <2>2
<1>3. ASSUME NEW pri
      PROVE  from_syslog_priority(pri) \in Names
  <2> DEFINE code == IF 0 <= pri /\ pri <= 191 THEN pri % 8 ELSE -1
  <2> HIDE DEF code
  <2>1. from_syslog_priority(pri) = IF code \in 0..7 THEN Scale[code + 1] ELSE "unknown"
    BY DEF from_syslog_priority, code
  <2>2. CASE code \in 0..7
    <3>1. code + 1 \in 1..8
      BY <2>2
    <3> QED
      BY <1>1, <2>1, <2>2, <3>1
  <2>3. CASE code \notin 0..7
    BY <2>1, <2>3 DEF Names
  <2> QED
    BY <2>2, <2>3
<1>4. \A status : statusToSeverity(status) \in Names
  BY DEF statusToSeverity, Names
<1>5. \A word : wordToSeverity(word) \in Names
  BY DEF wordToSeverity, Names
<1>6. "unknown" \in Names
  BY DEF Names
<1> QED
  BY <1>2, <1>3, <1>4, <1>5, <1>6 DEF parseLine, feed_line

LEMMA EventsAreJudged ==
  ASSUME NEW line \in Lines, NEW demo \in BOOLEAN
  PROVE  /\ Parsed(line, demo) \in Judged /\ Served(line) \in Judged
         /\ Parsed(line, demo).line = line /\ Parsed(line, demo).demo = demo
         /\ Served(line).line = line /\ Served(line).demo = FALSE
  BY SeveritiesAreNames DEF Parsed, Served, Judged, LogEvents

LEMMA ListsAreJudged ==
  ASSUME NEW lines \in Seq(Lines), NEW demo \in BOOLEAN
  PROVE  /\ EachParsed(lines, demo) \in Seq(Judged) /\ EachServed(lines) \in Seq(Judged)
         /\ Len(EachParsed(lines, demo)) = Len(lines) /\ Len(EachServed(lines)) = Len(lines)
         /\ \A i \in 1..Len(lines) :
              /\ EachParsed(lines, demo)[i] = Parsed(lines[i], demo)
              /\ EachServed(lines)[i] = Served(lines[i])
<1>1. Len(lines) \in Nat /\ \A i \in 1..Len(lines) : lines[i] \in Lines
  BY LenProperties, ElementOfSeq
<1>2. /\ EachParsed(lines, demo) \in [1..Len(lines) -> Judged]
      /\ EachServed(lines) \in [1..Len(lines) -> Judged]
  BY <1>1, EventsAreJudged DEF EachParsed, EachServed
<1> QED
  BY <1>1, <1>2 DEF EachParsed, EachServed

LEMMA FirstIsListed ==
  ASSUME NEW S, NEW list \in Seq(S), list # <<>>
  PROVE  list[1] \in ToSet(list) /\ list[1] \in S
<1>1. Len(list) \in Nat /\ Len(list) # 0
  BY LenProperties, EmptySeq
<1>2. 1 \in 1..Len(list)
  BY <1>1
<1> QED
  BY <1>2, ListEntries

LEMMA SingleEntry ==
  ASSUME NEW S, NEW e \in S
  PROVE  <<e>> \in Seq(S) /\ ToSet(<<e>>) = {e} /\ <<e>> # <<>> /\ <<e>>[1] = e
  BY DEF ToSet

LEMMA NoEntries == ToSet(<<>>) = {}
  BY DEF ToSet

(* The event in the insight pane is picked from the list as it is now.     *)
LEMMA PickedIsListed ==
  ASSUME NEW e \in Judged, Pick(e), events' \in Seq(Judged), e \in ToSet(events')
  PROVE  selected' \in Judged /\ fell' \in BOOLEAN /\ SelectedIsListed'
  BY DEF Pick, SelectedIsListed

(* What the tick of the demo leaves of the list.                           *)
Trimmed ==
  SubSeq(events, 1, IF Len(events) < BufferCap THEN Len(events) ELSE BufferCap - 1)

LEMMA TrimmedEntries ==
  ASSUME events \in Seq(Judged)
  PROVE  Trimmed \in Seq(Judged) /\ (Len(events) < BufferCap => Trimmed = events)
<1> DEFINE n == IF Len(events) < BufferCap THEN Len(events) ELSE BufferCap - 1
<1>1. /\ Len(events) \in Nat /\ n \in Nat /\ n <= Len(events)
      /\ \A i \in 1..Len(events) : events[i] \in Judged
  BY LenProperties, ElementOfSeq, LogAssumption
<1>2. 1 \in Int /\ n \in Int /\ \A i \in 1..n : events[i] \in Judged
  BY <1>1
<1>3. /\ SubSeq(events, 1, n) \in Seq(Judged)
      /\ Len(SubSeq(events, 1, n)) = IF 1 <= n THEN n - 1 + 1 ELSE 0
      /\ \A i \in 1..(n - 1 + 1) : SubSeq(events, 1, n)[i] = events[1 + i - 1]
  BY <1>2, SubSeqProperties
<1>4. Trimmed = SubSeq(events, 1, n)
  BY DEF Trimmed
<1>5. ASSUME Len(events) < BufferCap PROVE Trimmed = events
  <2>1. n = Len(events)
    BY <1>5
  <2> HIDE DEF n
  <2>2. Len(Trimmed) = Len(events)
    BY <1>1, <1>3, <1>4, <2>1
  <2>3. ASSUME NEW i \in 1..Len(Trimmed) PROVE Trimmed[i] = events[i]
    <3>1. i \in 1..(n - 1 + 1) /\ 1 + i - 1 = i
      BY <1>1, <2>1, <2>2
    <3> QED
      BY <1>3, <1>4, <3>1
  <2> QED
    BY <1>3, <1>4, <2>2, <2>3, SeqEqual
<1> QED
  BY <1>3, <1>4, <1>5

LEMMA TickKeepsLog ==
  ASSUME LogInv, Tick
  PROVE  LogInv'
<1>1. PICK line \in ToSet(Samples) :
        /\ events' = <<Parsed(line, TRUE)>> \o Trimmed
        /\ fell' = (selected # None /\ selected \notin ToSet(events'))
  BY DEF Tick, Show, Trimmed
<1>2. line \in Lines
  BY LogAssumption, ListEntries
<1>3. <<Parsed(line, TRUE)>> \in Seq(Judged)
  BY <1>2, EventsAreJudged, SingleEntry
<1>4. events' \in Seq(Judged)
  BY <1>1, <1>3, TrimmedEntries, JoinedEntries DEF LogInv
<1>5. UNCHANGED <<selected, simulating, speed, typed, logCalls>>
  BY DEF Tick
<1>6. SelectedIsListed' /\ fell' \in BOOLEAN
  BY <1>1, <1>5 DEF SelectedIsListed
<1> QED
  BY <1>4, <1>5, <1>6 DEF LogInv

(* A filter that keeps the real events.                                    *)
RealOnes == Chosen(events, {e \in ToSet(events) : Real(e)})

LEMMA RealOnesEntries ==
  ASSUME events \in Seq(Judged)
  PROVE  /\ RealOnes \in Seq(Judged)
         /\ ToSet(RealOnes) = {e \in ToSet(events) : Real(e)}
<1> DEFINE keep == {e \in ToSet(events) : Real(e)}
<1> HIDE DEF keep
<1>1. /\ Chosen(events, keep) \in Seq(Judged)
      /\ \A i \in 1..Len(Chosen(events, keep)) : Chosen(events, keep)[i] \in keep
      /\ \A j \in 1..Len(events) :
           events[j] \in keep =>
             \E i \in 1..Len(Chosen(events, keep)) : Chosen(events, keep)[i] = events[j]
  BY ChosenEntries
<1>2. /\ ToSet(events) = {events[j] : j \in 1..Len(events)}
      /\ ToSet(RealOnes) = {RealOnes[i] : i \in 1..Len(RealOnes)}
  <2>1. RealOnes \in Seq(Judged)
    BY <1>1 DEF RealOnes, keep
  <2> QED
    BY <2>1, ListEntries
<1>3. RealOnes = Chosen(events, keep)
  BY DEF RealOnes, keep
<1>4. ToSet(RealOnes) \subseteq keep
  BY <1>1, <1>2, <1>3
<1>5. keep \subseteq ToSet(RealOnes)
  <2> SUFFICES ASSUME NEW e \in keep PROVE e \in ToSet(RealOnes)
    OBVIOUS
  <2>1. PICK j \in 1..Len(events) : e = events[j]
    BY <1>2 DEF keep
  <2> QED
    BY <1>1, <1>2, <1>3, <2>1
<1> QED
  BY <1>1, <1>3, <1>4, <1>5 DEF keep

LEMMA RealClearKeepsLog ==
  ASSUME LogInv, clearSimulatedOnly
  PROVE  LogInv'
<1>1. /\ events' = RealOnes /\ selected' = Reselected(RealOnes)
      /\ fell' = (fell /\ selected' = selected)
      /\ simulating' = FALSE /\ UNCHANGED <<speed, typed, logCalls>>
  BY DEF clearSimulatedOnly, RealOnes, Show, Demo
<1>2. RealOnes \in Seq(Judged) /\ ToSet(RealOnes) = {e \in ToSet(events) : Real(e)}
  BY RealOnesEntries DEF LogInv
<1>3. CASE selected.demo
  <2>1. CASE RealOnes = <<>>
    BY <1>1, <1>2, <1>3, <2>1 DEF LogInv, Reselected, SelectedIsListed
  <2>2. CASE RealOnes # <<>>
    <3>1. selected' = RealOnes[1] /\ RealOnes[1] \in ToSet(RealOnes) /\ RealOnes[1] \in Judged
      BY <1>1, <1>2, <1>3, <2>2, FirstIsListed DEF Reselected
    <3> QED
      BY <1>1, <1>2, <3>1 DEF LogInv, SelectedIsListed
  <2> QED
    BY <2>1, <2>2
<1>4. CASE ~ selected.demo
  <2>1. selected' = selected /\ fell' = fell
    BY <1>1, <1>4 DEF Reselected, LogInv
  <2>2. SelectedIsListed'
    BY <1>1, <1>2, <1>4, <2>1 DEF LogInv, SelectedIsListed, Real
  <2> QED
    BY <1>1, <1>2, <2>1, <2>2 DEF LogInv
<1> QED
  BY <1>3, <1>4

LEMMA AskingKeepsLog ==
  ASSUME LogInv, NEW call \in LogRequests, Ask(call)
  PROVE  logCalls' \in Seq(LogRequests) /\ Len(logCalls') <= MaxLogCalls
         /\ Len(logCalls') = Len(logCalls) + 1 /\ Len(logCalls) \in Nat
  BY AppendProperties, LenProperties, LogAssumption DEF Ask, LogInv

LEMMA AnswerKeepsCalls ==
  ASSUME LogInv, NEW i \in DOMAIN logCalls, logCalls' = RemoveAt(logCalls, i)
  PROVE  /\ i \in 1..Len(logCalls) /\ logCalls[i] \in LogRequests
         /\ logCalls' \in Seq(LogRequests) /\ Len(logCalls') <= MaxLogCalls
<1>1. logCalls \in Seq(LogRequests) /\ i \in 1..Len(logCalls) /\ Len(logCalls) <= MaxLogCalls
  BY LenProperties DEF LogInv
<1>2. /\ logCalls' \in Seq(LogRequests) /\ Len(logCalls) \in Nat
      /\ Len(logCalls') = Len(logCalls) - 1
  BY <1>1, RemovedEntry
<1>3. Len(logCalls') <= MaxLogCalls
  BY <1>1, <1>2, LogAssumption
<1> QED
  BY <1>1, <1>2, <1>3, ElementOfSeq

(* The events an ingestion adds.                                           *)
LEMMA IngestedEvents ==
  ASSUME NEW lines \in Seq(Lines), NEW by
  PROVE  /\ ParsedBy(by, lines) \in Seq(Judged)
         /\ \A k \in DOMAIN lines :
              \E e \in ToSet(ParsedBy(by, lines)) : e.line = lines[k] /\ Real(e)
<1>1. /\ EachParsed(lines, FALSE) \in Seq(Judged) /\ EachServed(lines) \in Seq(Judged)
      /\ Len(EachParsed(lines, FALSE)) = Len(lines) /\ Len(EachServed(lines)) = Len(lines)
      /\ \A i \in 1..Len(lines) :
           /\ EachParsed(lines, FALSE)[i] = Parsed(lines[i], FALSE)
           /\ EachServed(lines)[i] = Served(lines[i])
  BY ListsAreJudged
<1>2. DOMAIN lines = 1..Len(lines) /\ \A k \in 1..Len(lines) : lines[k] \in Lines
  BY LenProperties, ElementOfSeq
<1>3. /\ ToSet(EachParsed(lines, FALSE)) = {EachParsed(lines, FALSE)[i] : i \in 1..Len(lines)}
      /\ ToSet(EachServed(lines)) = {EachServed(lines)[i] : i \in 1..Len(lines)}
  BY <1>1, ListEntries
<1>4. ASSUME NEW k \in 1..Len(lines)
      PROVE  \E e \in ToSet(ParsedBy(by, lines)) : e.line = lines[k] /\ Real(e)
  <2>1. /\ Parsed(lines[k], FALSE).line = lines[k] /\ Real(Parsed(lines[k], FALSE))
        /\ Served(lines[k]).line = lines[k] /\ Real(Served(lines[k]))
    BY <1>2, EventsAreJudged DEF Real
  <2>2. /\ Parsed(lines[k], FALSE) \in ToSet(EachParsed(lines, FALSE))
        /\ Served(lines[k]) \in ToSet(EachServed(lines))
    BY <1>1, <1>3
  <2> QED
    BY <2>1, <2>2 DEF ParsedBy
<1> QED
  BY <1>1, <1>2, <1>4 DEF ParsedBy

LEMMA LoadedKeepsLog ==
  ASSUME LogInv, NEW i \in DOMAIN logCalls, Loaded(i)
  PROVE  LogInv'
<1>1. logCalls' \in Seq(LogRequests) /\ Len(logCalls') <= MaxLogCalls
  BY AnswerKeepsCalls DEF Loaded
<1>2. UNCHANGED <<simulating, speed, timers, typed>>
  BY DEF Loaded
<1>3. CASE UNCHANGED <<events, selected, fell>>
  BY <1>1, <1>2, <1>3 DEF LogInv, SelectedIsListed
<1>4. ASSUME NEW lines \in Texts, Show(EachServed(lines)), Pick(Served(lines[1]))
      PROVE  LogInv'
  <2>1. lines \in Seq(Lines) /\ Len(lines) # 0
    BY LogAssumption, EmptySeq
  <2>2. 1 \in 1..Len(lines) /\ lines[1] \in Lines
    BY <2>1, LenProperties, ElementOfSeq
  <2>3. /\ EachServed(lines) \in Seq(Judged) /\ Len(EachServed(lines)) = Len(lines)
        /\ EachServed(lines)[1] = Served(lines[1])
    BY <2>1, <2>2, ListsAreJudged
  <2>4. /\ Served(lines[1]) \in Judged /\ events' \in Seq(Judged)
        /\ Served(lines[1]) \in ToSet(events')
    BY <1>4, <2>2, <2>3, EventsAreJudged, ListEntries DEF Show
  <2> QED
    BY <1>1, <1>2, <1>4, <2>4, PickedIsListed DEF LogInv
<1> QED
  BY <1>3, <1>4 DEF Loaded

LEMMA IngestedKeepsLog ==
  ASSUME LogInv, NEW i \in DOMAIN logCalls, Ingested(i)
  PROVE  LogInv'
<1>1. /\ logCalls' \in Seq(LogRequests) /\ Len(logCalls') <= MaxLogCalls
      /\ logCalls[i] \in LogRequests /\ logCalls[i].kind = "ingest"
      /\ typed' = <<>> /\ UNCHANGED <<simulating, speed>>
  BY AnswerKeepsCalls DEF Ingested
<1>2. logCalls[i].lines \in Seq(Lines)
  BY <1>1 DEF LogRequests
<1>3. PICK by \in {"server", "client"} :
        LET new == ParsedBy(by, logCalls[i].lines)
        IN /\ events' = new \o events
           /\ IF new # <<>> THEN Pick(new[1]) ELSE UNCHANGED <<selected, fell>>
  BY DEF Ingested, Show
<1> DEFINE new == ParsedBy(by, logCalls[i].lines)
<1>4. new \in Seq(Judged)
  BY <1>2, IngestedEvents
<1> HIDE DEF new
<1>5. /\ events' = new \o events
      /\ IF new # <<>> THEN Pick(new[1]) ELSE UNCHANGED <<selected, fell>>
  BY <1>3 DEF new
<1>6. events' \in Seq(Judged) /\ ToSet(events') = ToSet(new) \union ToSet(events)
  BY <1>4, <1>5, JoinedEntries DEF LogInv
<1>7. typed' \in Seq(Lines)
  BY <1>1, EmptySeq
<1>8. CASE new # <<>>
  <2>1. new[1] \in Judged /\ new[1] \in ToSet(events')
    BY <1>4, <1>6, <1>8, FirstIsListed
  <2>2. selected' \in Judged /\ fell' \in BOOLEAN /\ SelectedIsListed'
    BY <1>5, <1>6, <1>8, <2>1, PickedIsListed
  <2> QED
    BY <1>1, <1>6, <1>7, <2>2 DEF LogInv
<1>9. CASE new = <<>>
  <2>1. SelectedIsListed'
    BY <1>5, <1>6, <1>9 DEF LogInv, SelectedIsListed
  <2> QED
    BY <1>1, <1>5, <1>6, <1>7, <1>9, <2>1 DEF LogInv
<1> QED
  BY <1>8, <1>9

LEMMA LogStepKeepsLog ==
  ASSUME LogInv, LogNext
  PROVE  LogInv'
<1>1. ASSUME UNCHANGED <<events, selected, fell, typed, logCalls>>,
             simulating' \in BOOLEAN, speed' \in Speeds
      PROVE  LogInv'
  BY <1>1 DEF LogInv, SelectedIsListed
<1>2. CASE Tick
  BY <1>2, TickKeepsLog
<1>3. CASE toggleSimulation
  <2>1. simulating' \in BOOLEAN /\ UNCHANGED <<speed, typed, logCalls>>
    BY <1>3 DEF toggleSimulation, Demo, LogInv
  <2>2. CASE ~ simulating /\ events = <<>>
    <3> DEFINE initial == EachParsed(Samples, TRUE)
    <3>1. events' = initial /\ Pick(initial[1])
      BY <1>3, <2>2 DEF toggleSimulation, Show
    <3>2. initial \in Seq(Judged) /\ initial # <<>>
      <4>1. initial \in Seq(Judged) /\ Len(initial) = Len(Samples)
        BY LogAssumption, ListsAreJudged
      <4>2. Len(Samples) # 0
        BY LogAssumption, EmptySeq
      <4> QED
        BY <4>1, <4>2
    <3> HIDE DEF initial
    <3>3. initial[1] \in Judged /\ initial[1] \in ToSet(events')
      BY <3>1, <3>2, FirstIsListed
    <3> QED
      BY <2>1, <3>1, <3>2, <3>3, PickedIsListed DEF LogInv
  <2>3. CASE ~ (~ simulating /\ events = <<>>)
    BY <1>1, <1>3, <2>1, <2>3 DEF toggleSimulation, LogInv
  <2> QED
    BY <2>2, <2>3
<1>4. CASE StopDemo
  BY <1>1, <1>4 DEF StopDemo, Demo, LogInv
<1>5. ASSUME NEW pace \in Speeds, SetSpeed(pace)
      PROVE  LogInv'
  BY <1>1, <1>5 DEF SetSpeed, LogInv
<1>6. CASE loadLiveSystemLogs
  <2>1. [kind |-> "load"] \in LogRequests
    BY DEF LogRequests
  <2>2. logCalls' \in Seq(LogRequests) /\ Len(logCalls') <= MaxLogCalls
    BY <1>6, <2>1, AskingKeepsLog DEF loadLiveSystemLogs
  <2> QED
    BY <1>6, <2>2 DEF loadLiveSystemLogs, Demo, LogInv, SelectedIsListed
<1>7. CASE Type
  BY <1>7, LogAssumption DEF Type, LogInv, SelectedIsListed
<1>8. CASE handleIngest
  <2>1. [kind |-> "ingest", lines |-> typed] \in LogRequests
    BY DEF LogRequests, LogInv
  <2>2. logCalls' \in Seq(LogRequests) /\ Len(logCalls') <= MaxLogCalls
    BY <1>8, <2>1, AskingKeepsLog DEF handleIngest
  <2> QED
    BY <1>8, <2>2 DEF handleIngest, LogInv, SelectedIsListed
<1>9. CASE injectSample
  <2>1. PICK line \in Lines : Show(<<Parsed(line, TRUE)>> \o events) /\ Pick(Parsed(line, TRUE))
    BY <1>9 DEF injectSample
  <2>2. Parsed(line, TRUE) \in Judged
    BY EventsAreJudged
  <2>3. /\ <<Parsed(line, TRUE)>> \in Seq(Judged)
        /\ ToSet(<<Parsed(line, TRUE)>>) = {Parsed(line, TRUE)}
    BY <2>2, SingleEntry
  <2>4. events' \in Seq(Judged) /\ Parsed(line, TRUE) \in ToSet(events')
    <3> DEFINE new == <<Parsed(line, TRUE)>>
    <3>1. new \in Seq(Judged) /\ Parsed(line, TRUE) \in ToSet(new) /\ events' = new \o events
      BY <2>1, <2>3 DEF Show
    <3>2. events \in Seq(Judged)
      BY DEF LogInv
    <3> HIDE DEF new
    <3>3. new \o events \in Seq(Judged) /\ ToSet(new \o events) = ToSet(new) \union ToSet(events)
      BY <3>1, <3>2, JoinedEntries
    <3> QED
      BY <3>1, <3>3
  <2> QED
    BY <1>9, <2>1, <2>2, <2>4, PickedIsListed DEF injectSample, LogInv
<1>10. CASE handleClear
  <2>1. /\ events' = <<>> /\ selected' = None /\ fell' = FALSE /\ simulating' = FALSE
        /\ UNCHANGED <<speed, typed, logCalls>>
    BY <1>10 DEF handleClear, Show, Pick, Demo
  <2>2. SelectedIsListed'
    BY <2>1 DEF SelectedIsListed
  <2> QED
    BY <2>1, <2>2, EmptySeq DEF LogInv
<1>11. CASE clearSimulatedOnly
  BY <1>11, RealClearKeepsLog
<1>12. CASE SelectEvent
  <2>1. PICK e \in ToSet(events) : Pick(e)
    BY <1>12 DEF SelectEvent
  <2>2. e \in Judged /\ UNCHANGED <<events, simulating, speed, typed, logCalls>>
    BY <1>12, ListEntries DEF SelectEvent, LogInv
  <2> QED
    BY <2>1, <2>2, PickedIsListed DEF LogInv
<1>13. ASSUME NEW i \in DOMAIN logCalls, Loaded(i) \/ Ingested(i)
       PROVE  LogInv'
  BY <1>13, LoadedKeepsLog, IngestedKeepsLog
<1> QED
  BY <1>2, <1>3, <1>4, <1>5, <1>6, <1>7, <1>8, <1>9, <1>10, <1>11, <1>12, <1>13 DEF LogNext

(* What a fresh view holds.                                                *)
LEMMA ClearedLog ==
  /\ <<>> \in Seq(Judged) /\ <<>> \in Seq(LogRequests) /\ <<>> \in Seq(Lines)
  /\ Len(<<>>) <= MaxLogCalls
  /\ (CHOOSE s \in Speeds : TRUE) \in Speeds
<1>1. (CHOOSE s \in Speeds : TRUE) \in Speeds
  BY LogAssumption
<1>2. Len(<<>>) = 0 /\ MaxLogCalls \in Nat
  BY EmptySeq, LogAssumption
<1> QED
  BY <1>1, <1>2, EmptySeq

LEMMA StepKeepsLog == LogInv /\ [Next]_consoleVars => LogInv'
<1> SUFFICES ASSUME LogInv, [Next]_consoleVars PROVE LogInv'
  OBVIOUS
<1>1. ASSUME UNCHANGED logVars PROVE LogInv'
  BY <1>1 DEF logVars, LogInv, SelectedIsListed
<1>2. CASE InLogs /\ LogNext
  BY <1>2, LogStepKeepsLog
<1>3. ASSUME NEW t \in Tabs, Navigate(t)
      PROVE  LogInv'
  <2>1. CASE tab = "logs"
    <3>1. /\ events' = <<>> /\ selected' = None /\ simulating' = FALSE
          /\ speed' = CHOOSE s \in Speeds : TRUE
          /\ typed' = <<>> /\ logCalls' = <<>> /\ fell' = FALSE
      BY <1>3, <2>1 DEF Navigate, Leave, LogUnmount
    <3> QED
      BY <3>1, ClearedLog DEF LogInv, SelectedIsListed
  <2>2. CASE tab # "logs"
    BY <1>1, <1>3, <2>2 DEF Navigate, Leave
  <2> QED
    BY <2>1, <2>2
<1>4. CASE \/ InAlerts /\ (AlertsUser \/ AlertsNetwork)
           \/ InOverview /\ ConnectionsNext
           \/ InApps /\ AppsNext
           \/ InRadar /\ RadarNext
           \/ InSettings /\ SettingsNext
           \/ LeftBehind
           \/ Restart
           \/ UNCHANGED consoleVars
  BY <1>1, <1>4 DEF InAlerts, InOverview, InApps, InRadar, InSettings, LeftBehind, Restart, consoleVars
<1> QED
  BY <1>2, <1>3, <1>4 DEF Next

LEMMA InitHasLog == Init => LogInv
<1> SUFFICES ASSUME Init PROVE LogInv
  OBVIOUS
<1>1. /\ events = <<>> /\ selected = None /\ simulating = FALSE
      /\ speed = CHOOSE s \in Speeds : TRUE
      /\ typed = <<>> /\ logCalls = <<>> /\ fell = FALSE
  BY DEF Init, LogInit
<1> QED
  BY <1>1, ClearedLog DEF LogInv, SelectedIsListed

LEMMA LogInvariance == Spec => []LogInv
  BY InitHasLog, StepKeepsLog, PTL DEF Spec

(* Type correctness of the log analyzer: every event has a severity of the *)
(* scale, and the requests under way stay within their bound               *)
(* (LogParser.tsx).                                                        *)
THEOREM LogTypeCorrect == Spec => []LogTypeOK
<1>1. LogInv /\ OneLoopEach => LogTypeOK
  <2> SUFFICES ASSUME LogInv, OneTimer PROVE LogTypeOK
    BY DEF OneLoopEach
  <2>1. Judged \subseteq LogEvents
    BY DEF Judged
  <2>2. events \in Seq(LogEvents)
    <3>1. events \in Seq(Judged)
      BY DEF LogInv
    <3>2. Len(events) \in Nat /\ \A i \in 1..Len(events) : events[i] \in LogEvents
      BY <2>1, <3>1, LenProperties, ElementOfSeq
    <3>3. events = [i \in 1..Len(events) |-> events[i]]
      BY <3>1, LenProperties
    <3> QED
      BY <3>2, <3>3
  <2>3. timers \in Nat
    BY DEF OneTimer
  <2> QED
    BY <2>1, <2>2, <2>3 DEF LogInv, LogTypeOK
<1> QED
  BY <1>1, LogInvariance, LoopsAreSingle, PTL

(* Safety: the insight pane explains an event that is in the list, or one  *)
(* that the demo pushed off its end (LogParser.tsx).                       *)
THEOREM InsightIsOfTheList == Spec => []SelectedIsListed
<1>1. LogInv => SelectedIsListed
  BY DEF LogInv
<1> QED
  BY <1>1, LogInvariance, PTL

(* Safety: events of one line have one severity whichever parser judged    *)
(* them, key-value lines excepted (LogParser.tsx, src/services/api.ts,     *)
(* core/parser.py).                                                        *)
THEOREM PlainLinesAlike == Spec => []PlainLinesAgree
<1>1. LogInv => PlainLinesAgree
  <2> SUFFICES ASSUME LogInv, NEW e \in ToSet(events), NEW f \in ToSet(events),
                      e.line = f.line, e.line.rule # "key_value"
               PROVE  e.severity = f.severity
    BY DEF PlainLinesAgree
  <2>1. e \in Judged /\ f \in Judged
    BY ListEntries DEF LogInv
  <2>2. e.line \in Lines
    BY <2>1 DEF Judged, LogEvents
  <2>3. parseLine(e.line) = feed_line(e.line)
    BY <2>2, LogAssumption, ParsersAgree
  <2> QED
    BY <2>1, <2>3 DEF Judged
<1> QED
  BY <1>1, LogInvariance, PTL

(* Where a real event may leave the list.                                  *)
LEMMA RealLogsStep ==
  ASSUME LogInv, LogNext \/ UNCHANGED logVars
  PROVE  RealLogsSurvive
<1> SUFFICES ASSUME NEW e \in ToSet(events), Real(e), events' # <<>>,
                    ~ (timers > 0 /\ Len(events) >= BufferCap),
                    \A i \in DOMAIN logCalls :
                      ~ (logCalls[i].kind = "load" /\ logCalls' = RemoveAt(logCalls, i))
             PROVE  e \in ToSet(events')
  BY DEF RealLogsSurvive
<1>1. events \in Seq(Judged) /\ Len(events) \in Nat
  BY LenProperties DEF LogInv
<1>2. CASE UNCHANGED events
  BY <1>2
<1>3. ASSUME NEW new \in Seq(Judged), events' = new \o events
      PROVE  e \in ToSet(events')
  BY <1>1, <1>3, JoinedEntries
<1>4. CASE Tick
  <2>1. PICK line \in ToSet(Samples) : events' = <<Parsed(line, TRUE)>> \o Trimmed
    BY <1>4 DEF Tick, Show, Trimmed
  <2>2. Len(events) < BufferCap
    BY <1>1, <1>4, LogAssumption DEF Tick
  <2>3. line \in Lines
    BY LogAssumption, ListEntries
  <2>4. <<Parsed(line, TRUE)>> \in Seq(Judged)
    BY <2>3, EventsAreJudged, SingleEntry
  <2>5. Trimmed = events
    BY <1>1, <2>2, TrimmedEntries
  <2> QED
    BY <1>3, <2>1, <2>4, <2>5
<1>5. CASE toggleSimulation
  <2>1. events # <<>>
    BY NoEntries
  <2> QED
    BY <1>5, <2>1 DEF toggleSimulation
<1>6. CASE clearSimulatedOnly
  BY <1>1, <1>6, RealOnesEntries DEF clearSimulatedOnly, Show, RealOnes
<1>7. ASSUME NEW i \in DOMAIN logCalls, Ingested(i)
      PROVE  e \in ToSet(events')
  <2>1. logCalls[i] \in LogRequests /\ logCalls[i].kind = "ingest"
    BY <1>7, AnswerKeepsCalls DEF Ingested
  <2>2. PICK by \in {"server", "client"} : events' = ParsedBy(by, logCalls[i].lines) \o events
    BY <1>7 DEF Ingested, Show
  <2>3. ParsedBy(by, logCalls[i].lines) \in Seq(Judged)
    BY <2>1, IngestedEvents DEF LogRequests
  <2> QED
    BY <1>3, <2>2, <2>3
<1>8. CASE injectSample
  <2>1. PICK line \in Lines : events' = <<Parsed(line, TRUE)>> \o events
    BY <1>8 DEF injectSample, Show
  <2>2. <<Parsed(line, TRUE)>> \in Seq(Judged)
    BY EventsAreJudged, SingleEntry
  <2> QED
    BY <1>3, <2>1, <2>2
<1>9. ASSUME NEW i \in DOMAIN logCalls, Loaded(i)
      PROVE  FALSE
  BY <1>9 DEF Loaded
<1>10. CASE handleClear
  BY <1>10 DEF handleClear, Show
<1>11. CASE \/ StopDemo \/ loadLiveSystemLogs \/ Type \/ handleIngest \/ SelectEvent
            \/ UNCHANGED logVars \/ \E pace \in Speeds : SetSpeed(pace)
  BY <1>2, <1>11 DEF StopDemo, loadLiveSystemLogs, Type, handleIngest, SelectEvent, SetSpeed,
                     logVars
<1> QED
  BY <1>4, <1>5, <1>6, <1>7, <1>8, <1>9, <1>10, <1>11 DEF LogNext

(* Which request an answer is of shows in the list, so that the events it  *)
(* adds are those of its lines.                                            *)
LEMMA IngestStep ==
  ASSUME LogInv, LogNext \/ UNCHANGED logVars
  PROVE  IngestLands
<1> SUFFICES ASSUME NEW i \in DOMAIN logCalls,
                    logCalls[i].kind = "ingest", logCalls' = RemoveAt(logCalls, i)
             PROVE  \A k \in DOMAIN logCalls[i].lines :
                      \E e \in ToSet(events') : e.line = logCalls[i].lines[k] /\ Real(e)
  BY DEF IngestLands
<1>1. /\ logCalls \in Seq(LogRequests) /\ i \in 1..Len(logCalls)
      /\ logCalls[i] \in LogRequests /\ events \in Seq(Judged)
      /\ DOMAIN logCalls = 1..Len(logCalls)
  BY AnswerKeepsCalls, LenProperties DEF LogInv
<1>2. Len(logCalls) \in Nat /\ Len(logCalls') = Len(logCalls) - 1
  BY <1>1, RemovedEntry
<1>3. logCalls' # logCalls
  BY <1>2
<1>4. ASSUME NEW call, logCalls' = Append(logCalls, call), call \in LogRequests
      PROVE  FALSE
  <2>1. Len(logCalls') = Len(logCalls) + 1
    BY <1>1, <1>4, AppendProperties
  <2> QED
    BY <1>2, <2>1
<1>5. ASSUME NEW j \in DOMAIN logCalls, logCalls' = RemoveAt(logCalls, j)
      PROVE  logCalls[j] = logCalls[i]
  <2>1. j \in 1..Len(logCalls) /\ RemoveAt(logCalls, i) = RemoveAt(logCalls, j)
    BY <1>1, <1>5
  <2> QED
    BY <1>1, <2>1, RemovedSame
<1>6. ASSUME NEW j \in DOMAIN logCalls, Ingested(j)
      PROVE  \A k \in DOMAIN logCalls[i].lines :
               \E e \in ToSet(events') : e.line = logCalls[i].lines[k] /\ Real(e)
  <2>1. logCalls[j] = logCalls[i]
    BY <1>5, <1>6 DEF Ingested
  <2>2. logCalls[i].lines \in Seq(Lines)
    BY <1>1 DEF LogRequests
  <2>3. PICK by \in {"server", "client"} : events' = ParsedBy(by, logCalls[i].lines) \o events
    BY <1>6, <2>1 DEF Ingested, Show
  <2> DEFINE new == ParsedBy(by, logCalls[i].lines)
  <2>4. /\ new \in Seq(Judged)
        /\ \A k \in DOMAIN logCalls[i].lines :
             \E e \in ToSet(new) : e.line = logCalls[i].lines[k] /\ Real(e)
    BY <2>2, IngestedEvents
  <2>5. events' = new \o events
    BY <2>3
  <2> HIDE DEF new
  <2>6. ToSet(events') = ToSet(new) \union ToSet(events)
    BY <1>1, <2>4, <2>5, JoinedEntries
  <2> QED
    BY <2>4, <2>6
<1>7. ASSUME NEW j \in DOMAIN logCalls, Loaded(j)
      PROVE  FALSE
  BY <1>5, <1>7 DEF Loaded
<1>8. CASE loadLiveSystemLogs
  <2>1. [kind |-> "load"] \in LogRequests
    BY DEF LogRequests
  <2> QED
    BY <1>4, <1>8, <2>1 DEF loadLiveSystemLogs, Ask
<1>9. CASE handleIngest
  <2>1. [kind |-> "ingest", lines |-> typed] \in LogRequests
    BY DEF LogRequests, LogInv
  <2> QED
    BY <1>4, <1>9, <2>1 DEF handleIngest, Ask
<1>10. CASE \/ Tick \/ toggleSimulation \/ StopDemo \/ Type \/ injectSample \/ handleClear
            \/ clearSimulatedOnly \/ SelectEvent \/ UNCHANGED logVars
            \/ \E pace \in Speeds : SetSpeed(pace)
  BY <1>3, <1>10 DEF Tick, toggleSimulation, StopDemo, Type, injectSample, handleClear,
                     clearSimulatedOnly, SelectEvent, SetSpeed, logVars
<1> QED
  BY <1>6, <1>7, <1>8, <1>9, <1>10 DEF LogNext

(* While the tab of the log analyzer stays open its steps are its own.     *)
LEMMA LogStaysItself ==
  ASSUME [Next]_consoleVars, Staying("logs")
  PROVE  LogNext \/ UNCHANGED logVars
<1>1. ASSUME NEW t \in Tabs, Navigate(t) PROVE FALSE
  BY <1>1 DEF Navigate, Staying
<1> QED
  BY <1>1 DEF Next, InLogs, InAlerts, InOverview, InApps, InRadar, InSettings, LeftBehind, Restart,
              consoleVars, Staying

(* Action property: no button and no late answer costs a real event, but   *)
(* for Clear, an answer to Load and a demo that finds the list full        *)
(* (LogParser.tsx).                                                        *)
THEOREM RealLogsAreKept == Spec => RealLogsKept
<1>1. LogInv /\ [Next]_consoleVars => [Staying("logs") => RealLogsSurvive]_consoleVars
  BY LogStaysItself, RealLogsStep
<1> QED
  BY <1>1, LogInvariance, PTL DEF Spec, RealLogsKept

(* Action property: an answered ingestion lands whole, whatever the list,  *)
(* the text box and the other requests have become (LogParser.tsx,         *)
(* handleIngest).                                                          *)
THEOREM IngestsAreKept == Spec => IngestsKept
<1>1. LogInv /\ [Next]_consoleVars => [Staying("logs") => IngestLands]_consoleVars
  BY LogStaysItself, IngestStep
<1> QED
  BY <1>1, LogInvariance, PTL DEF Spec, IngestsKept

---------------------------------------------------------------------------
(* The alerts. *)

AlertRecords ==
  [id : SampleIds \union Exposed \union Addresses, ip : Addresses \union {Loopback},
   status : {"active", "acknowledged", "blocked"}, from : {"sample", "live"}]

(* Where an alert comes from, which settles its address.                   *)
Rooted(a) ==
  \/ a.from = "sample" /\ \E s \in SampleAlerts : a.id = s.id /\ a.ip = s.ip
  \/ a.from = "live" /\ a.id \in Exposed /\ a.ip = Loopback
  \/ a.from = "live" /\ a.id = a.ip /\ a.ip \in Addresses

(* What was asked for and done, or not done and known to be so.            *)
Settled == HasDone \union undone

IsSettled(a) ==
  /\ a.status = "blocked" /\ a.ip # Loopback => a.ip \in Settled
  /\ a.status = "acknowledged" /\ a.id \in Exposed => a.id \in Settled

(* The alerts that may be on screen or in the hands of a handler.          *)
Honest == {a \in AlertRecords : Rooted(a) /\ (a \in SampleAlerts \/ IsSettled(a))}

(* Whatever a request that was handled asked for is settled.               *)
AlertRequests ==
  {c \in [kind : {"load", "acknowledge", "block"},
          id : SampleIds \union Exposed \union Addresses \union {Nothing},
          ip : Addresses \union {Nothing}, held : SUBSET Honest,
          stage : {"sent", "handled"}, answer : SUBSET Honest, here : BOOLEAN] :
     /\ c.kind = "block" => c.ip \in Addresses /\ \A a \in c.held : a.id = c.id => a.ip = c.ip
     /\ c.stage = "sent" => c.answer = {}
     /\ c.stage = "handled" => Asked(c) \subseteq Settled}

AlertInv ==
  /\ blocked \subseteq Addresses /\ acked \subseteq Exposed
  /\ alerts \subseteq Honest
  /\ alertCalls \in Seq(AlertRequests)

LEMMA SeqOfMore ==
  ASSUME NEW S, NEW T, S \subseteq T, NEW list \in Seq(S)
  PROVE  list \in Seq(T)
<1>1. Len(list) \in Nat /\ \A i \in 1..Len(list) : list[i] \in T
  BY LenProperties, ElementOfSeq
<1>2. list = [i \in 1..Len(list) |-> list[i]]
  BY LenProperties
<1> QED
  BY <1>1, <1>2

(* What is settled stays so, and what was true of an alert or of a request *)
(* when a handler took hold of it is true when it goes on.                 *)
LEMMA KnowledgeGrows ==
  ASSUME Settled \subseteq Settled'
  PROVE  Honest \subseteq Honest' /\ AlertRequests \subseteq AlertRequests'
<1>1. Honest \subseteq Honest'
  BY DEF Honest, Rooted, IsSettled, AlertRecords, SampleIds, Addresses
<1>2. SUBSET Honest \subseteq SUBSET Honest'
  BY <1>1
<1>3. \A c : Asked(c)' = Asked(c)
  BY DEF Asked
<1> QED
  BY <1>1, <1>2, <1>3 DEF AlertRequests, SampleIds, Addresses

LEMMA SamplesAreHonest == SampleAlerts \subseteq Honest
<1> SUFFICES ASSUME NEW a \in SampleAlerts PROVE a \in Honest
  OBVIOUS
<1>1. /\ a = Alert(a.id, a.ip, a.status, "sample")
      /\ a.status \in {"active", "acknowledged", "blocked"}
  BY AlertsAssumption
<1>2. a.from = "sample" /\ a.id \in SampleIds /\ a.ip \in Addresses
  BY <1>1 DEF Alert, SampleIds, Addresses
<1> QED
  BY <1>1, <1>2 DEF Honest, Rooted, AlertRecords, Alert

LEMMA ListedAreHonest ==
  ASSUME blocked \subseteq Addresses, NEW found \in SUBSET Exposed
  PROVE  Listed(found) \subseteq Honest
<1>1. ASSUME NEW id \in found
      PROVE  ExposedAlert(id) \in Honest
  BY <1>1 DEF ExposedAlert, Alert, Honest, Rooted, IsSettled, Settled, HasDone, AlertRecords
<1>2. ASSUME NEW ip \in blocked
      PROVE  BlockedAlert(ip) \in Honest
  BY <1>2 DEF BlockedAlert, Alert, Honest, Rooted, IsSettled, Settled, HasDone, AlertRecords
<1> QED
  BY <1>1, <1>2 DEF Listed

(* An id keeps its address.                                                *)
LEMMA OneAddress ==
  ASSUME NEW a \in Honest, NEW b \in Honest, a.id = b.id
  PROVE  a.ip = b.ip
<1>1. /\ \A x, y \in SampleAlerts : x.id = y.id => x.ip = y.ip
      /\ \A x \in SampleAlerts : x.id \in SampleIds
      /\ SampleIds \intersect (Exposed \union Addresses) = {}
      /\ Exposed \intersect Addresses = {}
  BY AlertsAssumption DEF SampleIds
<1>2. Rooted(a) /\ Rooted(b)
  BY DEF Honest
<1> QED
  BY <1>1, <1>2 DEF Rooted

LEMMA MarkedIsHonest ==
  ASSUME NEW a \in Honest, NEW status \in {"acknowledged", "blocked"},
         status = "blocked" => a.ip = Loopback \/ a.ip \in Settled',
         status = "acknowledged" /\ a.id \in Exposed => a.id \in Settled'
  PROVE  [a EXCEPT !.status = status] \in Honest'
<1> DEFINE r == [a EXCEPT !.status = status]
<1>1. /\ r \in AlertRecords /\ r.id = a.id /\ r.ip = a.ip /\ r.from = a.from
      /\ r.status = status
  BY DEF Honest, AlertRecords
<1>2. Rooted(a)
  BY DEF Honest
<1> HIDE DEF r
<1>3. Rooted(r)'
  BY <1>1, <1>2 DEF Rooted, Addresses
<1>4. IsSettled(r)'
  BY <1>1 DEF IsSettled
<1>5. r \in AlertRecords'
  BY <1>1 DEF AlertRecords, SampleIds, Addresses
<1>6. r \in Honest'
  BY <1>3, <1>4, <1>5 DEF Honest
<1> QED
  BY <1>6 DEF r

LEMMA SendKeepsCalls ==
  ASSUME AlertInv, NEW call \in AlertRequests, Send(call)
  PROVE  alertCalls' \in Seq(AlertRequests)
  BY AppendProperties DEF Send, AlertInv

LEMMA TakenCalls ==
  ASSUME AlertInv, NEW i \in DOMAIN alertCalls
  PROVE  /\ i \in 1..Len(alertCalls) /\ alertCalls[i] \in AlertRequests
         /\ RemoveAt(alertCalls, i) \in Seq(AlertRequests)
<1>1. alertCalls \in Seq(AlertRequests) /\ i \in 1..Len(alertCalls)
  BY LenProperties DEF AlertInv
<1> QED
  BY <1>1, RemovedEntry, ElementOfSeq

LEMMA ApiKeepsAlerts ==
  ASSUME AlertInv, NEW i \in DOMAIN alertCalls, ApiHandles(i)
  PROVE  AlertInv'
<1> DEFINE call == alertCalls[i]
<1>1. /\ i \in 1..Len(alertCalls) /\ call \in AlertRequests
      /\ RemoveAt(alertCalls, i) \in Seq(AlertRequests)
  BY TakenCalls
<1>2. PICK found \in SUBSET Exposed :
        /\ call.stage = "sent"
        /\ acked' = AckedBy(call, found) /\ blocked' = BlockedBy(call)
        /\ undone' = (undone \union Asked(call)) \ HasDone'
        /\ UNCHANGED alerts
        /\ alertCalls' =
             IF ~ call.here THEN RemoveAt(alertCalls, i)
             ELSE [alertCalls EXCEPT ![i].stage = "handled",
                     ![i].answer = IF call.kind = "load" THEN Listed(found) ELSE {}]
  BY DEF ApiHandles
<1> DEFINE answer == IF call.kind = "load" THEN Listed(found) ELSE {}
           done == [call EXCEPT !.stage = "handled", !.answer = answer]
<1>3. alertCalls' = IF ~ call.here THEN RemoveAt(alertCalls, i)
                    ELSE [alertCalls EXCEPT ![i] = done]
  BY <1>2
<1>4. answer \subseteq Honest
  BY ListedAreHonest DEF AlertInv
<1> HIDE DEF answer
<1>5. /\ blocked \subseteq blocked' /\ blocked' \subseteq Addresses
      /\ acked \subseteq acked' /\ acked' \subseteq Exposed
  <2>1. call.kind = "block" => call.ip \in Addresses
    BY <1>1 DEF AlertRequests
  <2> HIDE DEF call
  <2> QED
    BY <1>2, <2>1 DEF AckedBy, BlockedBy, AlertInv
<1>6. Settled \subseteq Settled' /\ Asked(call) \subseteq Settled'
  <2> HIDE DEF call
  <2>1. HasDone \subseteq HasDone'
    BY <1>5 DEF HasDone
  <2>2. undone \union Asked(call) \subseteq undone' \union HasDone'
    BY <1>2
  <2> QED
    BY <2>1, <2>2 DEF Settled
<1>7. Honest \subseteq Honest' /\ AlertRequests \subseteq AlertRequests'
  BY <1>6, KnowledgeGrows
<1>8. done \in AlertRequests'
  <2> DEFINE Fields ==
        [kind : {"load", "acknowledge", "block"},
         id : SampleIds \union Exposed \union Addresses \union {Nothing},
         ip : Addresses \union {Nothing}, held : SUBSET (Honest'),
         stage : {"sent", "handled"}, answer : SUBSET (Honest'), here : BOOLEAN]
  <2>1. /\ call \in Fields /\ answer \subseteq Honest'
        /\ call.kind = "block" =>
             call.ip \in Addresses /\ \A a \in call.held : a.id = call.id => a.ip = call.ip
    BY <1>1, <1>4, <1>7 DEF AlertRequests, SampleIds, Addresses
  <2>2. done \in Fields
    BY <2>1
  <2>3. /\ done.kind = call.kind /\ done.id = call.id /\ done.ip = call.ip
        /\ done.held = call.held /\ done.stage = "handled"
    BY <2>1
  <2> HIDE DEF done, call
  <2>4. Asked(done) \subseteq Settled'
    BY <1>6, <2>3 DEF Asked
  <2>5. \A c : Asked(c)' = Asked(c)
    BY DEF Asked
  <2> QED
    BY <2>1, <2>2, <2>3, <2>4, <2>5 DEF AlertRequests, SampleIds, Addresses
<1> HIDE DEF done
<1>9. alertCalls' \in Seq(AlertRequests')
  <2>1. alertCalls \in Seq(AlertRequests') /\ RemoveAt(alertCalls, i) \in Seq(AlertRequests')
    BY <1>1, <1>7, SeqOfMore DEF AlertInv
  <2>2. [alertCalls EXCEPT ![i] = done] \in Seq(AlertRequests')
    BY <1>1, <1>8, <2>1, ExceptSeq
  <2> QED
    BY <1>3, <2>1, <2>2
<1> QED
  BY <1>2, <1>5, <1>7, <1>9 DEF AlertInv, SampleIds, Addresses

(* A handler that goes on knows that all it asked for is settled.          *)
LEMMA AnswerSettles ==
  ASSUME AlertInv, NEW i \in DOMAIN alertCalls, NEW kind, NEW answer, Answered(i, kind, answer)
  PROVE  /\ UNCHANGED <<acked, blocked>> /\ alertCalls[i].kind = kind
         /\ Asked(alertCalls[i]) \subseteq Settled'
         /\ alertCalls' \in Seq(AlertRequests')
         /\ Honest \subseteq Honest'
<1> DEFINE call == alertCalls[i]
<1>1. call \in AlertRequests /\ RemoveAt(alertCalls, i) \in Seq(AlertRequests)
  BY TakenCalls
<1>2. call.stage = "handled" => Asked(call) \subseteq Settled
  BY <1>1 DEF AlertRequests
<1>3. /\ UNCHANGED <<acked, blocked>> /\ call.kind = kind
      /\ alertCalls' = RemoveAt(alertCalls, i)
      /\ \/ call.stage = "handled" /\ UNCHANGED undone
         \/ undone' = undone \union (Asked(call) \ HasDone)
  BY DEF Answered
<1> HIDE DEF call
<1>4. HasDone' = HasDone
  BY <1>3 DEF HasDone
<1>5. Settled \subseteq Settled' /\ Asked(call) \subseteq Settled'
  BY <1>2, <1>3, <1>4 DEF Settled
<1>6. Honest \subseteq Honest' /\ AlertRequests \subseteq AlertRequests'
  BY <1>5, KnowledgeGrows
<1>7. alertCalls' \in Seq(AlertRequests')
  BY <1>1, <1>3, <1>6, SeqOfMore
<1> QED
  BY <1>3, <1>5, <1>6, <1>7 DEF call

LEMMA AnswersKeepAlerts ==
  ASSUME AlertInv, NEW i \in DOMAIN alertCalls, AlertsAnswer(i)
  PROVE  AlertInv'
<1> DEFINE call == alertCalls[i]
<1>1. call \in AlertRequests
  BY TakenCalls
<1>2. /\ call.held \subseteq Honest /\ call.answer \subseteq Honest
      /\ call.kind = "block" => \A a \in call.held : a.id = call.id => a.ip = call.ip
  BY <1>1 DEF AlertRequests
<1>3. ASSUME UNCHANGED <<acked, blocked>>, alertCalls' \in Seq(AlertRequests'),
             alerts' \subseteq Honest'
      PROVE  AlertInv'
  BY <1>3 DEF AlertInv, SampleIds, Addresses
<1>4. ASSUME LoadAnswered(i) PROVE AlertInv'
  <2>1. PICK answer \in {{}, call.answer} :
          /\ Answered(i, "load", answer)
          /\ alerts' = IF answer # {} THEN answer ELSE alerts
    BY <1>4 DEF LoadAnswered
  <2>2. /\ UNCHANGED <<acked, blocked>> /\ alertCalls' \in Seq(AlertRequests')
        /\ Honest \subseteq Honest'
    BY <2>1, AnswerSettles
  <2>3. alerts' \subseteq Honest'
    BY <1>2, <2>1, <2>2 DEF AlertInv
  <2> QED
    BY <1>3, <2>2, <2>3
<1>5. ASSUME AcknowledgeAnswered(i) PROVE AlertInv'
  <2>1. /\ Answered(i, "acknowledge", {})
        /\ alerts' = {[a EXCEPT !.status = "acknowledged"] : a \in call.held}
    BY <1>5 DEF AcknowledgeAnswered
  <2>2. /\ UNCHANGED <<acked, blocked>> /\ alertCalls' \in Seq(AlertRequests')
        /\ call.kind = "acknowledge" /\ Asked(call) \subseteq Settled'
    BY <2>1, AnswerSettles
  <2>3. ASSUME NEW a \in call.held
        PROVE  [a EXCEPT !.status = "acknowledged"] \in Honest'
    <3>1. a \in Honest /\ (a.id \in Exposed => a.id \in Settled')
      BY <1>2, <2>2 DEF Asked
    <3> QED
      BY <2>2, <3>1, MarkedIsHonest
  <2> QED
    BY <1>3, <2>1, <2>2, <2>3
<1>6. ASSUME BlockAnswered(i) PROVE AlertInv'
  <2>1. Answered(i, "block", {}) /\ alerts' = With(call.held, call.id, "blocked")
    BY <1>6 DEF BlockAnswered
  <2>2. /\ UNCHANGED <<acked, blocked>> /\ alertCalls' \in Seq(AlertRequests')
        /\ call.kind = "block" /\ Asked(call) \subseteq Settled'
        /\ Honest \subseteq Honest'
    BY <2>1, AnswerSettles
  <2>3. ASSUME NEW a \in call.held, a.id = call.id
        PROVE  [a EXCEPT !.status = "blocked"] \in Honest'
    <3>1. a \in Honest /\ a.ip \in Settled'
      BY <1>2, <2>2, <2>3 DEF Asked
    <3> QED
      BY <2>2, <3>1, MarkedIsHonest
  <2>4. alerts' \subseteq Honest'
    <3> SUFFICES ASSUME NEW b \in alerts' PROVE b \in Honest'
      OBVIOUS
    <3>1. PICK a \in call.held :
            b = IF a.id = call.id THEN [a EXCEPT !.status = "blocked"] ELSE a
      BY <2>1 DEF With
    <3> QED
      BY <1>2, <2>2, <2>3, <3>1
  <2> QED
    BY <1>3, <2>2, <2>4
<1> QED
  BY <1>4, <1>5, <1>6 DEF AlertsAnswer

LEMMA RequestsAreHonest ==
  ASSUME AlertInv
  PROVE  /\ Call("load", Nothing, Nothing, {}) \in AlertRequests
         /\ Call("acknowledge", Nothing, Nothing, alerts) \in AlertRequests
         /\ \A a \in alerts :
              a.ip # Loopback => Call("block", a.id, a.ip, alerts) \in AlertRequests
<1>1. /\ Call("load", Nothing, Nothing, {}) \in AlertRequests
      /\ Call("acknowledge", Nothing, Nothing, alerts) \in AlertRequests
  BY DEF Call, AlertRequests, AlertInv
<1>2. ASSUME NEW a \in alerts, a.ip # Loopback
      PROVE  Call("block", a.id, a.ip, alerts) \in AlertRequests
  <2>1. /\ a.ip \in Addresses /\ a.id \in SampleIds \union Exposed \union Addresses
        /\ \A b \in alerts : b.id = a.id => b.ip = a.ip
    BY <1>2, OneAddress DEF AlertInv, Honest, AlertRecords
  <2> QED
    BY <2>1 DEF Call, AlertRequests, AlertInv
<1> QED
  BY <1>1, <1>2

LEMMA AskingKeepsAlerts ==
  ASSUME AlertInv, NEW call \in AlertRequests, Send(call),
         UNCHANGED <<acked, blocked, undone>>, alerts' \subseteq Honest
  PROVE  AlertInv'
<1>1. Honest \subseteq Honest' /\ AlertRequests \subseteq AlertRequests'
  BY KnowledgeGrows DEF Settled, HasDone
<1>2. alertCalls' \in Seq(AlertRequests')
  BY <1>1, SendKeepsCalls, SeqOfMore
<1> QED
  BY <1>1, <1>2 DEF AlertInv, SampleIds, Addresses

LEMMA ShowingKeepsAlerts ==
  ASSUME AlertInv, UNCHANGED <<alertCalls, acked, blocked, undone>>, alerts' \subseteq Honest'
  PROVE  AlertInv'
<1>1. AlertRequests \subseteq AlertRequests'
  BY KnowledgeGrows DEF Settled, HasDone
<1>2. alertCalls' \in Seq(AlertRequests')
  BY <1>1, SeqOfMore DEF AlertInv
<1> QED
  BY <1>2 DEF AlertInv, SampleIds, Addresses

LEMMA BlockingKeepsAlerts ==
  ASSUME AlertInv, UNCHANGED <<acked, blocked, undone>>, NEW id, handleBlockIp(id)
  PROVE  AlertInv'
<1>1. CASE \E a \in alerts : /\ a.id = id /\ a.ip # Loopback
                             /\ Send(Call("block", id, a.ip, alerts)) /\ UNCHANGED alerts
  <2>1. PICK a \in alerts : /\ a.id = id /\ a.ip # Loopback
                            /\ Send(Call("block", id, a.ip, alerts)) /\ UNCHANGED alerts
    BY <1>1
  <2>2. Call("block", id, a.ip, alerts) \in AlertRequests
    BY <2>1, RequestsAreHonest
  <2>3. alerts' \subseteq Honest
    BY <2>1 DEF AlertInv
  <2> QED
    BY <2>1, <2>2, <2>3, AskingKeepsAlerts
<1>2. CASE /\ \A a \in alerts : a.id = id => a.ip = Loopback
           /\ alerts' = With(alerts, id, "blocked")
           /\ UNCHANGED alertCalls
  <2>1. Honest \subseteq Honest'
    BY KnowledgeGrows DEF Settled, HasDone
  <2>2. ASSUME NEW a \in alerts, a.id = id
        PROVE  [a EXCEPT !.status = "blocked"] \in Honest'
    BY <1>2, <2>2, MarkedIsHonest DEF AlertInv
  <2>3. alerts' \subseteq Honest'
    <3> SUFFICES ASSUME NEW b \in alerts' PROVE b \in Honest'
      OBVIOUS
    <3>1. PICK a \in alerts : b = IF a.id = id THEN [a EXCEPT !.status = "blocked"] ELSE a
      BY <1>2 DEF With
    <3> QED
      BY <2>1, <2>2, <3>1 DEF AlertInv
  <2> QED
    BY <1>2, <2>3, ShowingKeepsAlerts
<1> QED
  BY <1>1, <1>2 DEF handleBlockIp

LEMMA UserKeepsAlerts ==
  ASSUME AlertInv, AlertsUser
  PROVE  AlertInv'
<1>1. CASE loadAlerts
  BY <1>1, RequestsAreHonest, AskingKeepsAlerts DEF loadAlerts, AlertInv
<1>2. CASE AcknowledgeAll
  BY <1>2, RequestsAreHonest, AskingKeepsAlerts DEF AcknowledgeAll, AlertInv
<1>3. CASE BlockListed \/ BlockChosen
  BY <1>3, BlockingKeepsAlerts DEF BlockListed, BlockChosen
<1>4. CASE InspectAlert \/ CloseInspection \/ handleDismiss
  <2>1. alerts' \subseteq alerts /\ UNCHANGED <<alertCalls, acked, blocked, undone>>
    BY <1>4 DEF InspectAlert, CloseInspection, handleDismiss
  <2>2. alerts' \subseteq Honest'
    BY <2>1, KnowledgeGrows DEF AlertInv, Settled, HasDone
  <2> QED
    BY <2>1, <2>2, ShowingKeepsAlerts
<1> QED
  BY <1>1, <1>2, <1>3, <1>4 DEF AlertsUser

(* Unmounting starts a view over whose requests have nothing to show, with *)
(* nothing undone on record.                                               *)
LEMMA UnmountKeepsAlerts ==
  ASSUME AlertInv, AlertsUnmount
  PROVE  AlertInv'
<1> DEFINE keep == {c \in ToSet(alertCalls) : c.stage = "sent" /\ c.kind # "load"}
           left == Chosen(alertCalls, keep)
           gone == [i \in DOMAIN left |-> [left[i] EXCEPT !.here = FALSE, !.held = {}]]
<1>1. /\ alerts' = SampleAlerts /\ undone' = {} /\ UNCHANGED <<acked, blocked>>
      /\ alertCalls' = gone
  BY DEF AlertsUnmount
<1>2. alerts' \subseteq Honest'
  <2>1. \A a \in SampleAlerts : a \in AlertRecords /\ Rooted(a)
    BY SamplesAreHonest DEF Honest
  <2>2. \A a \in SampleAlerts : a \in AlertRecords' /\ Rooted(a)'
    BY <1>1, <2>1 DEF AlertRecords, Rooted, SampleIds, Addresses
  <2> QED
    BY <1>1, <2>2 DEF Honest
<1>3. /\ left \in Seq(AlertRequests)
      /\ \A k \in 1..Len(left) : left[k] \in keep
  BY ChosenEntries DEF AlertInv
<1> HIDE DEF left
<1>4. ASSUME NEW c \in AlertRequests, c.stage = "sent"
      PROVE  [c EXCEPT !.here = FALSE, !.held = {}] \in AlertRequests'
  <2> DEFINE d == [c EXCEPT !.here = FALSE, !.held = {}]
             Fields ==
               [kind : {"load", "acknowledge", "block"},
                id : SampleIds \union Exposed \union Addresses \union {Nothing},
                ip : Addresses \union {Nothing}, held : {{}},
                stage : {"sent", "handled"}, answer : {{}}, here : BOOLEAN]
  <2>1. d \in Fields /\ d.stage = "sent" /\ (d.kind = "block" => d.ip \in Addresses)
    BY <1>4 DEF AlertRequests
  <2> HIDE DEF d
  <2>2. d.held = {} /\ d.answer = {}
    BY <2>1
  <2>3. d \in [kind : {"load", "acknowledge", "block"},
               id : SampleIds \union Exposed \union Addresses \union {Nothing},
               ip : Addresses \union {Nothing}, held : SUBSET (Honest'),
               stage : {"sent", "handled"}, answer : SUBSET (Honest'), here : BOOLEAN]
    BY <2>1
  <2>4. d \in AlertRequests'
    BY <2>1, <2>2, <2>3 DEF AlertRequests, SampleIds, Addresses
  <2> QED
    BY <2>4 DEF d
<1>5. gone \in Seq(AlertRequests')
  <2>1. /\ Len(left) \in Nat /\ DOMAIN left = 1..Len(left)
        /\ \A k \in 1..Len(left) : left[k] \in AlertRequests /\ left[k].stage = "sent"
    BY <1>3, LenProperties, ElementOfSeq
  <2>2. \A k \in 1..Len(left) : gone[k] \in AlertRequests'
    BY <1>4, <2>1
  <2>3. gone = [k \in 1..Len(left) |-> gone[k]]
    BY <2>1
  <2> HIDE DEF gone
  <2> QED
    BY <2>1, <2>2, <2>3
<1> QED
  BY <1>1, <1>2, <1>5 DEF AlertInv

(* What a restart forgets is known to be undone.                           *)
LEMMA RestartKeepsAlerts ==
  ASSUME AlertInv, ApiRestarts
  PROVE  AlertInv'
<1>1. /\ acked' = {} /\ blocked' = {Preset} /\ UNCHANGED <<alerts, alertCalls>>
      /\ undone' = (undone \union HasDone) \ HasDone'
  BY DEF ApiRestarts
<1>2. Settled \subseteq Settled'
  BY <1>1 DEF Settled
<1>3. Honest \subseteq Honest' /\ AlertRequests \subseteq AlertRequests'
  BY <1>2, KnowledgeGrows
<1>4. alertCalls' \in Seq(AlertRequests')
  BY <1>1, <1>3, SeqOfMore DEF AlertInv
<1> QED
  BY <1>1, <1>3, <1>4 DEF AlertInv, Addresses

LEMMA StepKeepsAlerts == AlertInv /\ [Next]_consoleVars => AlertInv'
<1> SUFFICES ASSUME AlertInv, [Next]_consoleVars PROVE AlertInv'
  OBVIOUS
<1>1. ASSUME UNCHANGED alertVars PROVE AlertInv'
  <2>1. UNCHANGED <<alerts, alertCalls, acked, blocked, undone>>
    BY <1>1 DEF alertVars
  <2>2. alerts' \subseteq Honest'
    BY <2>1, KnowledgeGrows DEF AlertInv, Settled, HasDone
  <2> QED
    BY <2>1, <2>2, ShowingKeepsAlerts
<1>2. CASE InAlerts /\ (AlertsUser \/ AlertsNetwork)
  BY <1>2, UserKeepsAlerts, ApiKeepsAlerts, AnswersKeepAlerts DEF AlertsNetwork
<1>3. CASE LeftBehind
  BY <1>3, ApiKeepsAlerts DEF LeftBehind
<1>4. ASSUME NEW t \in Tabs, Navigate(t)
      PROVE  AlertInv'
  <2>1. CASE tab = "alerts"
    BY <1>4, <2>1, UnmountKeepsAlerts DEF Navigate
  <2>2. CASE tab # "alerts" /\ t = "alerts"
    <3>1. AlertsMount
      BY <1>4, <2>2 DEF Navigate
    <3> QED
      BY <3>1, RequestsAreHonest, AskingKeepsAlerts DEF AlertsMount, AlertInv
  <2>3. CASE tab # "alerts" /\ t # "alerts"
    BY <1>1, <1>4, <2>3 DEF Navigate
  <2> QED
    BY <2>1, <2>2, <2>3
<1>5. CASE \/ InLogs /\ LogNext
           \/ InOverview /\ ConnectionsNext
           \/ InApps /\ AppsNext
           \/ InRadar /\ RadarNext
           \/ InSettings /\ SettingsNext
           \/ UNCHANGED consoleVars
  BY <1>1, <1>5 DEF InLogs, InOverview, InApps, InRadar, InSettings, consoleVars
<1>6. CASE Restart
  BY <1>6, RestartKeepsAlerts DEF Restart
<1> QED
  BY <1>2, <1>3, <1>4, <1>5, <1>6 DEF Next

(* Safety: what the alerts on screen say was done was done at the API,     *)
(* however requests, loads and visits of the tab overtake each other and   *)
(* whatever each inspection of the host finds; the exceptions are the very *)
(* alerts whose own request was lost, that the inspection missed when the  *)
(* API acknowledged, or that a restart of it has forgotten (AlertsView.tsx,*)
(* api/routes/alerts.py).                                                  *)
THEOREM ShownAlertsAreDone == Spec => []ShownIsDone
<1>1. Init => AlertInv
  <2> SUFFICES ASSUME Init PROVE AlertInv
    OBVIOUS
  <2>1. /\ alerts = SampleAlerts /\ alertCalls = <<>> /\ blocked = {Preset} /\ acked = {}
    BY DEF Init, AlertsInit
  <2> QED
    BY <2>1, SamplesAreHonest, EmptySeq DEF AlertInv, Addresses
<1>2. AlertInv => ShownIsDone
  <2> SUFFICES ASSUME AlertInv, NEW a \in alerts \ SampleAlerts
               PROVE  /\ a.status = "blocked" /\ a.ip # Loopback => a.ip \in blocked \union undone
                      /\ a.status = "acknowledged" /\ a.id \in Exposed => a.id \in acked \union undone
    BY DEF ShownIsDone
  <2>1. a \in AlertRecords /\ IsSettled(a)
    BY DEF AlertInv, Honest
  <2>2. /\ a.ip \in Addresses \union {Loopback}
        /\ blocked \subseteq Addresses /\ acked \subseteq Exposed
        /\ Exposed \intersect Addresses = {}
    BY <2>1, AlertsAssumption DEF AlertRecords, AlertInv
  <2> QED
    BY <2>1, <2>2 DEF IsSettled, Settled, HasDone
<1> QED
  BY <1>1, <1>2, StepKeepsAlerts, PTL DEF Spec

---------------------------------------------------------------------------
(* The connections of the overview. *)

(* The entries that a view with n reloads may list.                        *)
ConnectionRecords(n) == [id : 1..(100 + n), status : {"allowed", "blocked"}]

(* No two entries share an id, and none has the id that the reload under   *)
(* way will bring.                                                         *)
ConnectionInv ==
  /\ reloads \in Nat
  /\ connections \in Seq(ConnectionRecords(reloads))
  /\ \A i, j \in 1..Len(connections) : connections[i].id = connections[j].id => i = j
  /\ reloading => \A i \in 1..Len(connections) : connections[i].id # Fresh(reloads).id

LEMMA ListedConnections ==
  ASSUME ConnectionInv
  PROVE  /\ Len(connections) \in Nat /\ DOMAIN connections = 1..Len(connections)
         /\ \A i \in 1..Len(connections) : connections[i] \in ConnectionRecords(reloads)
         /\ ToSet(connections) = {connections[i] : i \in 1..Len(connections)}
  BY LenProperties, ElementOfSeq, ListEntries DEF ConnectionInv

(* What the timer of a reload makes of the list.                           *)
LEMMA ReloadedList ==
  ASSUME ConnectionInv, Reloaded
  PROVE  \E m \in 1..(Len(connections) + 1) :
           /\ connections' \in Seq(ConnectionRecords(reloads)) /\ Len(connections') = m
           /\ connections'[1] = Fresh(reloads)
           /\ \A i \in 2..m : connections'[i] = connections[i - 1]
<1> DEFINE n == Len(connections)
           m == IF n < ListCap THEN n + 1 ELSE ListCap
           fresh == <<Fresh(reloads)>>
           list == fresh \o connections
<1>1. /\ reloading /\ UNCHANGED reloads /\ connections' = SubSeq(list, 1, m)
      /\ n \in Nat /\ m \in Nat /\ 1 <= m /\ m <= n + 1
      /\ connections \in Seq(ConnectionRecords(reloads))
  BY ListedConnections, ConnectionsAssumption DEF Reloaded, ConnectionInv
<1>2. /\ fresh \in Seq(ConnectionRecords(reloads)) /\ Len(fresh) = 1
      /\ fresh[1] = Fresh(reloads)
  BY <1>1 DEF ConnectionInv, ConnectionRecords, Fresh
<1> HIDE DEF fresh, m
<1>3. /\ list \in Seq(ConnectionRecords(reloads)) /\ Len(list) = 1 + n
      /\ \A i \in 1..(1 + n) : list[i] = IF i <= 1 THEN fresh[i] ELSE connections[i - 1]
  <2>1. /\ list \in Seq(ConnectionRecords(reloads)) /\ Len(list) = Len(fresh) + n
        /\ \A i \in 1..(Len(fresh) + n) :
             list[i] = IF i <= Len(fresh) THEN fresh[i] ELSE connections[i - Len(fresh)]
    BY <1>1, <1>2, ConcatProperties
  <2> HIDE DEF list
  <2> QED
    BY <1>2, <2>1
<1> HIDE DEF list
<1>4. \A i \in 1..m : list[i] \in ConnectionRecords(reloads)
  <2>1. \A i \in 1..m : i \in 1..Len(list)
    BY <1>1, <1>3
  <2> QED
    BY <1>3, <2>1, ElementOfSeq
<1>5. /\ connections' \in Seq(ConnectionRecords(reloads))
      /\ Len(connections') = IF 1 <= m THEN m - 1 + 1 ELSE 0
      /\ \A i \in 1..(m - 1 + 1) : connections'[i] = list[1 + i - 1]
  BY <1>1, <1>4, SubSeqProperties
<1>6. Len(connections') = m /\ m \in 1..(n + 1)
  BY <1>1, <1>5
<1>7. ASSUME NEW i \in 1..m PROVE connections'[i] = list[i]
  <2>1. i \in 1..(m - 1 + 1) /\ 1 + i - 1 = i
    BY <1>1
  <2> QED
    BY <1>5, <2>1
<1>8. connections'[1] = Fresh(reloads)
  BY <1>1, <1>2, <1>3, <1>7
<1>9. ASSUME NEW i \in 2..m PROVE connections'[i] = connections[i - 1]
  <2>1. i \in 1..m /\ i \in 1..(1 + n) /\ ~ (i <= 1)
    BY <1>1
  <2> QED
    BY <1>3, <1>7, <2>1
<1> QED
  BY <1>5, <1>6, <1>8, <1>9 DEF n

(* Changing the status of the entries of one id.                           *)
LEMMA MarkedList ==
  ASSUME ConnectionInv, NEW id, NEW status \in {"allowed", "blocked"},
         connections' = WithStatus(connections, id, status)
  PROVE  /\ connections' \in Seq(ConnectionRecords(reloads))
         /\ Len(connections') = Len(connections)
         /\ \A i \in 1..Len(connections) :
              /\ connections'[i].id = connections[i].id
              /\ connections'[i].status = IF connections[i].id = id THEN status
                                          ELSE connections[i].status
<1>1. /\ Len(connections) \in Nat /\ DOMAIN connections = 1..Len(connections)
      /\ \A i \in 1..Len(connections) : connections[i] \in ConnectionRecords(reloads)
  BY ListedConnections
<1>2. connections' = [i \in 1..Len(connections) |->
                        IF connections[i].id = id THEN [connections[i] EXCEPT !.status = status]
                        ELSE connections[i]]
  BY <1>1 DEF WithStatus
<1>3. ASSUME NEW i \in 1..Len(connections)
      PROVE  /\ connections'[i] \in ConnectionRecords(reloads)
             /\ connections'[i].id = connections[i].id
             /\ connections'[i].status = IF connections[i].id = id THEN status
                                         ELSE connections[i].status
  BY <1>1, <1>2 DEF ConnectionRecords
<1>4. connections' = [i \in 1..Len(connections) |-> connections'[i]]
  BY <1>2
<1>5. connections' \in Seq(ConnectionRecords(reloads))
  BY <1>1, <1>3, <1>4
<1>6. Len(connections') = Len(connections)
  BY <1>1, <1>4
<1> QED
  BY <1>3, <1>5, <1>6

LEMMA ConnectionStepKeepsIds ==
  ASSUME ConnectionInv, ConnectionsNext
  PROVE  ConnectionInv'
<1>1. CASE handleReload
  <2>1. /\ reloads' = reloads + 1 /\ UNCHANGED connections
        /\ reloads \in Nat /\ connections \in Seq(ConnectionRecords(reloads))
    BY <1>1 DEF handleReload, ConnectionInv
  <2>2. ConnectionRecords(reloads) \subseteq ConnectionRecords(reloads')
    BY <2>1 DEF ConnectionRecords
  <2>3. connections' \in Seq(ConnectionRecords(reloads'))
    BY <2>1, <2>2, SeqOfMore
  <2>4. \A i \in 1..Len(connections) : connections[i].id # 100 + (reloads + 1)
    BY <2>1, ListedConnections DEF ConnectionRecords
  <2> QED
    BY <2>1, <2>3, <2>4 DEF ConnectionInv, Fresh
<1>2. CASE Reloaded
  <2>1. PICK m \in 1..(Len(connections) + 1) :
          /\ connections' \in Seq(ConnectionRecords(reloads)) /\ Len(connections') = m
          /\ connections'[1] = Fresh(reloads)
          /\ \A i \in 2..m : connections'[i] = connections[i - 1]
    BY <1>2, ReloadedList
  <2>2. reloading /\ reloading' = FALSE /\ UNCHANGED reloads /\ Len(connections) \in Nat
    BY <1>2, ListedConnections DEF Reloaded
  <2>3. /\ \A i \in 2..m : i - 1 \in 1..Len(connections)
        /\ \A i \in 1..m : i = 1 \/ i \in 2..m
    BY <2>2
  <2>4. \A i \in 2..m : connections'[i].id # Fresh(reloads).id
    BY <2>1, <2>2, <2>3 DEF ConnectionInv
  <2>5. ASSUME NEW i \in 1..m, NEW j \in 1..m, connections'[i].id = connections'[j].id
        PROVE  i = j
    <3>1. CASE i = 1 \/ j = 1
      BY <2>1, <2>3, <2>4, <2>5, <3>1
    <3>2. CASE i # 1 /\ j # 1
      <4>1. i - 1 = j - 1
        BY <2>1, <2>3, <2>5, <3>2 DEF ConnectionInv
      <4> QED
        BY <4>1
    <3> QED
      BY <3>1, <3>2
  <2> QED
    BY <2>1, <2>2, <2>5 DEF ConnectionInv
<1>3. CASE handleBlockConnection \/ UnblockConnection
  <2>1. /\ UNCHANGED <<reloading, reloads>>
        /\ \E status \in {"allowed", "blocked"} :
             connections' = WithStatus(connections, inspecting.id, status)
    BY <1>3 DEF handleBlockConnection, UnblockConnection
  <2>2. /\ connections' \in Seq(ConnectionRecords(reloads))
        /\ Len(connections') = Len(connections)
        /\ \A i \in 1..Len(connections) : connections'[i].id = connections[i].id
    BY <2>1, MarkedList
  <2> QED
    BY <2>1, <2>2 DEF ConnectionInv, Fresh
<1>4. CASE InspectConnection \/ CloseInspector
  BY <1>4 DEF InspectConnection, CloseInspector, ConnectionInv, Fresh
<1> QED
  BY <1>1, <1>2, <1>3, <1>4 DEF ConnectionsNext

(* A fresh view of the overview.                                           *)
LEMMA FirstConnections ==
  /\ InitialConnections \in Seq(ConnectionRecords(0))
  /\ \A i, j \in 1..Len(InitialConnections) :
       InitialConnections[i].id = InitialConnections[j].id => i = j
<1>1. ConnectionRecords(0) = [id : 1..100, status : {"allowed", "blocked"}]
  BY DEF ConnectionRecords
<1>2. InitialConnections \in Seq(ConnectionRecords(0))
  BY <1>1, ConnectionsAssumption
<1>3. DOMAIN InitialConnections = 1..Len(InitialConnections)
  BY <1>2, LenProperties
<1> QED
  BY <1>2, <1>3, ConnectionsAssumption

LEMMA StepKeepsIds == ConnectionInv /\ [Next]_consoleVars => ConnectionInv'
<1> SUFFICES ASSUME ConnectionInv, [Next]_consoleVars PROVE ConnectionInv'
  OBVIOUS
<1>1. ASSUME UNCHANGED connectionVars PROVE ConnectionInv'
  BY <1>1 DEF connectionVars, ConnectionInv, Fresh
<1>2. CASE InOverview /\ ConnectionsNext
  BY <1>2, ConnectionStepKeepsIds
<1>3. ASSUME NEW t \in Tabs, Navigate(t)
      PROVE  ConnectionInv'
  <2>1. CASE tab = "overview"
    <3>1. connections' = InitialConnections /\ reloading' = FALSE /\ reloads' = 0
      BY <1>3, <2>1 DEF Navigate, Leave, ConnectionsUnmount
    <3> QED
      BY <3>1, FirstConnections DEF ConnectionInv
  <2>2. CASE tab # "overview"
    BY <1>1, <1>3, <2>2 DEF Navigate, Leave
  <2> QED
    BY <2>1, <2>2
<1>4. CASE \/ InLogs /\ LogNext
           \/ InAlerts /\ (AlertsUser \/ AlertsNetwork)
           \/ InApps /\ AppsNext
           \/ InRadar /\ RadarNext
           \/ InSettings /\ SettingsNext
           \/ LeftBehind
           \/ Restart
           \/ UNCHANGED consoleVars
  BY <1>1, <1>4 DEF InLogs, InAlerts, InApps, InRadar, InSettings, LeftBehind, Restart, consoleVars
<1> QED
  BY <1>2, <1>3, <1>4 DEF Next

(* A blocked entry leaves the list only off its end, and comes back only   *)
(* by the inspector.                                                       *)
LEMMA BlockStep ==
  ASSUME ConnectionInv, ConnectionsNext \/ UNCHANGED connectionVars
  PROVE  BlockSticks
<1> SUFFICES ASSUME NEW c \in ToSet(connections), c.status = "blocked"
             PROVE  \/ c \in ToSet(connections')
                    \/ \A d \in ToSet(connections') : d.id # c.id
                    \/ inspecting.id = c.id /\ inspecting' = NoConnection
  BY DEF BlockSticks
<1>1. PICK k \in 1..Len(connections) : c = connections[k]
  BY ListedConnections
<1>2. c \in ConnectionRecords(reloads) /\ Len(connections) \in Nat
  BY <1>1, ListedConnections
<1>3. CASE UNCHANGED connections
  BY <1>3
<1>4. CASE Reloaded
  <2>1. PICK m \in 1..(Len(connections) + 1) :
          /\ connections' \in Seq(ConnectionRecords(reloads)) /\ Len(connections') = m
          /\ connections'[1] = Fresh(reloads)
          /\ \A i \in 2..m : connections'[i] = connections[i - 1]
    BY <1>4, ReloadedList
  <2>2. ToSet(connections') = {connections'[i] : i \in 1..m}
    <3>1. ToSet(connections') = {connections'[i] : i \in 1..Len(connections')}
      BY <2>1, ListEntries
    <3> QED
      BY <2>1, <3>1
  <2>3. CASE k + 1 <= m
    <3>1. k + 1 \in 2..m /\ k + 1 \in 1..m /\ (k + 1) - 1 = k
      BY <1>2, <2>3
    <3>2. connections'[k + 1] = c
      BY <1>1, <2>1, <3>1
    <3> QED
      BY <2>2, <3>1, <3>2
  <2>4. CASE ~ (k + 1 <= m)
    <3> SUFFICES ASSUME NEW i \in 1..m PROVE connections'[i].id # c.id
      BY <2>2
    <3>1. CASE i = 1
      BY <1>1, <1>4, <2>1, <3>1 DEF Reloaded, ConnectionInv
    <3>2. CASE i # 1
      <4>1. i \in 2..m /\ i - 1 \in 1..Len(connections) /\ i - 1 # k
        BY <1>2, <2>4, <3>2
      <4> QED
        BY <1>1, <2>1, <4>1 DEF ConnectionInv
    <3> QED
      BY <3>1, <3>2
  <2> QED
    BY <2>3, <2>4
<1>5. ASSUME NEW status \in {"allowed", "blocked"},
             connections' = WithStatus(connections, inspecting.id, status),
             status = "blocked" \/ inspecting.id # c.id
      PROVE  c \in ToSet(connections')
  <2>1. /\ connections' \in Seq(ConnectionRecords(reloads))
        /\ Len(connections') = Len(connections)
        /\ connections'[k].id = c.id /\ connections'[k].status = "blocked"
    BY <1>1, <1>5, MarkedList
  <2>2. /\ ToSet(connections') = {connections'[i] : i \in 1..Len(connections')}
        /\ connections'[k] \in ConnectionRecords(reloads)
    BY <2>1, ListEntries, ElementOfSeq
  <2>3. connections'[k] = c
    BY <1>2, <2>1, <2>2 DEF ConnectionRecords
  <2> QED
    BY <2>1, <2>2, <2>3
<1>6. CASE handleBlockConnection
  BY <1>5, <1>6 DEF handleBlockConnection
<1>7. CASE UnblockConnection
  BY <1>5, <1>7 DEF UnblockConnection
<1> QED
  BY <1>3, <1>4, <1>6, <1>7
  DEF ConnectionsNext, handleReload, InspectConnection, CloseInspector, connectionVars

(* Safety: a connection the user blocked stays blocked while it is listed, *)
(* whatever reloads fall in between, until the user unblocks it            *)
(* (Overview.tsx, handleBlockConnection, handleReload).                    *)
THEOREM BlocksAreKept == Spec => BlocksKept
<1>1. Init => ConnectionInv
  BY FirstConnections DEF Init, ConnectionsInit, ConnectionInv
<1>2. ConnectionInv /\ [Next]_consoleVars =>
        [Staying("overview") => BlockSticks]_consoleVars
  <2> SUFFICES ASSUME ConnectionInv, [Next]_consoleVars, Staying("overview")
               PROVE  BlockSticks
    OBVIOUS
  <2>1. ASSUME NEW t \in Tabs, Navigate(t) PROVE FALSE
    BY <2>1 DEF Navigate, Staying
  <2>2. ConnectionsNext \/ UNCHANGED connectionVars
    BY <2>1 DEF Next, InLogs, InAlerts, InOverview, InApps, InRadar, InSettings, LeftBehind, Restart,
                Staying, consoleVars
  <2> QED
    BY <2>2, BlockStep
<1> QED
  BY <1>1, <1>2, StepKeepsIds, PTL DEF Spec, BlocksKept

=============================================================================
