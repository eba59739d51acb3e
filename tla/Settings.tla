------------------------------- MODULE Settings -------------------------------
(*
 A device's settings between an application, the library and the device: what
 the library shows, the raw parameters it keeps, the commands it builds from
 both, the answers that update them, and the reports that correct them.  Other
 clients of the device (the vendor's own application) change settings too.

 The settings and the plan of each setter come from a menu (see MCSettings,
 which takes the menus of every kind of device from SettingPlans).
*)
EXTENDS Naturals, FiniteSets, Sequences

CONSTANTS
  Menus,        \* what a kind of device offers: its settings and their plans
  Unserved,     \* <<model, hub, setting>>: metadata offers it and no setter sends it
  MaxRequests,  \* bound: requests of the application
  MaxChanges    \* bound: changes by other clients

Values == {0, 1}
Offs == {"clears", "toggles", "unlessOne", "stays", "covers"}
Answers == {"first", "second", "never"}
CommandOf(names) ==
  [name : names, shows : names, fromShown : SUBSET names, fromRaw : SUBSET names,
   unknown : {"drop", "zero", "floor", "sends"}, off : Offs, keepsOne : BOOLEAN,
   edits : BOOLEAN, back : BOOLEAN, forces : SUBSET names, tells : SUBSET names,
   stages : {1, 2}, on : Answers]
\* What the code is known to do wrong with a setting: a flag switched off is sent as
\* on, a value is overwritten that no answer shows, one is sent along out of a raw
\* parameter that is behind, the hub's acceptance is shown as the device's answer.
\* The fifth is meant: a setting is left to the next report.
Defects == {"stays_on", "overwritten", "raw_behind", "hub_answer", "left_to_report"}

\* A menu's key gives the raw parameter a setting is read from; objects are the
\* settings whose parameter is an object, others how many flags of further settings
\* the parameter may have on, clash says that two settings share a command, and
\* listed names the settings with each of the defects.
ASSUME MenusAssumption ==
  \A m \in Menus :
    /\ m.objects \subseteq m.names
    /\ m.others \subseteq Nat
    /\ m.listed \in [Defects -> SUBSET m.names]
    /\ m.plan \in [m.names -> SUBSET Seq(CommandOf(m.names))]
ASSUME BoundsAssumption == MaxRequests \in Nat /\ MaxChanges \in Nat

VARIABLES
  menu,      \* the kind of device at hand
  shown,     \* the properties applications see
  raw,       \* the raw parameters they were last read from
  informed,  \* settings whose raw parameter is known
  actual,    \* what the device is set to
  flight,    \* commands sent and not yet answered
  sent,      \* number of commands sent
  requests,  \* number of requests made
  changes,   \* number of changes by other clients
  doubt,     \* settings the library has no means to show correctly until a report
  away       \* the last request that was turned away, if the last one was
vars == <<menu, shown, raw, informed, actual, flight, sent, requests, changes, doubt, away>>

None == "none"
Names == menu.names
KeyMates(n) == {k \in Names : menu.key[k] = menu.key[n]}

\* The settings a command gives the device a value for.
Owned(c) == {c.name} \cup c.fromShown \cup c.fromRaw \cup c.forces \cup c.tells
\* The settings an answer shows.
Answered(c) ==
  c.tells \cup (IF c.on = "first" \/ (c.on = "second" /\ c.stages = 2) THEN {c.shows} ELSE {})

\* The settings a command gives a value other than the one kept of them.
Overwrites(c) == c.forces \cup (IF c.off \in {"stays", "covers"} THEN c.fromRaw ELSE {})

\* The commands of a plan, and of a menu.
CommandsOf(plan) == UNION {{cmds[i] : i \in DOMAIN cmds} : cmds \in plan}
CommandsIn(m) == UNION {CommandsOf(m.plan[n]) : n \in m.names}
\* Whenever an answer shows n, it writes the raw parameter of n as well.
Mirrored(m, n) ==
  /\ \A c \in CommandsIn(m) : n \in Answered(c) => c.back /\ m.key[n] = m.key[c.name]
  /\ \A c \in CommandsOf(m.plan[n]) : ~c.edits
\* The answer of c shows n as it was sent, or writes the parameter n is read from.
Confirmed(m, c, n) ==
  \/ n \in Answered(c)
  \/ c.back /\ m.key[n] = m.key[c.name] /\ (c.name \in m.objects \/ Mirrored(m, n))
\* Setters and answers are right, up to the listed defects: a command sends the value
\* asked for and its answer shows that value; it sends other settings as they are
\* shown, or its answer shows what it made of them.
Truthful(m) ==
  \A c \in CommandsIn(m) :
    /\ c.shows = c.name
    /\ c.name \in m.listed["left_to_report"] \/ Confirmed(m, c, c.name)
    /\ (c.stages = 2 /\ c.on = "first") => c.name \in m.listed["hub_answer"]
    /\ (c.keepsOne \/ c.off \notin {"clears", "covers"}) => c.name \in m.listed["stays_on"]
    /\ \A n \in Overwrites(c) : n \in m.listed["overwritten"] \/ Confirmed(m, c, n)
    /\ \A n \in c.fromRaw :
         n \in m.listed["raw_behind"] \/ Mirrored(m, n) \/ Confirmed(m, c, n)

Known(n) == n \in informed
Stored(n) == IF Known(n) THEN raw[n] ELSE 0
\* Whether another flag of the parameter is on, and whether just one flag is.
AnotherOn(c, rest) == rest > 0 \/ \E n \in c.fromRaw : Stored(n) = 1
OneOn(c, rest) == Cardinality({n \in c.fromRaw \cup {c.name} : Stored(n) = 1}) + rest = 1
\* Mutant: the flag is added to the mask although it is set already.
OwnFlagAdded(c, value, rest) == value + Stored(c.name)
\* The flag of the setting itself, which for some models is toggled, not set; an
\* unknown mask is raised to a floor that has none of the flags.
OwnFlag(c, value, rest) ==
  LET floored == c.unknown = "floor" /\ ~Known(c.name)
      staysOn == c.off = "stays" \/ (c.keepsOne /\ ~AnotherOn(c, rest))
      asItIs == c.off = "unlessOne" /\ OneOn(c, rest)
  IN  IF floored THEN 0 ELSE IF value = 1 \/ staysOn THEN 1 ELSE IF asItIs THEN Stored(c.name)
      ELSE IF c.off \in {"clears", "covers"} THEN 0 ELSE 1 - Stored(c.name)
\* Mutant: the command is made from a fresh record instead of the stored one.
OtherFlagFresh(c, n, value) ==
  CASE c.off = "stays" -> 1 - value
    [] c.off = "covers" -> 1
    [] OTHER -> 0
\* The flags sent along with it.
OtherFlag(c, n, value) ==
  CASE c.off = "stays" -> 1 - value
    [] c.off = "covers" -> 1
    [] OTHER -> Stored(n)
\* The values a command carries; given are the ones the setter makes up.
Carried(c, value, given, rest) ==
  [n \in Owned(c) |->
     IF n = c.name THEN OwnFlag(c, value, rest)
     ELSE IF n \in c.forces \cup c.tells THEN given[n]
     ELSE IF n \in c.fromRaw THEN OtherFlag(c, n, value)
     ELSE shown[n]]

Message(id, c, value, given, rest) ==
  [id |-> id, state |-> "queued", command |-> c, value |-> value,
   vals |-> Carried(c, value, given, rest)]

\* Settings of a message that each of the defects concerns.
Affected(m, defect) ==
  LET c == m.command
  IN  CASE defect = "stays_on" -> {n \in {c.name} : m.vals[n] # m.value}
        [] defect = "overwritten" -> Overwrites(c)
        [] defect = "raw_behind" -> {n \in c.fromRaw : raw[n] # shown[n]}
        [] defect = "hub_answer" -> {n \in {c.name} : c.stages = 2 /\ c.on = "first"}
        [] defect = "left_to_report" -> {c.name} \ Answered(c)
\* A command sends along the value of a setting as it was before an earlier command
\* that is still pending.
Overtaken(m, pending) ==
  {n \in Owned(m.command) \ ({m.command.name} \cup m.command.tells) :
     \E k \in pending : k.id < m.id /\ n \in Owned(k.command)}
\* What a message puts in doubt: settings it overtakes, and those for which the menu
\* lists the defect at hand.
Unsure(m, pending) ==
  Overtaken(m, pending) \cup UNION {Affected(m, d) \cap menu.listed[d] : d \in Defects}

Dropped(cmds) ==
  cmds = <<>> \/ \E i \in DOMAIN cmds : cmds[i].unknown = "drop" /\ ~Known(cmds[i].name)

Init ==
  /\ menu \in Menus
  /\ \E known \in BOOLEAN :
       /\ informed = IF known THEN Names ELSE {}
       /\ doubt = IF known THEN {} ELSE Names
       /\ actual \in [Names -> Values]
       /\ shown \in [Names -> Values]
       /\ known => shown = actual
       /\ raw = shown
  /\ flight = {} /\ sent = 0 /\ requests = 0 /\ changes = 0 /\ away = None

\* The messages of a request to set p: a command the setter adds for another setting
\* switches that setting on.
NewMessages(cmds, p, value, given, rest) ==
  {Message(sent + i, cmds[i], IF cmds[i].name = p THEN value ELSE 1, given, rest) :
     i \in DOMAIN cmds}

\* An application changes setting p: setDeviceProperty or setStationProperty.
Request(p, value) ==
  /\ requests < MaxRequests
  /\ \E cmds \in menu.plan[p], given \in [Names -> Values], rest \in menu.others :
       LET new == NewMessages(cmds, p, value, given, rest)
       IN  /\ ~Dropped(cmds)
           /\ flight' = flight \cup new
           /\ doubt' = doubt \cup UNION {Unsure(m, flight') : m \in new}
           /\ raw' = [raw EXCEPT ![p] = IF \E m \in new : m.command.edits THEN value ELSE @]
           /\ sent' = sent + Len(cmds)
  /\ requests' = requests + 1 /\ away' = None
  /\ UNCHANGED <<menu, shown, informed, actual, changes>>

\* NotSupportedError, or a setter that returns without sending.
TurnAway(p) ==
  /\ requests < MaxRequests
  /\ menu.plan[p] = {} \/ <<>> \in menu.plan[p]
  /\ requests' = requests + 1 /\ away' = p
  /\ UNCHANGED <<menu, shown, raw, informed, actual, flight, sent, changes, doubt>>

Waiting(m) == m.state \in {"queued", "accepted"}
Done(m) == m.state \in {"ok", "failed"}
Oldest(m, Stage(_)) == m \in flight /\ Stage(m) /\ \A k \in flight : Stage(k) => m.id <= k.id
Advance(m, state) == flight' = (flight \ {m}) \cup {[m EXCEPT !.state = state]}

\* Mutant: the hub's acceptance shows a value that only the device's answer should.
HubAcceptsShows(m) ==
  /\ Oldest(m, Waiting) /\ m.command.stages = 2 /\ m.state = "queued"
  /\ Advance(m, "accepted")
  /\ shown' = [shown EXCEPT ![m.command.shows] = m.value]
  /\ UNCHANGED <<menu, raw, informed, actual, sent, requests, changes, doubt, away>>

\* The hub accepts a command it passes on: onStationCommandResult.
HubAccepts(m) ==
  /\ Oldest(m, Waiting) /\ m.command.stages = 2 /\ m.state = "queued"
  /\ Advance(m, "accepted")
  /\ shown' = [shown EXCEPT ![m.command.shows] = IF m.command.on = "first" THEN m.value ELSE @]
  /\ UNCHANGED <<menu, raw, informed, actual, sent, requests, changes, doubt, away>>

\* The device executes the oldest command, or refuses it.
DeviceTakes(m) ==
  /\ Oldest(m, Waiting) /\ (m.command.stages = 2 => m.state = "accepted")
  /\ UNCHANGED <<menu, shown, raw, informed, sent, requests, changes, doubt, away>>
  /\ \/ /\ Advance(m, "failed") /\ UNCHANGED actual
     \/ /\ Advance(m, "ok")
        /\ actual' = [n \in Names |-> IF n \in Owned(m.command) THEN m.vals[n] ELSE actual[n]]
CommandLost(m) ==
  /\ m \in flight /\ Waiting(m)
  /\ flight' = flight \ {m}
  /\ UNCHANGED <<menu, shown, raw, informed, actual, sent, requests, changes, doubt, away>>

\* The answer's onSuccess writes the sent record to the raw parameter, which
\* refreshes what is shown of it when it differs from the record kept; then the
\* property data of the command is shown.
WritesBack(m) ==
  LET c == m.command
      record == {n \in Owned(c) : n \in KeyMates(c.name)}
  IN  IF /\ c.back
         /\ \/ ~(record \subseteq informed) \/ c.name \in menu.objects
            \/ \E n \in record : raw[n] # m.vals[n]
      THEN record ELSE {}
AnswerArrives(m) ==
  /\ Oldest(m, Done)
  /\ flight' = flight \ {m}
  /\ IF m.state = "ok"
     THEN LET back == WritesBack(m)
              told == Answered(m.command)
          IN  /\ raw' = [n \in Names |-> IF n \in back THEN m.vals[n] ELSE raw[n]]
              /\ informed' = informed \cup back
              /\ shown' = [n \in Names |->
                   IF n \in told /\ n = m.command.shows THEN m.value
                   ELSE IF n \in told \cup back THEN m.vals[n] ELSE shown[n]]
     ELSE UNCHANGED <<shown, raw, informed>>
  /\ UNCHANGED <<menu, actual, sent, requests, changes, doubt, away>>
AnswerLost(m) ==
  /\ m \in flight /\ Done(m)
  /\ flight' = flight \ {m}
  /\ doubt' = IF m.state = "ok" THEN doubt \cup Owned(m.command) ELSE doubt
  /\ UNCHANGED <<menu, shown, raw, informed, actual, sent, requests, changes, away>>

\* Another client changes a setting.
AppChanges(n) ==
  /\ changes < MaxChanges
  /\ actual' = [actual EXCEPT ![n] = 1 - @]
  /\ changes' = changes + 1
  /\ doubt' = doubt \cup {n}
  /\ UNCHANGED <<menu, shown, raw, informed, flight, sent, requests, away>>

\* The parameters of a poll, or of the cloud: only one that differs from the
\* value kept of it refreshes the properties read from it.
Differs(n) == ~Known(n) \/ n \in menu.objects \/ raw[n] # actual[n]
Refreshed == {n \in Names : \E k \in KeyMates(n) : Differs(k)}
Report ==
  /\ Refreshed # {}
  /\ raw' = [n \in Names |-> IF n \in Refreshed THEN actual[n] ELSE raw[n]]
  /\ shown' = [n \in Names |-> IF n \in Refreshed THEN actual[n] ELSE shown[n]]
  /\ informed' = informed \cup Refreshed
  /\ doubt' = {n \in doubt : \/ n \notin Refreshed
                          \/ \E m \in flight : n \in Owned(m.command) \cup {m.command.shows}}
  /\ UNCHANGED <<menu, actual, flight, sent, requests, changes, away>>

Next ==
  \/ \E p \in Names, value \in Values : Request(p, value)
  \/ \E p \in Names : TurnAway(p)
  \/ \E m \in flight :
       HubAccepts(m) \/ DeviceTakes(m) \/ CommandLost(m) \/ AnswerArrives(m) \/ AnswerLost(m)
  \/ \E n \in Names : AppChanges(n)
  \/ Report
Spec == Init /\ [][Next]_vars

States == {"queued", "accepted", "ok", "failed"}
Messages ==
  [id : Nat, state : States, command : CommandOf(Names), value : Values,
   vals : UNION {[S -> Values] : S \in SUBSET Names}]
\* The variables hold what their comments say: commands in flight have distinct
\* numbers, are about the menu's settings and carry a value for each they own.
TypeOK ==
  /\ menu.plan \in [Names -> SUBSET Seq(CommandOf(Names))]
  /\ shown \in [Names -> Values] /\ raw \in [Names -> Values] /\ actual \in [Names -> Values]
  /\ informed \subseteq Names /\ doubt \subseteq Names
  /\ sent \in Nat /\ requests \in Nat /\ changes \in Nat /\ away \in Names \cup {None}
  /\ flight \subseteq Messages
  /\ \A m \in flight : m.id <= sent /\ DOMAIN m.vals = Owned(m.command)
  /\ \A m, k \in flight : m.id = k.id => m = k

\* With nothing in flight the library shows what the device is set to.  Excused, until
\* a report refreshes it, is a setting that another client changed, whose answer was
\* lost, of which nothing is known yet, that a command sent along as it was before
\* another pending one (Overtaken), or for which the menu lists the very defect the
\* command runs into.  Any other value a setter sends wrongly, any answer rule that
\* shows what was not sent, and a record written back wrongly breaks it.
ShownIsActual ==
  flight = {} => \A n \in Names \ doubt : shown[n] = actual[n]

\* A setting the metadata declares writeable is sent when an application changes it,
\* unless Unserved lists it for this very model and hub.
Served == away # None => Append(menu.of, away) \in Unserved

\* No two settings of a device are sent as one and the same command, so that
\* changing one would change the other.
Distinct == ~menu.clash

\* The commands, answers and reports keep to the contract of SettingContract; a
\* setting is open from its change at the device until that change is answered.
Open == UNION {Owned(m.command) : m \in {k \in flight : k.state = "ok"}}
C == INSTANCE SettingContract WITH
       setting <- actual, known <- shown, open <- Open, doubt <- doubt
Contract == C!Spec
==============================================================================
