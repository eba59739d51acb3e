---------------------------- MODULE SettingsProofs ----------------------------
(*
 What the settings library shows is what the device has, for any number of requests:
 ShownIsActual is an invariant and every step is one the contract allows, provided
 that the menus are truthful, which is a condition on single commands.  The
 strengthening follows each command in flight: the last one the device executed
 determines what the device has; what a command sends along is what is shown, or
 its answer will show it; its answer shows the value it carried; and a raw parameter
 that every answer writes is what is shown of it.
*)
EXTENDS Settings, TLAPS

IsOk(m) == m.state = "ok"
OwnedBy(m) == Owned(m.command)
\* m is the last command with a value of n that the device executed.
LastOwner(m, n) ==
  /\ m \in flight /\ IsOk(m) /\ n \in OwnedBy(m)
  /\ \A k \in flight : IsOk(k) /\ n \in OwnedBy(k) => k.id <= m.id

\* Where nothing of a setting is on its way the two sides agree, and otherwise the
\* last command executed is what the device has.
Tracked ==
  \A n \in Names \ doubt :
    /\ (\A m \in flight : IsOk(m) => n \notin OwnedBy(m)) => shown[n] = actual[n]
    /\ \A m \in flight : LastOwner(m, n) => m.vals[n] = actual[n]
\* What a command sends along is what is shown, or its answer will show it, unless
\* a later command has overtaken it.
Along(m) == OwnedBy(m) \ ({m.command.name} \cup m.command.tells)
SentAsShown ==
  \A m \in flight : \A n \in Along(m) \ doubt :
    /\ \A k \in flight : n \in OwnedBy(k) => m.id <= k.id
    /\ \/ m.vals[n] = shown[n]
       \/ Confirmed(menu, m.command, n)
       \/ \E k \in flight : IsOk(k) /\ n \in OwnedBy(k) /\ m.id < k.id
\* The answer of a command shows the value the command carried, and nothing before it does.
Answerable ==
  \A m \in flight : m.command.name \notin doubt =>
    /\ Confirmed(menu, m.command, m.command.name)
    /\ m.vals[m.command.name] = m.value
    /\ ~(m.command.stages = 2 /\ m.command.on = "first")
\* The raw parameters of what is not in doubt are known, and the ones that every
\* answer writes agree with what is shown.
InStep ==
  \A n \in Names \ doubt : Known(n) /\ (Mirrored(menu, n) => raw[n] = shown[n])
Planned == \A m \in flight : m.command \in CommandsIn(menu)
\* Commands are executed in the order in which they were sent.
InOrder == \A m, k \in flight : Done(m) /\ Waiting(k) => m.id < k.id
IInv ==
  /\ TypeOK /\ Truthful(menu) /\ Planned
  /\ Tracked /\ SentAsShown /\ Answerable /\ InStep /\ InOrder

\* What TypeOK says of one command.
LEMMA MessageType ==
  ASSUME TypeOK, NEW m \in flight
  PROVE  /\ m.id \in Nat /\ m.id <= sent /\ m.command \in CommandOf(Names) /\ m.state \in States
         /\ m.value \in Values /\ m.vals \in [OwnedBy(m) -> Values] /\ m \in Messages
<1>1. m \in Messages /\ DOMAIN m.vals = OwnedBy(m) /\ m.id <= sent
  BY DEF TypeOK, OwnedBy
<1>2. PICK S \in SUBSET Names : m.vals \in [S -> Values]
  BY <1>1 DEF Messages
<1>3. S = OwnedBy(m)
  BY <1>1, <1>2
<1> QED
  BY <1>1, <1>2, <1>3 DEF Messages

\* The settings a command owns, answers and writes back are settings of the menu.
LEMMA OwnedNames ==
  ASSUME NEW c \in CommandOf(Names)
  PROVE  /\ Owned(c) \subseteq Names /\ Answered(c) \subseteq Names
         /\ c.name \in Owned(c) /\ c.tells \subseteq Owned(c) /\ c.fromRaw \subseteq Owned(c)
         /\ c.name \in Names /\ c.shows \in Names
         /\ Answered(c) \subseteq Owned(c) \cup {c.shows} /\ c.tells \subseteq Answered(c)
BY DEF Owned, Answered, CommandOf

\* What Truthful says of a command in flight.
LEMMA TruthOf ==
  ASSUME IInv, NEW m \in flight
  PROVE  m.command.shows = m.command.name
BY DEF IInv, Planned, Truthful

\* Initially nothing is in flight, and what is known is right.
LEMMA InitType == Init => TypeOK
<1> SUFFICES ASSUME Init PROVE TypeOK
  OBVIOUS
<1>1. menu \in Menus /\ menu.plan \in [Names -> SUBSET Seq(CommandOf(Names))]
  BY MenusAssumption DEF Init, Names
<1> QED
  BY <1>1 DEF Init, TypeOK, None

LEMMA InitInv ==
  ASSUME \A m \in Menus : Truthful(m), Init
  PROVE  IInv
<1>1. TypeOK
  BY InitType
<1>2. Truthful(menu)
  BY DEF Init
<1>3. Tracked
  BY DEF Init, Tracked, LastOwner
<1>4. SentAsShown /\ Answerable /\ InOrder /\ Planned
  BY DEF Init, SentAsShown, Answerable, InOrder, Planned
<1>5. InStep
  BY DEF Init, InStep, Known
<1> QED
  BY <1>1, <1>2, <1>3, <1>4, <1>5 DEF IInv

\* A command that goes on to the next state keeps everything else.
LEMMA AdvanceShape ==
  ASSUME TypeOK, NEW m \in flight, NEW s \in States, Advance(m, s), UNCHANGED <<menu, sent>>
  PROVE  /\ LET n == [m EXCEPT !.state = s]
            IN  /\ n \in flight' /\ n \in Messages /\ n.id = m.id /\ n.state = s
                /\ n.command = m.command /\ n.value = m.value /\ n.vals = m.vals
         /\ \A k \in flight' : k \in flight \ {m} \/ k = [m EXCEPT !.state = s]
         /\ flight \ {m} \subseteq flight'
         /\ flight' \subseteq Messages'
         /\ \A k \in flight' : k.id <= sent' /\ DOMAIN k.vals = Owned(k.command)
         /\ \A j, k \in flight' : j.id = k.id => j = k
<1>1. m \in Messages
  BY DEF TypeOK
<1> DEFINE n == [m EXCEPT !.state = s]
<1>2. n \in Messages /\ n.id = m.id /\ n.state = s /\ n.command = m.command /\ n.value = m.value
      /\ n.vals = m.vals
  BY <1>1 DEF Messages
<1>3. flight' = (flight \ {m}) \cup {n}
  BY DEF Advance
<1>4. Messages' = Messages
  BY DEF Messages, Names, CommandOf
<1> HIDE DEF n
<1>5. flight' \subseteq Messages'
  BY <1>2, <1>3, <1>4 DEF TypeOK
<1>6. \A k \in flight' : k.id <= sent' /\ DOMAIN k.vals = Owned(k.command)
  BY <1>2, <1>3 DEF TypeOK
<1>7. \A j, k \in flight' : j.id = k.id => j = k
  BY <1>2, <1>3 DEF TypeOK
<1> QED
  BY <1>2, <1>3, <1>5, <1>6, <1>7 DEF n

\* The oldest command of a stage comes before every other command of that stage.
LEMMA OldestFirst ==
  ASSUME TypeOK, NEW m \in flight, NEW k \in flight, k # m,
         \/ Oldest(m, Waiting) /\ Waiting(k)
         \/ Oldest(m, Done) /\ Done(k)
  PROVE  m.id < k.id
<1>1. m.id <= k.id
  BY DEF Oldest
<1>2. m.id # k.id
  BY DEF TypeOK
<1>3. m.id \in Nat /\ k.id \in Nat
  BY MessageType
<1> QED
  BY <1>1, <1>2, <1>3

\* Each kind of step keeps the variables well formed.
LEMMA HubAcceptsType ==
  ASSUME TypeOK, NEW m \in flight, HubAccepts(m)
  PROVE  TypeOK'
<1>1. /\ flight' \subseteq Messages'
      /\ \A k \in flight' : k.id <= sent' /\ DOMAIN k.vals = Owned(k.command)
      /\ \A j, k \in flight' : j.id = k.id => j = k
  BY AdvanceShape DEF HubAccepts, States
<1>2. m.command \in CommandOf(Names) /\ m.value \in Values /\ m.command.shows \in Names
  BY MessageType, OwnedNames
<1>3. Names' = Names /\ menu' = menu /\ sent' = sent /\ actual' = actual
      /\ shown' = [shown EXCEPT ![m.command.shows] = IF m.command.on = "first" THEN m.value ELSE @]
  BY DEF HubAccepts, Names
<1>4. shown' \in [Names -> Values]
  BY <1>2, <1>3 DEF TypeOK
<1> QED
  BY <1>1, <1>3, <1>4, ZenonT(40) DEF HubAccepts, TypeOK, CommandOf

LEMMA DeviceTakesType ==
  ASSUME TypeOK, NEW m \in flight, DeviceTakes(m)
  PROVE  TypeOK'
<1>1. PICK s \in {"ok", "failed"} :
        /\ Advance(m, s)
        /\ s = "failed" => actual' = actual
        /\ s = "ok" => actual' = [n \in Names |-> IF n \in OwnedBy(m) THEN m.vals[n] ELSE actual[n]]
  BY DEF DeviceTakes, OwnedBy
<1>2. s \in States /\ menu' = menu /\ shown' = shown /\ sent' = sent /\ Names' = Names
  BY DEF DeviceTakes, States, Names
<1>3. /\ flight' \subseteq Messages'
      /\ \A k \in flight' : k.id <= sent' /\ DOMAIN k.vals = Owned(k.command)
      /\ \A j, k \in flight' : j.id = k.id => j = k
  BY <1>1, <1>2, AdvanceShape
<1>4. m.vals \in [OwnedBy(m) -> Values] /\ OwnedBy(m) \subseteq Names
  BY MessageType, OwnedNames DEF OwnedBy
<1>5. actual' \in [Names -> Values]
  BY <1>1, <1>4 DEF TypeOK
<1> QED
  BY <1>2, <1>3, <1>5 DEF DeviceTakes, TypeOK, CommandOf

LEMMA LostType ==
  ASSUME TypeOK, NEW m \in flight, CommandLost(m) \/ AnswerLost(m)
  PROVE  TypeOK'
<1>1. /\ flight' = flight \ {m} /\ menu' = menu /\ shown' = shown /\ raw' = raw
      /\ actual' = actual /\ informed' = informed /\ sent' = sent /\ away' = away
      /\ requests' = requests /\ changes' = changes
  BY DEF CommandLost, AnswerLost
<1>2. Names' = Names /\ Messages' = Messages
  BY <1>1 DEF Names, Messages, CommandOf
<1>3. OwnedBy(m) \subseteq Names
  BY MessageType, OwnedNames DEF OwnedBy
<1>4. doubt' \subseteq Names
  BY <1>3 DEF CommandLost, AnswerLost, TypeOK, OwnedBy
<1> QED
  BY <1>1, <1>2, <1>4 DEF TypeOK, CommandOf

LEMMA AppChangesType ==
  ASSUME TypeOK, NEW n \in Names, AppChanges(n)
  PROVE  TypeOK'
<1>1. /\ flight' = flight /\ menu' = menu /\ doubt' = doubt \cup {n} /\ shown' = shown /\ sent' = sent
      /\ actual' = [actual EXCEPT ![n] = 1 - @] /\ Names' = Names /\ Messages' = Messages
  BY DEF AppChanges, Names, Messages, CommandOf
<1>2. actual' \in [Names -> Values]
  BY <1>1 DEF TypeOK, Values
<1>3. requests' \in Nat /\ changes' \in Nat /\ doubt' \subseteq Names /\ raw' = raw
      /\ away' \in Names \cup {None} /\ informed' = informed
  BY DEF AppChanges, TypeOK
<1> QED
  BY <1>1, <1>2, <1>3 DEF TypeOK

LEMMA TurnAwayType ==
  ASSUME TypeOK, NEW p \in Names, TurnAway(p)
  PROVE  TypeOK'
<1>1. /\ flight' = flight /\ menu' = menu /\ doubt' = doubt /\ shown' = shown /\ sent' = sent
      /\ actual' = actual /\ Names' = Names /\ Messages' = Messages
  BY DEF TurnAway, Names, Messages, CommandOf
<1>2. requests' \in Nat /\ changes' \in Nat /\ raw' = raw
      /\ away' \in Names \cup {None} /\ informed' = informed
  BY DEF TurnAway, TypeOK
<1> QED
  BY <1>1, <1>2 DEF TypeOK

\* What an answer makes of each setting.
LEMMA AnswerValues ==
  ASSUME TypeOK, NEW m \in flight, AnswerArrives(m), IsOk(m)
  PROVE  /\ WritesBack(m) \subseteq OwnedBy(m)
         /\ raw' = [n \in Names |-> IF n \in WritesBack(m) THEN m.vals[n] ELSE raw[n]]
         /\ informed' = informed \cup WritesBack(m)
         /\ raw' \in [Names -> Values] /\ informed' \subseteq Names
         /\ shown' \in [Names -> Values]
         /\ \A x \in Names :
              \/ x \in Answered(m.command) /\ x = m.command.shows /\ shown'[x] = m.value
              \/ /\ x \in OwnedBy(m) /\ x \in Answered(m.command) \cup WritesBack(m)
                 /\ shown'[x] = m.vals[x]
              \/ x \notin Answered(m.command) \cup WritesBack(m) /\ shown'[x] = shown[x]
<1> DEFINE back == WritesBack(m)
           told == Answered(m.command)
<1>1. /\ m.command \in CommandOf(Names) /\ m.value \in Values
      /\ m.vals \in [OwnedBy(m) -> Values] /\ OwnedBy(m) \subseteq Names
      /\ told \subseteq OwnedBy(m) \cup {m.command.shows}
  BY MessageType, OwnedNames DEF OwnedBy
<1>2. back \subseteq OwnedBy(m)
  BY DEF WritesBack, OwnedBy
<1>3. /\ raw' = [n \in Names |-> IF n \in back THEN m.vals[n] ELSE raw[n]]
      /\ informed' = informed \cup back
      /\ shown' = [n \in Names |->
           IF n \in told /\ n = m.command.shows THEN m.value
           ELSE IF n \in told \cup back THEN m.vals[n] ELSE shown[n]]
  BY DEF AnswerArrives, IsOk
<1> HIDE DEF back, told
<1>4. raw' \in [Names -> Values] /\ informed' \subseteq Names
  BY <1>1, <1>2, <1>3 DEF TypeOK
<1>5. \A x \in Names : \/ x \in told /\ x = m.command.shows /\ shown'[x] = m.value
                       \/ x \in OwnedBy(m) /\ x \in told \cup back /\ shown'[x] = m.vals[x]
                       \/ x \notin told \cup back /\ shown'[x] = shown[x]
  <2> SUFFICES ASSUME NEW x \in Names
               PROVE  \/ x \in told /\ x = m.command.shows /\ shown'[x] = m.value
                      \/ x \in OwnedBy(m) /\ x \in told \cup back /\ shown'[x] = m.vals[x]
                      \/ x \notin told \cup back /\ shown'[x] = shown[x]
    OBVIOUS
  <2>1. CASE x \in told /\ x = m.command.shows
    BY <1>3, <2>1
  <2>2. CASE ~(x \in told /\ x = m.command.shows) /\ x \in told \cup back
    <3>1. x \in OwnedBy(m)
      BY <1>1, <1>2, <2>2
    <3> QED
      BY <1>3, <2>2, <3>1
  <2>3. CASE x \notin told \cup back
    BY <1>3, <2>3
  <2> QED
    BY <2>1, <2>2, <2>3
<1>6. shown' \in [Names -> Values]
  <2>1. \A x \in Names : shown'[x] \in Values
    BY <1>1, <1>5 DEF TypeOK
  <2>2. shown' = [x \in Names |-> shown'[x]]
    BY <1>3
  <2> QED
    BY <2>1, <2>2
<1> QED
  BY <1>2, <1>3, <1>4, <1>5, <1>6 DEF back, told

LEMMA AnswerArrivesType ==
  ASSUME TypeOK, NEW m \in flight, AnswerArrives(m)
  PROVE  TypeOK'
<1>1. /\ flight' = flight \ {m} /\ menu' = menu /\ doubt' = doubt /\ actual' = actual /\ sent' = sent
      /\ Names' = Names /\ Messages' = Messages
  BY DEF AnswerArrives, Names, Messages, CommandOf
<1>2. shown' \in [Names -> Values] /\ raw' \in [Names -> Values] /\ informed' \subseteq Names
  BY AnswerValues DEF AnswerArrives, IsOk, TypeOK
<1> QED
  BY <1>1, <1>2 DEF AnswerArrives, TypeOK, CommandOf

LEMMA ReportType ==
  ASSUME TypeOK, Report
  PROVE  TypeOK'
<1>1. /\ flight' = flight /\ menu' = menu /\ actual' = actual /\ sent' = sent
      /\ requests' = requests /\ changes' = changes /\ away' = away
      /\ Names' = Names /\ Messages' = Messages
      /\ doubt' \subseteq doubt
      /\ shown' = [n \in Names |-> IF n \in Refreshed THEN actual[n] ELSE shown[n]]
      /\ raw' = [n \in Names |-> IF n \in Refreshed THEN actual[n] ELSE raw[n]]
      /\ informed' = informed \cup Refreshed /\ Refreshed \subseteq Names
  BY DEF Report, Names, Messages, CommandOf, Refreshed
<1>2. shown' \in [Names -> Values] /\ raw' \in [Names -> Values]
  BY <1>1 DEF TypeOK
<1>3. informed' \subseteq Names /\ doubt' \subseteq Names
  BY <1>1 DEF TypeOK
<1>4. /\ menu'.plan \in [Names -> SUBSET Seq(CommandOf(Names))]
      /\ actual' \in [Names -> Values]
      /\ sent' \in Nat /\ requests' \in Nat /\ changes' \in Nat /\ away' \in Names \cup {None}
      /\ flight' \subseteq Messages
  BY <1>1 DEF TypeOK
<1>5. /\ \A m \in flight' : m.id =< sent' /\ DOMAIN m.vals = Owned(m.command)
      /\ \A m, k \in flight' : m.id = k.id => m = k
  BY <1>1 DEF TypeOK
<1> QED
  BY <1>1, <1>2, <1>3, <1>4, <1>5 DEF TypeOK, CommandOf

\* A command sends the value asked for.
Straight(c) == ~c.keepsOne /\ c.off \in {"clears", "covers"} /\ Known(c.name)

\* What a new command carries.
LEMMA MessageShape ==
  ASSUME TypeOK, NEW c \in CommandOf(Names), NEW id \in Nat, NEW value \in Values,
         NEW given \in [Names -> Values], NEW rest
  PROVE  LET m == Message(id, c, value, given, rest)
         IN  /\ m.id = id /\ m.state = "queued" /\ m.command = c /\ m.value = value
             /\ m.vals \in [Owned(c) -> Values] /\ m \in Messages
             /\ Straight(c) => m.vals[c.name] = value
             /\ \A n \in Along(m) \ Overwrites(c) :
                  m.vals[n] = IF n \in c.fromRaw THEN Stored(n) ELSE shown[n]
<1> DEFINE m == Message(id, c, value, given, rest)
<1>1. m.id = id /\ m.state = "queued" /\ m.command = c /\ m.value = value
      /\ m.vals = Carried(c, value, given, rest)
  BY DEF Message
<1>2. Owned(c) \subseteq Names /\ c.name \in Owned(c)
  BY OwnedNames
<1>3. \A n \in Names : Stored(n) \in Values
  BY DEF TypeOK, Stored, Values
<1>4. OwnFlag(c, value, rest) \in Values
  BY <1>2, <1>3 DEF OwnFlag, Values
<1>4a. Straight(c) => OwnFlag(c, value, rest) = value
  BY DEF OwnFlag, Values, Straight
<1>5. \A n \in Names : OtherFlag(c, n, value) \in Values
  BY <1>3 DEF OtherFlag, Values
<1>6. \A n \in Names : shown[n] \in Values /\ given[n] \in Values
  BY DEF TypeOK
<1> HIDE DEF m
<1>7. m.vals \in [Owned(c) -> Values]
  BY <1>1, <1>2, <1>4, <1>5, <1>6 DEF Carried
<1>8. Straight(c) => m.vals[c.name] = value
  BY <1>1, <1>2, <1>4a DEF Carried
<1>9. \A n \in Along(m) \ Overwrites(c) :
        m.vals[n] = IF n \in c.fromRaw THEN Stored(n) ELSE shown[n]
  BY <1>1 DEF Carried, Along, OwnedBy, OtherFlag, Overwrites
<1>10. m \in Messages
  <2>1. m = [id |-> id, state |-> "queued", command |-> c, value |-> value, vals |-> m.vals]
    BY DEF m, Message
  <2>2. m.vals \in UNION {[S -> Values] : S \in SUBSET Names}
    BY <1>2, <1>7
  <2> QED
    BY <2>1, <2>2 DEF Messages, States
<1> QED
  BY <1>1, <1>7, <1>8, <1>9, <1>10 DEF m

\* A request: what it adds to the commands in flight.
LEMMA RequestShape ==
  ASSUME TypeOK, NEW p \in Names, NEW value \in Values, Request(p, value)
  PROVE  \E new :
           /\ flight' = flight \cup new /\ sent' \in Nat /\ sent <= sent'
           /\ menu' = menu /\ shown' = shown /\ actual' = actual /\ informed' = informed
           /\ Names' = Names /\ Messages' = Messages
           /\ doubt \subseteq doubt' /\ doubt' \subseteq Names /\ raw' \in [Names -> Values]
           /\ raw' = [raw EXCEPT ![p] = IF \E m \in new : m.command.edits THEN value ELSE @]
           /\ new \subseteq Messages
           /\ \A m, k \in new : m.id = k.id => m = k
           /\ \A m \in new :
                /\ sent < m.id /\ m.id <= sent' /\ m.state = "queued"
                /\ m.command \in CommandOf(Names) /\ m.command \in CommandsOf(menu.plan[p])
                /\ m.vals \in [OwnedBy(m) -> Values] /\ m.value \in Values
                /\ Straight(m.command) => m.vals[m.command.name] = m.value
                /\ \A n \in Along(m) \ Overwrites(m.command) :
                     m.vals[n] = IF n \in m.command.fromRaw THEN Stored(n) ELSE shown[n]
                /\ Unsure(m, flight') \subseteq doubt'
<1>1. PICK cmds \in menu.plan[p], given \in [Names -> Values], rest \in menu.others :
        LET new == NewMessages(cmds, p, value, given, rest)
        IN  /\ flight' = flight \cup new
            /\ doubt' = doubt \cup UNION {Unsure(m, flight') : m \in new}
            /\ raw' = [raw EXCEPT ![p] = IF \E m \in new : m.command.edits THEN value ELSE @]
            /\ sent' = sent + Len(cmds)
  BY DEF Request
<1> DEFINE new == NewMessages(cmds, p, value, given, rest)
<1>2. cmds \in Seq(CommandOf(Names)) /\ sent \in Nat
  BY DEF TypeOK
<1>3. DOMAIN cmds = 1 .. Len(cmds) /\ Len(cmds) \in Nat /\ \A i \in DOMAIN cmds : cmds[i] \in CommandOf(Names)
  BY <1>2
<1>4. ASSUME NEW m \in new
      PROVE  \E i \in DOMAIN cmds :
               /\ m.id = sent + i /\ m.state = "queued" /\ m.command = cmds[i]
               /\ m = Message(sent + i, cmds[i], IF cmds[i].name = p THEN value ELSE 1, given, rest)
               /\ m.vals \in [OwnedBy(m) -> Values] /\ m \in Messages /\ m.value \in Values
               /\ Straight(m.command) => m.vals[m.command.name] = m.value
               /\ \A n \in Along(m) \ Overwrites(m.command) :
                    m.vals[n] = IF n \in m.command.fromRaw THEN Stored(n) ELSE shown[n]
  <2>1. PICK i \in DOMAIN cmds :
          m = Message(sent + i, cmds[i], IF cmds[i].name = p THEN value ELSE 1, given, rest)
    BY <1>4 DEF NewMessages
  <2> DEFINE v == IF cmds[i].name = p THEN value ELSE 1
  <2>2. v \in Values /\ sent + i \in Nat /\ cmds[i] \in CommandOf(Names)
    BY <1>2, <1>3 DEF Values
  <2> HIDE DEF v
  <2>3. m = Message(sent + i, cmds[i], v, given, rest)
    BY <2>1 DEF v
  <2>5. /\ m.id = sent + i /\ m.state = "queued" /\ m.command = cmds[i] /\ m.value = v
        /\ m.vals \in [Owned(cmds[i]) -> Values] /\ m \in Messages
        /\ Straight(cmds[i]) => m.vals[cmds[i].name] = v
        /\ \A n \in Along(m) \ Overwrites(cmds[i]) :
             m.vals[n] = IF n \in cmds[i].fromRaw THEN Stored(n) ELSE shown[n]
    BY MessageShape, <2>2, <2>3
  <2> QED
    BY <2>1, <2>2, <2>5 DEF OwnedBy
<1> HIDE DEF new
<1>5. \A m, k \in new : m.id = k.id => m = k
  <2> SUFFICES ASSUME NEW m \in new, NEW k \in new, m.id = k.id PROVE m = k
    OBVIOUS
  <2>1. PICK i \in DOMAIN cmds :
          m.id = sent + i /\ m = Message(sent + i, cmds[i], IF cmds[i].name = p THEN value ELSE 1, given, rest)
    BY <1>4
  <2>2. PICK j \in DOMAIN cmds :
          k.id = sent + j /\ k = Message(sent + j, cmds[j], IF cmds[j].name = p THEN value ELSE 1, given, rest)
    BY <1>4
  <2>3. i = j
    <3>1. sent + i = sent + j
      BY <2>1, <2>2
    <3>2. i \in Nat /\ j \in Nat
      BY <1>3
    <3> QED
      BY <1>2, <3>1, <3>2
  <2> QED
    BY <2>1, <2>2, <2>3
<1>6. \A m \in new : sent < m.id /\ m.id <= sent' /\ m.command \in CommandOf(Names)
  <2> SUFFICES ASSUME NEW m \in new PROVE sent < m.id /\ m.id <= sent' /\ m.command \in CommandOf(Names)
    OBVIOUS
  <2>1. PICK i \in DOMAIN cmds : m.id = sent + i /\ m.command = cmds[i]
    BY <1>4
  <2>2. sent' = sent + Len(cmds)
    BY <1>1
  <2> QED
    BY <1>2, <1>3, <2>1, <2>2
<1>6a. \A m \in new : m.command \in CommandsOf(menu.plan[p])
  BY <1>1, <1>4 DEF CommandsOf
<1>7. \A m \in new : Unsure(m, flight') \subseteq Names
  <2> SUFFICES ASSUME NEW m \in new PROVE Unsure(m, flight') \subseteq Names
    OBVIOUS
  <2>1. Owned(m.command) \subseteq Names
    BY <1>6, OwnedNames
  <2>2. \A d \in Defects : Affected(m, d) \subseteq Owned(m.command)
    BY DEF Affected, Overwrites, Owned, Defects
  <2> QED
    BY <2>1, <2>2 DEF Unsure, Overtaken
<1>8. flight' = flight \cup new /\ doubt' = doubt \cup UNION {Unsure(m, flight') : m \in new}
      /\ sent' = sent + Len(cmds)
      /\ raw' = [raw EXCEPT ![p] = IF \E m \in new : m.command.edits THEN value ELSE @]
  BY <1>1 DEF new
<1>9. doubt \subseteq doubt' /\ doubt' \subseteq Names /\ \A m \in new : Unsure(m, flight') \subseteq doubt'
  <2>1. doubt \subseteq Names
    BY DEF TypeOK
  <2>2. \A x : x \in doubt' <=> x \in doubt \/ \E m \in new : x \in Unsure(m, flight')
    BY <1>8, Zenon
  <2>3. doubt' \subseteq Names
    BY <1>7, <2>1, <2>2, Zenon
  <2>4. doubt \subseteq doubt' /\ \A m \in new : Unsure(m, flight') \subseteq doubt'
    BY <2>2, Zenon
  <2> QED
    BY <2>3, <2>4
<1>10. raw' \in [Names -> Values]
  BY <1>8 DEF TypeOK
<1>11. menu' = menu /\ shown' = shown /\ actual' = actual /\ informed' = informed
       /\ Names' = Names /\ Messages' = Messages
  BY DEF Request, Names, Messages, CommandOf
<1>12. sent' \in Nat /\ sent <= sent'
  BY <1>2, <1>3, <1>8
<1>13. new \subseteq Messages
  BY <1>4
<1>14. \A m \in new :
         /\ m.state = "queued" /\ m.vals \in [OwnedBy(m) -> Values] /\ m.value \in Values
         /\ Straight(m.command) => m.vals[m.command.name] = m.value
         /\ \A n \in Along(m) \ Overwrites(m.command) :
              m.vals[n] = IF n \in m.command.fromRaw THEN Stored(n) ELSE shown[n]
  BY <1>4
<1>15. \A m \in new :
           /\ sent < m.id /\ m.id <= sent' /\ m.state = "queued"
           /\ m.command \in CommandOf(Names) /\ m.command \in CommandsOf(menu.plan[p])
           /\ m.vals \in [OwnedBy(m) -> Values] /\ m.value \in Values
           /\ Straight(m.command) => m.vals[m.command.name] = m.value
           /\ \A n \in Along(m) \ Overwrites(m.command) :
                m.vals[n] = IF n \in m.command.fromRaw THEN Stored(n) ELSE shown[n]
           /\ Unsure(m, flight') \subseteq doubt'
  BY <1>6, <1>6a, <1>9, <1>14, Zenon
<1> WITNESS new
<1> QED
  BY <1>5, <1>8, <1>9, <1>10, <1>11, <1>12, <1>13, <1>15

LEMMA RequestType ==
  ASSUME TypeOK, NEW p \in Names, NEW value \in Values, Request(p, value)
  PROVE  TypeOK'
<1>1. PICK new :
           /\ flight' = flight \cup new /\ sent' \in Nat /\ sent <= sent'
           /\ menu' = menu /\ shown' = shown /\ actual' = actual /\ informed' = informed
           /\ Names' = Names /\ Messages' = Messages
           /\ doubt' \subseteq Names /\ raw' \in [Names -> Values]
           /\ new \subseteq Messages
           /\ \A m, k \in new : m.id = k.id => m = k
           /\ \A m \in new : sent < m.id /\ m.id <= sent' /\ m.vals \in [OwnedBy(m) -> Values]
  BY RequestShape
<1>2. \A m \in flight : m.id \in Nat /\ m.id <= sent /\ sent \in Nat
  BY MessageType DEF TypeOK
<1>3. \A m \in new : m.id \in Nat
  BY <1>1 DEF Messages
<1>4. \A m, k \in flight' : m.id = k.id => m = k
  <2> SUFFICES ASSUME NEW m \in flight', NEW k \in flight', m.id = k.id PROVE m = k
    OBVIOUS
  <2>1. CASE m \in flight /\ k \in flight
    BY <2>1 DEF TypeOK
  <2>2. CASE m \in new /\ k \in new
    BY <1>1, <2>2
  <2>3. CASE (m \in new /\ k \in flight) \/ (m \in flight /\ k \in new)
    BY <1>1, <1>2, <1>3, <2>3
  <2> QED
    BY <1>1, <2>1, <2>2, <2>3
<1>5. \A m \in flight' : m.id <= sent'
  <2>1. \A m \in flight : m.id <= sent'
    BY <1>1, <1>2
  <2> QED
    BY <1>1, <2>1
<1>6. \A m \in flight' : DOMAIN m.vals = Owned(m.command)
  BY <1>1 DEF TypeOK, OwnedBy
<1>7. flight' \subseteq Messages'
  BY <1>1 DEF TypeOK
<1>8. requests' \in Nat /\ changes' \in Nat /\ away' \in Names \cup {None}
  BY DEF Request, TypeOK
<1> QED
  BY <1>1, <1>4, <1>5, <1>6, <1>7, <1>8 DEF TypeOK

LEMMA TypeStep == TypeOK /\ [Next]_vars => TypeOK'
<1> SUFFICES ASSUME TypeOK, [Next]_vars PROVE TypeOK'
  OBVIOUS
<1>1. CASE \E p \in Names, value \in Values : Request(p, value)
  BY <1>1, RequestType
<1>2. CASE \E p \in Names : TurnAway(p)
  BY <1>2, TurnAwayType
<1>3. CASE \E m \in flight :
             HubAccepts(m) \/ DeviceTakes(m) \/ CommandLost(m) \/ AnswerArrives(m) \/ AnswerLost(m)
  BY <1>3, HubAcceptsType, DeviceTakesType, LostType, AnswerArrivesType
<1>4. CASE \E n \in Names : AppChanges(n)
  BY <1>4, AppChangesType
<1>5. CASE Report
  BY <1>5, ReportType
<1>6. CASE UNCHANGED vars
  <2>1. /\ menu' = menu /\ shown' = shown /\ raw' = raw /\ informed' = informed
        /\ actual' = actual /\ flight' = flight /\ sent' = sent /\ requests' = requests
        /\ changes' = changes /\ doubt' = doubt /\ away' = away
    BY <1>6 DEF vars
  <2> QED
    BY <2>1 DEF TypeOK, Names, Messages, CommandOf
<1> QED
  BY <1>1, <1>2, <1>3, <1>4, <1>5, <1>6 DEF Next

LEMMA HubAcceptsInv ==
  ASSUME IInv, NEW m \in flight, HubAccepts(m)
  PROVE  IInv'
<1> DEFINE n == [m EXCEPT !.state = "accepted"]
<1>1. /\ n \in flight' /\ n \in Messages /\ n.id = m.id /\ n.state = "accepted"
      /\ n.command = m.command /\ n.value = m.value /\ n.vals = m.vals
      /\ \A k \in flight' : k \in flight \ {m} \/ k = n
      /\ flight \ {m} \subseteq flight'
      /\ flight' \subseteq Messages'
      /\ \A k \in flight' : k.id <= sent' /\ DOMAIN k.vals = Owned(k.command)
      /\ \A j, k \in flight' : j.id = k.id => j = k
  BY AdvanceShape DEF HubAccepts, IInv, States
<1> HIDE DEF n
<1>2. m.state = "queued" /\ Oldest(m, Waiting) /\ m.command.stages = 2
      /\ menu' = menu /\ doubt' = doubt /\ actual' = actual /\ sent' = sent
      /\ shown' = [shown EXCEPT ![m.command.shows] = IF m.command.on = "first" THEN m.value ELSE @]
  BY DEF HubAccepts
<1>3. Names' = Names
  BY <1>2 DEF Names
<1>4. m.command \in CommandOf(Names) /\ m.value \in Values /\ m.command.shows \in Names
  BY MessageType, OwnedNames DEF IInv
<1>5. TypeOK'
  BY HubAcceptsType DEF IInv
<1>6. \A x \in Names \ doubt : shown'[x] = shown[x]
  <2> SUFFICES ASSUME NEW x \in Names \ doubt, x = m.command.shows, m.command.on = "first"
               PROVE  FALSE
    BY <1>2 DEF IInv, TypeOK
  <2> QED
    BY <1>2, TruthOf DEF IInv, Answerable
<1>7. \A k \in flight' : IsOk(k) => k \in flight /\ k # m
  BY <1>1 DEF IsOk
<1>8. \A k \in flight : IsOk(k) => k \in flight'
  BY <1>1, <1>2 DEF IsOk
<1>9. Tracked'
  BY <1>2, <1>3, <1>6, <1>7, <1>8 DEF IInv, Tracked, LastOwner
<1>10. SentAsShown'
  <2> SUFFICES ASSUME NEW j \in flight', NEW x \in Along(j) \ doubt
               PROVE  /\ \A k \in flight' : x \in OwnedBy(k) => j.id <= k.id
                      /\ \/ j.vals[x] = shown'[x]
                         \/ Confirmed(menu, j.command, x)
                         \/ \E k \in flight' : IsOk(k) /\ x \in OwnedBy(k) /\ j.id < k.id
    BY <1>2 DEF SentAsShown, Along, OwnedBy
  <2>1. PICK i \in flight : i.id = j.id /\ i.command = j.command /\ i.vals = j.vals
    BY <1>1
  <2>2. x \in Along(i) \ doubt /\ x \in Names
    BY <2>1, OwnedNames, MessageType DEF Along, OwnedBy, IInv
  <2>3. /\ \A k \in flight : x \in OwnedBy(k) => i.id <= k.id
        /\ \/ i.vals[x] = shown[x]
           \/ Confirmed(menu, i.command, x)
           \/ \E k \in flight : IsOk(k) /\ x \in OwnedBy(k) /\ i.id < k.id
    BY <2>2 DEF IInv, SentAsShown
  <2> QED
    BY <1>1, <1>6, <1>8, <2>1, <2>2, <2>3 DEF OwnedBy
<1>11. Answerable'
  BY <1>1, <1>2 DEF IInv, Answerable
<1>12. InOrder' /\ Planned'
  BY <1>1, <1>2 DEF IInv, InOrder, Done, Waiting, Planned
<1>13. InStep'
  BY <1>2, <1>3, <1>6 DEF HubAccepts, IInv, InStep, Known
<1> QED
  BY <1>2, <1>5, <1>9, <1>10, <1>11, <1>12, <1>13 DEF IInv

LEMMA DeviceTakesInv ==
  ASSUME IInv, NEW m \in flight, DeviceTakes(m)
  PROVE  IInv'
<1>1. PICK s \in {"ok", "failed"} :
        /\ Advance(m, s)
        /\ s = "failed" => actual' = actual
        /\ s = "ok" => actual' = [n \in Names |-> IF n \in OwnedBy(m) THEN m.vals[n] ELSE actual[n]]
  BY DEF DeviceTakes, OwnedBy
<1> DEFINE n == [m EXCEPT !.state = s]
<1>2. Oldest(m, Waiting) /\ Waiting(m) /\ menu' = menu /\ doubt' = doubt /\ shown' = shown /\ sent' = sent
  BY DEF DeviceTakes, Oldest
<1>3. /\ n \in flight' /\ n \in Messages /\ n.id = m.id /\ n.state = s
      /\ n.command = m.command /\ n.value = m.value /\ n.vals = m.vals
      /\ \A k \in flight' : k \in flight \ {m} \/ k = n
      /\ flight \ {m} \subseteq flight'
      /\ flight' \subseteq Messages'
      /\ \A k \in flight' : k.id <= sent' /\ DOMAIN k.vals = Owned(k.command)
      /\ \A j, k \in flight' : j.id = k.id => j = k
  <2>1. TypeOK /\ s \in States /\ Advance(m, s) /\ UNCHANGED <<menu, sent>>
    BY <1>1, <1>2 DEF IInv, States
  <2> QED
    BY AdvanceShape, <2>1
<1> HIDE DEF n
<1>4. Names' = Names
  BY <1>2 DEF Names
<1>5. /\ m.command \in CommandOf(Names) /\ m.vals \in [OwnedBy(m) -> Values]
      /\ OwnedBy(m) \subseteq Names
  BY MessageType, OwnedNames DEF IInv, OwnedBy
<1>7. TypeOK'
  BY DeviceTakesType DEF IInv
<1>8. \A k \in flight : k # m /\ Waiting(k) => m.id < k.id
  BY <1>2, OldestFirst DEF IInv
<1>9. \A k \in flight : Done(k) => k.id < m.id
  BY <1>2 DEF IInv, InOrder
<1>10. \A k \in flight : IsOk(k) => k \in flight' /\ k # m /\ Done(k)
  BY <1>2, <1>3 DEF IsOk, Waiting, Done
<1>11. Tracked'
  <2> SUFFICES ASSUME NEW x \in Names \ doubt
               PROVE  /\ (\A k \in flight' : IsOk(k) => x \notin OwnedBy(k)) => shown[x] = actual'[x]
                      /\ \A k \in flight' : LastOwner(k, x)' => k.vals[x] = actual'[x]
    BY <1>2, <1>4 DEF Tracked, OwnedBy, IsOk
  <2>1. CASE s = "ok" /\ x \in OwnedBy(m)
    <3>1. IsOk(n) /\ x \in OwnedBy(n) /\ n \in flight' /\ actual'[x] = n.vals[x]
      BY <1>1, <1>3, <1>5, <2>1 DEF IsOk, OwnedBy
    <3>2. \A k \in flight' : LastOwner(k, x)' => k = n
      <4> SUFFICES ASSUME NEW k \in flight', LastOwner(k, x)', k # n
                   PROVE  FALSE
        OBVIOUS
      <4>1. k \in flight /\ Done(k)
        BY <1>3 DEF LastOwner, IsOk, Done
      <4>2. k.id < n.id
        BY <1>3, <1>9, <4>1
      <4>3. n.id <= k.id
        BY <3>1 DEF LastOwner, IsOk, OwnedBy
      <4>4. n.id \in Nat /\ k.id \in Nat
        BY <1>3, <4>1, MessageType DEF IInv
      <4> QED
        BY <4>2, <4>3, <4>4
    <3> QED
      BY <3>1, <3>2
  <2>2. CASE ~(s = "ok" /\ x \in OwnedBy(m))
    <3>1. actual'[x] = actual[x]
      BY <1>1, <2>2 DEF IInv, TypeOK
    <3>2. \A k \in flight' : IsOk(k) /\ x \in OwnedBy(k) => k \in flight
      BY <1>1, <1>3, <2>2 DEF IsOk, OwnedBy
    <3>3. \A k \in flight' : LastOwner(k, x)' => LastOwner(k, x)
      BY <1>10, <3>2 DEF LastOwner, IsOk, OwnedBy
    <3>4. ASSUME \A k \in flight' : IsOk(k) => x \notin OwnedBy(k) PROVE shown[x] = actual'[x]
      BY <1>10, <3>1, <3>4 DEF IInv, Tracked
    <3>5. ASSUME NEW k \in flight', LastOwner(k, x)' PROVE k.vals[x] = actual'[x]
      BY <3>1, <3>3, <3>5 DEF IInv, Tracked, LastOwner
    <3> QED
      BY <3>4, <3>5
  <2> QED
    BY <2>1, <2>2
<1>12. SentAsShown'
  <2> SUFFICES ASSUME NEW j \in flight', NEW x \in Along(j) \ doubt
               PROVE  /\ \A k \in flight' : x \in OwnedBy(k) => j.id <= k.id
                      /\ \/ j.vals[x] = shown[x]
                         \/ Confirmed(menu, j.command, x)
                         \/ \E k \in flight' : IsOk(k) /\ x \in OwnedBy(k) /\ j.id < k.id
    BY <1>2 DEF SentAsShown, Along, OwnedBy, IsOk
  <2>1. PICK i \in flight : i.id = j.id /\ i.command = j.command /\ i.vals = j.vals
    BY <1>3
  <2>2. x \in Along(i) \ doubt
    BY <2>1 DEF Along, OwnedBy
  <2>3. /\ \A k \in flight : x \in OwnedBy(k) => i.id <= k.id
        /\ \/ i.vals[x] = shown[x]
           \/ Confirmed(menu, i.command, x)
           \/ \E k \in flight : IsOk(k) /\ x \in OwnedBy(k) /\ i.id < k.id
    BY <2>2 DEF IInv, SentAsShown
  <2>4. \A k \in flight' : x \in OwnedBy(k) => j.id <= k.id
    BY <1>3, <2>1, <2>3 DEF OwnedBy
  <2> QED
    BY <1>10, <2>1, <2>3, <2>4
<1>13. Answerable'
  BY <1>2, <1>3 DEF IInv, Answerable
<1>14. InOrder'
  <2> SUFFICES ASSUME NEW i \in flight', NEW k \in flight', Done(i), Waiting(k)
               PROVE  i.id < k.id
    BY DEF InOrder, Done, Waiting
  <2>1. k \in flight /\ k # m
    BY <1>1, <1>3 DEF Waiting
  <2> QED
    BY <1>3, <1>8, <2>1 DEF IInv, InOrder
<1>15. InStep' /\ Planned'
  BY <1>2, <1>3, <1>4 DEF DeviceTakes, IInv, InStep, Planned, Known
<1> QED
  BY <1>2, <1>7, <1>11, <1>12, <1>13, <1>14, <1>15 DEF IInv

LEMMA CommandLostInv ==
  ASSUME IInv, NEW m \in flight, CommandLost(m)
  PROVE  IInv'
<1>1. /\ flight' = flight \ {m} /\ Waiting(m) /\ menu' = menu /\ doubt' = doubt
      /\ shown' = shown /\ actual' = actual /\ sent' = sent
  BY DEF CommandLost
<1>2. Names' = Names /\ Messages' = Messages
  BY <1>1 DEF Names, Messages, CommandOf
<1>3. TypeOK'
  BY LostType DEF IInv
<1>4. \A k \in flight : IsOk(k) => k \in flight'
  BY <1>1 DEF IsOk, Waiting
<1>5. Tracked'
  BY <1>1, <1>2, <1>4 DEF IInv, Tracked, LastOwner
<1>6. SentAsShown'
  BY <1>1, <1>4 DEF IInv, SentAsShown, Along, OwnedBy, IsOk
<1>7. Answerable' /\ InOrder' /\ Planned'
  BY <1>1 DEF IInv, Answerable, InOrder, Done, Waiting, Planned
<1>8. InStep'
  BY <1>1, <1>2 DEF CommandLost, IInv, InStep, Known
<1> QED
  BY <1>1, <1>3, <1>5, <1>6, <1>7, <1>8 DEF IInv

LEMMA AnswerLostInv ==
  ASSUME IInv, NEW m \in flight, AnswerLost(m)
  PROVE  IInv'
<1>1. /\ flight' = flight \ {m} /\ Done(m) /\ menu' = menu /\ doubt \subseteq doubt'
      /\ shown' = shown /\ actual' = actual /\ sent' = sent
      /\ IsOk(m) => OwnedBy(m) \subseteq doubt'
  BY DEF AnswerLost, IsOk, OwnedBy
<1>2. Names' = Names /\ Messages' = Messages
  BY <1>1 DEF Names, Messages, CommandOf
<1>5. TypeOK'
  BY LostType DEF IInv
<1>6. \A x \in Names \ doubt' : \A k \in flight : IsOk(k) /\ x \in OwnedBy(k) => k \in flight'
  BY <1>1
<1>7. Tracked'
  BY <1>1, <1>2, <1>6 DEF IInv, Tracked, LastOwner
<1>8. SentAsShown'
  <2> SUFFICES ASSUME NEW j \in flight', NEW x \in Along(j) \ doubt'
               PROVE  /\ \A k \in flight' : x \in OwnedBy(k) => j.id <= k.id
                      /\ \/ j.vals[x] = shown[x]
                         \/ Confirmed(menu, j.command, x)
                         \/ \E k \in flight' : IsOk(k) /\ x \in OwnedBy(k) /\ j.id < k.id
    BY <1>1 DEF SentAsShown, Along, OwnedBy, IsOk
  <2>1. x \in Names
    BY <1>1, MessageType, OwnedNames DEF IInv, Along, OwnedBy
  <2> QED
    BY <1>1, <1>6, <2>1 DEF IInv, SentAsShown
<1>9. Answerable' /\ InOrder' /\ Planned'
  BY <1>1 DEF IInv, Answerable, InOrder, Done, Waiting, Planned
<1>10. InStep'
  BY <1>1, <1>2 DEF AnswerLost, IInv, InStep, Known
<1> QED
  BY <1>1, <1>5, <1>7, <1>8, <1>9, <1>10 DEF IInv

LEMMA AppChangesInv ==
  ASSUME IInv, NEW n \in Names, AppChanges(n)
  PROVE  IInv'
<1>1. /\ flight' = flight /\ menu' = menu /\ doubt' = doubt \cup {n} /\ shown' = shown /\ sent' = sent
      /\ actual' = [actual EXCEPT ![n] = 1 - @] /\ Names' = Names /\ Messages' = Messages
  BY DEF AppChanges, Names, Messages, CommandOf
<1>3. TypeOK'
  BY AppChangesType DEF IInv
<1>4. \A x \in Names \ doubt' : actual'[x] = actual[x]
  BY <1>1 DEF IInv, TypeOK
<1>5. Tracked'
  BY <1>1, <1>4 DEF IInv, Tracked, LastOwner
<1>6. SentAsShown' /\ Answerable' /\ InOrder' /\ Planned'
  BY <1>1 DEF IInv, SentAsShown, Along, OwnedBy, IsOk, Answerable, InOrder, Done, Waiting, Planned
<1>7. InStep'
  BY <1>1 DEF AppChanges, IInv, InStep, Known
<1> QED
  BY <1>1, <1>3, <1>5, <1>6, <1>7 DEF IInv

LEMMA TurnAwayInv ==
  ASSUME IInv, NEW p \in Names, TurnAway(p)
  PROVE  IInv'
<1>1. /\ flight' = flight /\ menu' = menu /\ doubt' = doubt /\ shown' = shown /\ sent' = sent
      /\ actual' = actual /\ Names' = Names /\ Messages' = Messages
  BY DEF TurnAway, Names, Messages, CommandOf
<1>2. TypeOK'
  BY TurnAwayType DEF IInv
<1>3. Tracked' /\ SentAsShown' /\ Answerable' /\ InOrder' /\ Planned'
  BY <1>1 DEF IInv, Tracked, LastOwner, SentAsShown, Along, OwnedBy, IsOk, Answerable, InOrder, Done,
              Waiting, Planned
<1>4. InStep'
  BY <1>1 DEF TurnAway, IInv, InStep, Known
<1> QED
  BY <1>1, <1>2, <1>3, <1>4 DEF IInv

\* Off doubt an answer changes at most what the command owns, to the value sent, and
\* it shows what it confirms.
LEMMA AnswerShape ==
  ASSUME IInv, NEW m \in flight, AnswerArrives(m)
  PROVE  /\ Oldest(m, Done) /\ Done(m) /\ flight' = flight \ {m}
         /\ menu' = menu /\ doubt' = doubt /\ actual' = actual /\ sent' = sent
         /\ Names' = Names /\ Messages' = Messages
         /\ shown' \in [Names -> Values]
         /\ ~IsOk(m) => shown' = shown /\ raw' = raw /\ informed' = informed
         /\ IsOk(m) => \A x \in Names \ doubt :
              /\ x \notin OwnedBy(m) => shown'[x] = shown[x]
              /\ shown'[x] = shown[x] \/ (x \in OwnedBy(m) /\ shown'[x] = m.vals[x])
              /\ x \in OwnedBy(m) /\ Confirmed(menu, m.command, x) => shown'[x] = m.vals[x]
              /\ Known(x)' /\ (Mirrored(menu, x) => raw'[x] = shown'[x])
<1>1. /\ Oldest(m, Done) /\ Done(m) /\ flight' = flight \ {m}
      /\ menu' = menu /\ doubt' = doubt /\ actual' = actual /\ sent' = sent
      /\ Names' = Names /\ Messages' = Messages
  BY DEF AnswerArrives, Oldest, Names, Messages, CommandOf
<1>2. CASE ~IsOk(m)
  BY <1>1, <1>2 DEF AnswerArrives, IsOk, IInv, TypeOK
<1>3. CASE IsOk(m)
  <2> DEFINE c == m.command
             back == WritesBack(m)
             told == Answered(c)
  <2>1. /\ back \subseteq OwnedBy(m) /\ shown' \in [Names -> Values]
        /\ raw' = [n \in Names |-> IF n \in back THEN m.vals[n] ELSE raw[n]]
        /\ informed' = informed \cup back
        /\ \A x \in Names :
             \/ x \in told /\ x = c.shows /\ shown'[x] = m.value
             \/ x \in OwnedBy(m) /\ x \in told \cup back /\ shown'[x] = m.vals[x]
             \/ x \notin told \cup back /\ shown'[x] = shown[x]
    BY <1>3, AnswerValues DEF IInv
  <2>2. c \in CommandOf(Names) /\ c.shows = c.name /\ c.name \in OwnedBy(m) /\ c \in CommandsIn(menu)
    BY MessageType, OwnedNames, TruthOf DEF IInv, OwnedBy, Planned
  <2>3. c.name \notin doubt => m.vals[c.name] = m.value
    BY DEF IInv, Answerable
  <2>4. ASSUME NEW x \in OwnedBy(m), c.back, menu.key[x] = menu.key[c.name], x \notin back, x \in Names
        PROVE  raw[x] = m.vals[x] /\ c.name \notin menu.objects
    BY <2>4 DEF WritesBack, OwnedBy, KeyMates
  <2>5. told \subseteq OwnedBy(m)
    BY <2>2, OwnedNames DEF OwnedBy
  <2>6. \A x \in Names : Mirrored(menu, x) /\ x \in told => c.back /\ menu.key[x] = menu.key[c.name]
    BY <2>2 DEF Mirrored
  <2>7. \A x \in Names \ doubt : Known(x) /\ (Mirrored(menu, x) => raw[x] = shown[x])
    BY DEF IInv, InStep
  <2>8. \A x \in Names : Confirmed(menu, c, x) /\ x \notin told =>
          /\ c.back /\ menu.key[x] = menu.key[c.name]
          /\ c.name \in menu.objects \/ Mirrored(menu, x)
    BY DEF Confirmed
  <2> HIDE DEF c, back, told
  <2>9. ASSUME NEW x \in Names \ doubt
        PROVE  /\ x \notin OwnedBy(m) => shown'[x] = shown[x]
               /\ shown'[x] = shown[x] \/ (x \in OwnedBy(m) /\ shown'[x] = m.vals[x])
               /\ x \in OwnedBy(m) /\ Confirmed(menu, c, x) => shown'[x] = m.vals[x]
               /\ Known(x)' /\ (Mirrored(menu, x) => raw'[x] = shown'[x])
    <3>1. \/ x \in OwnedBy(m) /\ x \in told \cup back /\ shown'[x] = m.vals[x]
          \/ x \notin told \cup back /\ shown'[x] = shown[x]
      BY <2>1, <2>2, <2>3
    <3>2. raw'[x] = IF x \in back THEN m.vals[x] ELSE raw[x]
      BY <2>1
    <3>3. Known(x)'
      BY <2>1, <2>7 DEF Known
    <3>4. ASSUME x \in OwnedBy(m), Confirmed(menu, c, x) PROVE shown'[x] = m.vals[x]
      <4>1. CASE x \in told \cup back
        BY <3>1, <4>1
      <4>2. CASE x \notin told \cup back
        <5>1. raw[x] = m.vals[x] /\ Mirrored(menu, x)
          BY <2>4, <2>8, <3>4, <4>2
        <5> QED
          BY <2>7, <3>1, <4>2, <5>1
      <4> QED
        BY <4>1, <4>2
    <3>5. ASSUME Mirrored(menu, x) PROVE raw'[x] = shown'[x]
      <4>1. CASE x \in back
        BY <3>1, <3>2, <4>1
      <4>2. CASE x \in told /\ x \notin back
        <5>1. raw[x] = m.vals[x]
          BY <2>4, <2>5, <2>6, <3>5, <4>2
        <5> QED
          BY <3>1, <3>2, <4>2, <5>1
      <4>3. CASE x \notin told \cup back
        BY <2>7, <3>1, <3>2, <3>5, <4>3
      <4> QED
        BY <4>1, <4>2, <4>3
    <3> QED
      BY <3>1, <3>3, <3>4, <3>5
  <2> QED
    BY <1>1, <1>3, <2>1, <2>9 DEF c
<1> QED
  BY <1>2, <1>3

LEMMA AnswerArrivesInv ==
  ASSUME IInv, NEW m \in flight, AnswerArrives(m)
  PROVE  IInv'
<1>1. /\ Oldest(m, Done) /\ Done(m) /\ flight' = flight \ {m}
      /\ menu' = menu /\ doubt' = doubt /\ actual' = actual /\ sent' = sent
      /\ Names' = Names /\ Messages' = Messages
      /\ ~IsOk(m) => shown' = shown /\ raw' = raw /\ informed' = informed
      /\ IsOk(m) => \A x \in Names \ doubt :
           /\ x \notin OwnedBy(m) => shown'[x] = shown[x]
           /\ shown'[x] = shown[x] \/ (x \in OwnedBy(m) /\ shown'[x] = m.vals[x])
           /\ x \in OwnedBy(m) /\ Confirmed(menu, m.command, x) => shown'[x] = m.vals[x]
           /\ Known(x)' /\ (Mirrored(menu, x) => raw'[x] = shown'[x])
  BY AnswerShape
<1>2. TypeOK'
  BY AnswerArrivesType DEF IInv
<1>3. \A k \in flight : k # m /\ Done(k) => m.id < k.id
  BY <1>1, OldestFirst DEF IInv
<1>4. \A k \in flight : Waiting(k) => m.id < k.id
  BY <1>1 DEF IInv, InOrder
<1>5. \A k \in flight : k # m => m.id < k.id /\ k.id \in Nat /\ m.id \in Nat
  <2> SUFFICES ASSUME NEW k \in flight, k # m PROVE m.id < k.id /\ k.id \in Nat /\ m.id \in Nat
    OBVIOUS
  <2>1. Done(k) \/ Waiting(k)
    BY MessageType DEF IInv, States, Done, Waiting
  <2> QED
    BY <1>3, <1>4, <2>1, MessageType DEF IInv
<1>6. Tracked'
  <2> SUFFICES ASSUME NEW x \in Names \ doubt
               PROVE  /\ (\A k \in flight' : IsOk(k) => x \notin OwnedBy(k)) => shown'[x] = actual[x]
                      /\ \A k \in flight' : LastOwner(k, x)' => k.vals[x] = actual[x]
    BY <1>1 DEF Tracked, OwnedBy, IsOk
  <2>1. \A k \in flight' : LastOwner(k, x)' => LastOwner(k, x)
    <3> SUFFICES ASSUME NEW k \in flight', LastOwner(k, x)' PROVE LastOwner(k, x)
      OBVIOUS
    <3>1. k \in flight /\ k # m /\ m.id < k.id /\ m.id \in Nat /\ k.id \in Nat
      BY <1>1, <1>5
    <3>2. \A i \in flight : IsOk(i) /\ x \in OwnedBy(i) => i.id <= k.id
      BY <1>1, <3>1 DEF LastOwner, IsOk, OwnedBy
    <3> QED
      BY <3>1, <3>2 DEF LastOwner, IsOk, OwnedBy
  <2>2. ASSUME \A k \in flight' : IsOk(k) => x \notin OwnedBy(k)
        PROVE  shown'[x] = actual[x]
    <3>1. CASE ~(IsOk(m) /\ x \in OwnedBy(m))
      <4>1. \A k \in flight : IsOk(k) => x \notin OwnedBy(k)
        BY <1>1, <2>2, <3>1
      <4>2. shown[x] = actual[x]
        BY <4>1 DEF IInv, Tracked
      <4>3. shown'[x] = shown[x]
        BY <1>1, <3>1
      <4> QED
        BY <4>2, <4>3
    <3>2. CASE IsOk(m) /\ x \in OwnedBy(m)
      <4>1. \A k \in flight : IsOk(k) /\ x \in OwnedBy(k) => k = m
        BY <1>1, <2>2
      <4>2. LastOwner(m, x)
        BY <3>2, <4>1, MessageType DEF LastOwner, IInv
      <4>3. m.vals[x] = actual[x]
        BY <4>2 DEF IInv, Tracked
      <4>4. CASE Confirmed(menu, m.command, x)
        BY <1>1, <3>2, <4>3, <4>4
      <4>5. CASE ~Confirmed(menu, m.command, x)
        <5>1. x # m.command.name
          BY <4>5 DEF IInv, Answerable
        <5>2. x \notin m.command.tells
          BY <4>5, MessageType, OwnedNames DEF IInv, Confirmed
        <5>3. x \in Along(m) \ doubt
          BY <3>2, <5>1, <5>2 DEF Along
        <5>4. \/ m.vals[x] = shown[x]
              \/ \E k \in flight : IsOk(k) /\ x \in OwnedBy(k) /\ m.id < k.id
          BY <4>5, <5>3 DEF IInv, SentAsShown
        <5>5. m.vals[x] = shown[x]
          BY <4>1, <5>4, MessageType DEF IInv
        <5> QED
          BY <1>1, <3>2, <4>3, <5>5
      <4> QED
        BY <4>4, <4>5
    <3> QED
      BY <3>1, <3>2
  <2> QED
    BY <1>1, <2>1, <2>2 DEF IInv, Tracked
<1>7. SentAsShown'
  <2> SUFFICES ASSUME NEW j \in flight', NEW x \in Along(j) \ doubt
               PROVE  /\ \A k \in flight' : x \in OwnedBy(k) => j.id <= k.id
                      /\ \/ j.vals[x] = shown'[x]
                         \/ Confirmed(menu, j.command, x)
                         \/ \E k \in flight' : IsOk(k) /\ x \in OwnedBy(k) /\ j.id < k.id
    BY <1>1 DEF SentAsShown, Along, OwnedBy, IsOk
  <2>1. j \in flight /\ j # m /\ x \in Names /\ m.id < j.id /\ m.id \in Nat /\ j.id \in Nat
    BY <1>1, <1>5, MessageType, OwnedNames DEF IInv, Along, OwnedBy
  <2>2. /\ \A k \in flight : x \in OwnedBy(k) => j.id <= k.id
        /\ \/ j.vals[x] = shown[x]
           \/ Confirmed(menu, j.command, x)
           \/ \E k \in flight : IsOk(k) /\ x \in OwnedBy(k) /\ j.id < k.id
    BY <2>1 DEF IInv, SentAsShown
  <2>3. x \notin OwnedBy(m)
    BY <2>1, <2>2
  <2>4. shown'[x] = shown[x]
    BY <1>1, <2>1, <2>3
  <2> QED
    BY <1>1, <2>2, <2>3, <2>4
<1>8. Answerable' /\ InOrder' /\ Planned'
  BY <1>1 DEF IInv, Answerable, InOrder, Done, Waiting, Planned
<1>9. InStep'
  BY <1>1 DEF IInv, InStep, Known
<1> QED
  BY <1>1, <1>2, <1>6, <1>7, <1>8, <1>9 DEF IInv

LEMMA ReportInv ==
  ASSUME IInv, Report
  PROVE  IInv'
<1>1. /\ flight' = flight /\ menu' = menu /\ actual' = actual /\ sent' = sent
      /\ Names' = Names /\ Messages' = Messages
      /\ doubt' \subseteq doubt
      /\ \A x \in doubt : (\E m \in flight : x \in OwnedBy(m) \cup {m.command.shows}) => x \in doubt'
      /\ \A x \in doubt \ doubt' : x \in Refreshed
      /\ shown' = [n \in Names |-> IF n \in Refreshed THEN actual[n] ELSE shown[n]]
      /\ raw' = [n \in Names |-> IF n \in Refreshed THEN actual[n] ELSE raw[n]]
      /\ informed' = informed \cup Refreshed
  BY DEF Report, Names, Messages, CommandOf, OwnedBy
<1>2. Refreshed \subseteq Names
  BY DEF Refreshed
<1>3. TypeOK'
  BY ReportType DEF IInv
<1>4. \A x \in Names : shown'[x] = shown[x] \/ shown'[x] = actual[x]
  BY <1>1
<1>5. \A x \in Names \ doubt' : \A m \in flight : x \in OwnedBy(m) => x \notin doubt
  BY <1>1
<1>6. Tracked'
  <2> SUFFICES ASSUME NEW x \in Names \ doubt'
               PROVE  /\ (\A k \in flight : IsOk(k) => x \notin OwnedBy(k)) => shown'[x] = actual[x]
                      /\ \A k \in flight : LastOwner(k, x) => k.vals[x] = actual[x]
    BY <1>1 DEF Tracked, OwnedBy, IsOk, LastOwner
  <2>1. \A k \in flight : LastOwner(k, x) => k.vals[x] = actual[x]
    BY <1>5 DEF IInv, Tracked, LastOwner
  <2>2. ASSUME \A k \in flight : IsOk(k) => x \notin OwnedBy(k) PROVE shown'[x] = actual[x]
    <3>1. CASE x \in doubt
      BY <1>1, <3>1
    <3>2. CASE x \notin doubt
      BY <1>4, <2>2, <3>2 DEF IInv, Tracked
    <3> QED
      BY <3>1, <3>2
  <2> QED
    BY <2>1, <2>2
<1>7. SentAsShown'
  <2> SUFFICES ASSUME NEW j \in flight, NEW x \in Along(j) \ doubt'
               PROVE  /\ \A k \in flight : x \in OwnedBy(k) => j.id <= k.id
                      /\ \/ j.vals[x] = shown'[x]
                         \/ Confirmed(menu, j.command, x)
                         \/ \E k \in flight : IsOk(k) /\ x \in OwnedBy(k) /\ j.id < k.id
    BY <1>1 DEF SentAsShown, Along, OwnedBy, IsOk
  <2>1. x \in Names /\ x \in OwnedBy(j)
    BY MessageType, OwnedNames DEF IInv, Along, OwnedBy
  <2>2. x \in Along(j) \ doubt
    BY <1>5, <2>1
  <2>3. /\ \A k \in flight : x \in OwnedBy(k) => j.id <= k.id
        /\ \/ j.vals[x] = shown[x]
           \/ Confirmed(menu, j.command, x)
           \/ \E k \in flight : IsOk(k) /\ x \in OwnedBy(k) /\ j.id < k.id
    BY <2>2 DEF IInv, SentAsShown
  <2>4. ASSUME \A k \in flight : IsOk(k) /\ x \in OwnedBy(k) => ~(j.id < k.id), j.vals[x] = shown[x]
        PROVE  j.vals[x] = shown'[x]
    <3>1. CASE \A k \in flight : IsOk(k) => x \notin OwnedBy(k)
      BY <1>4, <2>1, <2>2, <2>4, <3>1 DEF IInv, Tracked
    <3>2. CASE \E k \in flight : IsOk(k) /\ x \in OwnedBy(k)
      <4>1. PICK k \in flight : IsOk(k) /\ x \in OwnedBy(k)
        BY <3>2
      <4>2. \A i \in flight : IsOk(i) /\ x \in OwnedBy(i) => i = j
        <5> SUFFICES ASSUME NEW i \in flight, IsOk(i), x \in OwnedBy(i) PROVE i = j
          OBVIOUS
        <5>1. i.id \in Nat /\ j.id \in Nat /\ j.id <= i.id /\ ~(j.id < i.id)
          BY <2>3, <2>4, MessageType DEF IInv
        <5> QED
          BY <5>1 DEF IInv, TypeOK
      <4>3. LastOwner(j, x)
        BY <4>1, <4>2, <2>1, MessageType DEF IInv, LastOwner
      <4>4. j.vals[x] = actual[x]
        BY <2>1, <2>2, <4>3 DEF IInv, Tracked
      <4> QED
        BY <1>4, <2>1, <2>4, <4>4
    <3> QED
      BY <3>1, <3>2
  <2> QED
    BY <2>3, <2>4
<1>8. Answerable' /\ InOrder' /\ Planned'
  <2>1. \A m \in flight : m.command.name \notin doubt' => m.command.name \notin doubt
    BY <1>1, MessageType, OwnedNames DEF IInv, OwnedBy
  <2> QED
    BY <1>1, <2>1 DEF IInv, Answerable, InOrder, Done, Waiting, Planned
<1>9. InStep'
  <2> SUFFICES ASSUME NEW x \in Names \ doubt'
               PROVE  Known(x)' /\ (Mirrored(menu, x) => raw'[x] = shown'[x])
    BY <1>1 DEF InStep
  <2>1. CASE x \in Refreshed
    BY <1>1, <2>1 DEF Known
  <2>2. CASE x \notin Refreshed
    <3>1. x \notin doubt
      BY <1>1, <2>2
    <3> QED
      BY <1>1, <2>2, <3>1 DEF IInv, InStep, Known
  <2> QED
    BY <2>1, <2>2
<1> QED
  BY <1>1, <1>3, <1>6, <1>7, <1>8, <1>9 DEF IInv

LEMMA RequestInv ==
  ASSUME IInv, NEW p \in Names, NEW value \in Values, Request(p, value)
  PROVE  IInv'
<1>1. PICK new :
           /\ flight' = flight \cup new /\ sent' \in Nat /\ sent <= sent'
           /\ menu' = menu /\ shown' = shown /\ actual' = actual /\ informed' = informed
           /\ Names' = Names /\ Messages' = Messages
           /\ doubt \subseteq doubt'
           /\ raw' = [raw EXCEPT ![p] = IF \E m \in new : m.command.edits THEN value ELSE @]
           /\ new \subseteq Messages
           /\ \A m \in new :
                /\ sent < m.id /\ m.id <= sent' /\ m.state = "queued"
                /\ m.command \in CommandOf(Names) /\ m.command \in CommandsOf(menu.plan[p])
                /\ m.vals \in [OwnedBy(m) -> Values] /\ m.value \in Values
                /\ Straight(m.command) => m.vals[m.command.name] = m.value
                /\ \A n \in Along(m) \ Overwrites(m.command) :
                     m.vals[n] = IF n \in m.command.fromRaw THEN Stored(n) ELSE shown[n]
                /\ Unsure(m, flight') \subseteq doubt'
  BY RequestShape DEF IInv
<1>2. \A m \in flight : m.id \in Nat /\ m.id <= sent /\ sent \in Nat
  BY MessageType DEF IInv, TypeOK
<1>3. \A m \in new : m.id \in Nat /\ ~IsOk(m) /\ ~Done(m)
  BY <1>1 DEF Messages, IsOk, Done
<1>4. TypeOK'
  BY RequestType DEF IInv
<1>5. Tracked'
  BY <1>1, <1>3 DEF IInv, Tracked, LastOwner, OwnedBy, IsOk
<1>6. Planned'
  BY <1>1 DEF IInv, Planned, CommandsIn, Names
<1>7. \A m \in new : \A d \in Defects : Affected(m, d) \cap menu.listed[d] \subseteq doubt'
  BY <1>1 DEF Unsure
<1>8. \A m \in new : \A x \in OwnedBy(m) \ ({m.command.name} \cup m.command.tells \cup doubt') :
        \A k \in flight' : x \in OwnedBy(k) => ~(k.id < m.id)
  BY <1>1 DEF Unsure, Overtaken, OwnedBy
<1>9. \A x \in Names \ doubt : Known(x) /\ (Mirrored(menu, x) => raw[x] = shown[x])
  BY DEF IInv, InStep
<1>10. ASSUME NEW m \in new
       PROVE  LET c == m.command IN
              /\ c.name \in Names /\ c.name \in OwnedBy(m) /\ c.shows = c.name
              /\ c.name \in menu.listed["left_to_report"] \/ Confirmed(menu, c, c.name)
              /\ (c.stages = 2 /\ c.on = "first") => c.name \in menu.listed["hub_answer"]
              /\ (c.keepsOne \/ c.off \notin {"clears", "covers"}) => c.name \in menu.listed["stays_on"]
              /\ \A n \in Overwrites(c) : n \in menu.listed["overwritten"] \/ Confirmed(menu, c, n)
              /\ \A n \in c.fromRaw :
                   n \in menu.listed["raw_behind"] \/ Mirrored(menu, n) \/ Confirmed(menu, c, n)
  <2>1. m.command \in CommandsIn(menu)
    BY <1>1, <1>10 DEF CommandsIn, Names
  <2> QED
    BY <1>1, <1>10, <2>1, OwnedNames DEF IInv, Truthful, OwnedBy
<1>11. SentAsShown'
  <2> SUFFICES ASSUME NEW j \in flight', NEW x \in Along(j) \ doubt'
               PROVE  /\ \A k \in flight' : x \in OwnedBy(k) => j.id <= k.id
                      /\ \/ j.vals[x] = shown[x]
                         \/ Confirmed(menu, j.command, x)
                         \/ \E k \in flight' : IsOk(k) /\ x \in OwnedBy(k) /\ j.id < k.id
    BY <1>1 DEF SentAsShown, Along, OwnedBy, IsOk
  <2>1. CASE j \in flight
    <3>1. \A k \in new : j.id <= k.id
      BY <1>1, <1>2, <1>3, <2>1
    <3>2. /\ \A k \in flight : x \in OwnedBy(k) => j.id <= k.id
          /\ \/ j.vals[x] = shown[x]
             \/ Confirmed(menu, j.command, x)
             \/ \E k \in flight : IsOk(k) /\ x \in OwnedBy(k) /\ j.id < k.id
      BY <1>1, <2>1 DEF IInv, SentAsShown
    <3> QED
      BY <1>1, <3>1, <3>2
  <2>2. CASE j \in new
    <3>1. x \in OwnedBy(j) \ ({j.command.name} \cup j.command.tells \cup doubt')
      BY DEF Along
    <3>2. \A k \in flight' : x \in OwnedBy(k) => ~(k.id < j.id)
      BY <1>8, <2>2, <3>1
    <3>3. \A k \in flight' : k.id \in Nat /\ j.id \in Nat
      BY <1>1, <1>2, <1>3, <2>2
    <3>4. x \in Names \ doubt
      BY <1>1, <2>2, <3>1, OwnedNames DEF OwnedBy
    <3>5. CASE x \in Overwrites(j.command)
      <4>1. x \notin menu.listed["overwritten"]
        BY <1>7, <2>2, <3>1, <3>5 DEF Affected, Defects
      <4> QED
        BY <1>10, <2>2, <3>2, <3>3, <3>5, <4>1
    <3>6. CASE x \notin Overwrites(j.command) /\ x \in j.command.fromRaw
      <4>1. j.vals[x] = raw[x]
        BY <1>1, <1>9, <2>2, <3>4, <3>6 DEF Stored
      <4>2. raw[x] # shown[x] => x \notin menu.listed["raw_behind"]
        BY <1>7, <2>2, <3>1, <3>6 DEF Affected, Defects
      <4>3. raw[x] = shown[x] \/ Mirrored(menu, x) \/ Confirmed(menu, j.command, x)
        BY <1>10, <2>2, <3>6, <4>2
      <4> QED
        BY <1>9, <3>2, <3>3, <3>4, <4>1, <4>3
    <3>7. CASE x \notin Overwrites(j.command) /\ x \notin j.command.fromRaw
      BY <1>1, <2>2, <3>2, <3>3, <3>7
    <3> QED
      BY <3>5, <3>6, <3>7
  <2> QED
    BY <1>1, <2>1, <2>2
<1>12. Answerable'
  <2> SUFFICES ASSUME NEW m \in new, m.command.name \notin doubt'
               PROVE  /\ Confirmed(menu, m.command, m.command.name)
                      /\ m.vals[m.command.name] = m.value
                      /\ ~(m.command.stages = 2 /\ m.command.on = "first")
    BY <1>1 DEF IInv, Answerable
  <2> DEFINE c == m.command
  <2>1. /\ c.name \in Names
        /\ c.name \in menu.listed["left_to_report"] \/ Confirmed(menu, c, c.name)
        /\ (c.stages = 2 /\ c.on = "first") => c.name \in menu.listed["hub_answer"]
        /\ (c.keepsOne \/ c.off \notin {"clears", "covers"}) => c.name \in menu.listed["stays_on"]
    BY <1>10
  <2>2. \A d \in Defects : c.name \in Affected(m, d) => c.name \notin menu.listed[d]
    BY <1>7
  <2>3. Confirmed(menu, c, c.name)
    <3>1. CASE c.name \in Answered(c)
      BY <3>1 DEF Confirmed
    <3>2. CASE c.name \notin Answered(c)
      <4>1. c.name \in Affected(m, "left_to_report")
        BY <3>2 DEF Affected
      <4> QED
        BY <2>1, <2>2, <4>1 DEF Defects
    <3> QED
      BY <3>1, <3>2
  <2>4. m.vals[c.name] = m.value
    <3>1. CASE Straight(c)
      BY <1>1, <3>1
    <3>2. CASE ~Straight(c)
      <4>1. Known(c.name)
        BY <1>1, <1>9, <2>1
      <4>2. c.name \in menu.listed["stays_on"]
        BY <2>1, <3>2, <4>1 DEF Straight
      <4>3. c.name \notin Affected(m, "stays_on")
        BY <2>2, <4>2 DEF Defects
      <4> QED
        BY <4>3 DEF Affected
    <3> QED
      BY <3>1, <3>2
  <2>5. ~(c.stages = 2 /\ c.on = "first")
    BY <2>1, <2>2 DEF Affected, Defects
  <2> QED
    BY <2>3, <2>4, <2>5
<1>13. InOrder'
  <2> SUFFICES ASSUME NEW m \in flight', NEW k \in flight', Done(m), Waiting(k)
               PROVE  m.id < k.id
    BY DEF InOrder, Done, Waiting
  <2>1. m \in flight
    BY <1>1, <1>3
  <2>2. CASE k \in flight
    BY <2>1, <2>2 DEF IInv, InOrder
  <2>3. CASE k \in new
    BY <1>1, <1>2, <1>3, <2>1, <2>3
  <2> QED
    BY <1>1, <2>2, <2>3
<1>14. InStep'
  <2> SUFFICES ASSUME NEW x \in Names \ doubt, Mirrored(menu, x)
               PROVE  raw'[x] = raw[x]
    BY <1>1, <1>9 DEF InStep, Known
  <2>1. CASE x = p
    <3>1. \A m \in new : ~m.command.edits
      BY <1>1, <2>1 DEF Mirrored
    <3> QED
      BY <1>1, <2>1, <3>1 DEF IInv, TypeOK
  <2>2. CASE x # p
    BY <1>1, <2>2 DEF IInv, TypeOK
  <2> QED
    BY <2>1, <2>2
<1> QED
  BY <1>1, <1>4, <1>5, <1>6, <1>11, <1>12, <1>13, <1>14 DEF IInv

\* Every step keeps the strengthened invariant.
LEMMA IndInv == IInv /\ [Next]_vars => IInv'
<1> SUFFICES ASSUME IInv, [Next]_vars PROVE IInv'
  OBVIOUS
<1>1. CASE \E p \in Names, value \in Values : Request(p, value)
  BY <1>1, RequestInv
<1>2. CASE \E p \in Names : TurnAway(p)
  BY <1>2, TurnAwayInv
<1>3. CASE \E m \in flight :
             HubAccepts(m) \/ DeviceTakes(m) \/ CommandLost(m) \/ AnswerArrives(m) \/ AnswerLost(m)
  BY <1>3, HubAcceptsInv, DeviceTakesInv, CommandLostInv, AnswerArrivesInv, AnswerLostInv
<1>4. CASE \E n \in Names : AppChanges(n)
  BY <1>4, AppChangesInv
<1>5. CASE Report
  BY <1>5, ReportInv
<1>6. CASE UNCHANGED vars
  <2>1. /\ menu' = menu /\ shown' = shown /\ raw' = raw /\ informed' = informed
        /\ actual' = actual /\ flight' = flight /\ sent' = sent /\ requests' = requests
        /\ changes' = changes /\ doubt' = doubt /\ away' = away
    BY <1>6 DEF vars
  <2>2. TypeOK'
    BY TypeStep DEF IInv
  <2>3. Tracked'
    BY <2>1 DEF IInv, Tracked, LastOwner, Names, IsOk, OwnedBy
  <2>4. SentAsShown'
    BY <2>1 DEF IInv, SentAsShown, Along, Names, OwnedBy
  <2>5. Answerable' /\ Planned'
    BY <2>1 DEF IInv, Answerable, Planned
  <2>6. InOrder'
    BY <2>1 DEF IInv, InOrder, Done, Waiting
  <2>7. InStep'
    BY <2>1 DEF IInv, InStep, Known, Names
  <2> QED
    BY <2>1, <2>2, <2>3, <2>4, <2>5, <2>6, <2>7 DEF IInv
<1> QED
  BY <1>1, <1>2, <1>3, <1>4, <1>5, <1>6 DEF Next

LEMMA AlwaysIInv ==
  ASSUME \A m \in Menus : Truthful(m)
  PROVE  Spec => []IInv
<1>1. Init => IInv
  BY InitInv
<1>2. IInv /\ [Next]_vars => IInv'
  BY IndInv
<1> QED
  BY <1>1, <1>2, PTL DEF Spec

\* Commands in flight are well formed: eufysecurity.ts setDeviceProperty and
\* setStationProperty build each of them from the settings of the device.
THEOREM TypeCorrect == Spec => []TypeOK
<1>1. Init => TypeOK
  BY InitType
<1>2. TypeOK /\ [Next]_vars => TypeOK'
  BY TypeStep
<1> QED
  BY <1>1, <1>2, PTL DEF Spec

\* With nothing in flight the library shows what the device is set to, whatever is
\* asked, lost, refused or changed and however often, if the setters and answer rules
\* of every menu are truthful: that condition on single commands is all that
\* setDeviceProperty, the setters of station.ts, onStationCommandResult and
\* updateRawProperty need for it.  MCSettings checks it for every kind of device.
THEOREM ShownCorrect ==
  ASSUME \A m \in Menus : Truthful(m)
  PROVE  Spec => []ShownIsActual
<1>1. IInv => ShownIsActual
  BY DEF IInv, Tracked, ShownIsActual, IsOk
<1>2. Spec => []IInv
  BY AlwaysIInv
<1> QED
  BY <1>1, <1>2, PTL

\* What the library has open only depends on the commands the device executed.
LEMMA OpenIs == \A n : n \in Open <=> \E m \in flight : IsOk(m) /\ n \in OwnedBy(m)
BY DEF Open, IsOk, OwnedBy

LEMMA OpenIsNext == \A n : n \in Open' <=> \E m \in flight' : IsOk(m) /\ n \in OwnedBy(m)
BY DEF Open, IsOk, OwnedBy

LEMMA ContractInit == Init => C!Init
<1> SUFFICES ASSUME Init PROVE C!Init
  OBVIOUS
<1>1. Open = {}
  BY DEF Init, Open
<1>2. doubt \subseteq Names /\ \A n \in Names \ doubt : shown[n] = actual[n]
  BY DEF Init
<1>3. DOMAIN shown = Names /\ DOMAIN actual = Names
  BY DEF Init
<1> QED
  BY <1>1, <1>2, <1>3 DEF C!Init, C!Settings, C!Agrees

\* Each kind of step is one the contract allows.
LEMMA ContractRequest ==
  ASSUME IInv, NEW p \in Names, NEW value \in Values, Request(p, value)
  PROVE  C!Ask
<1>1. PICK new : /\ flight' = flight \cup new /\ shown' = shown /\ actual' = actual
                 /\ doubt \subseteq doubt' /\ \A m \in new : m.state = "queued"
  BY RequestShape DEF IInv
<1>2. Open' = Open
  BY <1>1, OpenIs, OpenIsNext DEF IsOk
<1> QED
  BY <1>1, <1>2 DEF C!Ask

LEMMA ContractHubAccepts ==
  ASSUME IInv, NEW m \in flight, HubAccepts(m)
  PROVE  C!Show
<1>1. /\ flight' = (flight \ {m}) \cup {[m EXCEPT !.state = "accepted"]} /\ m.state = "queued"
      /\ m.command.stages = 2 /\ actual' = actual /\ doubt' = doubt
      /\ shown' = [shown EXCEPT ![m.command.shows] = IF m.command.on = "first" THEN m.value ELSE @]
  BY DEF HubAccepts, Advance
<1>2. [m EXCEPT !.state = "accepted"].state = "accepted"
  BY MessageType DEF IInv, Messages
<1>3. Open' = Open
  BY <1>1, <1>2, OpenIs, OpenIsNext DEF IsOk
<1>4. DOMAIN shown' = DOMAIN shown /\ \A x \in Names \ doubt : shown'[x] = shown[x]
  <2> SUFFICES ASSUME NEW x \in Names \ doubt, x = m.command.shows, m.command.on = "first"
               PROVE  FALSE
    BY <1>1 DEF IInv, TypeOK
  <2> QED
    BY <1>1, TruthOf DEF IInv, Answerable
<1>5. DOMAIN shown = Names
  BY DEF IInv, TypeOK
<1> QED
  BY <1>1, <1>3, <1>4, <1>5 DEF C!Show, C!Within

LEMMA ContractDeviceTakes ==
  ASSUME IInv, NEW m \in flight, DeviceTakes(m)
  PROVE  C!Take
<1>1. /\ shown' = shown /\ doubt' = doubt /\ Waiting(m)
      /\ \/ Advance(m, "failed") /\ actual' = actual
         \/ /\ Advance(m, "ok")
            /\ actual' = [n \in Names |-> IF n \in OwnedBy(m) THEN m.vals[n] ELSE actual[n]]
  BY DEF DeviceTakes, Oldest, OwnedBy
<1>2. DOMAIN actual = Names
  BY DEF IInv, TypeOK
<1>3. CASE Advance(m, "failed") /\ actual' = actual
  <2>1. [m EXCEPT !.state = "failed"].state = "failed"
    BY MessageType DEF IInv, Messages
  <2>2. flight' = (flight \ {m}) \cup {[m EXCEPT !.state = "failed"]}
    BY <1>3 DEF Advance
  <2>3. Open' = Open
    BY <1>1, <2>1, <2>2, OpenIs, OpenIsNext DEF IsOk, Waiting
  <2> QED
    BY <1>1, <1>3, <2>3 DEF C!Take, C!Within
<1>4. CASE /\ Advance(m, "ok")
           /\ actual' = [n \in Names |-> IF n \in OwnedBy(m) THEN m.vals[n] ELSE actual[n]]
  <2> DEFINE k == [m EXCEPT !.state = "ok"]
  <2>1. IsOk(k) /\ OwnedBy(k) = OwnedBy(m)
    BY MessageType DEF IInv, Messages, IsOk, OwnedBy
  <2>2. flight' = (flight \ {m}) \cup {k}
    BY <1>4 DEF Advance
  <2> HIDE DEF k
  <2>3. Open \subseteq Open' /\ OwnedBy(m) \subseteq Open'
    BY <1>1, <2>1, <2>2, OpenIs, OpenIsNext DEF IsOk, Waiting
  <2>4. DOMAIN actual' = DOMAIN actual /\ \A x \in Names \ Open' : actual'[x] = actual[x]
    BY <1>2, <1>4, <2>3
  <2> QED
    BY <1>1, <1>2, <2>3, <2>4 DEF C!Take, C!Within
<1> QED
  BY <1>1, <1>3, <1>4

LEMMA ContractAnswerArrives ==
  ASSUME IInv, NEW m \in flight, AnswerArrives(m)
  PROVE  C!Show
<1>1. /\ Done(m) /\ flight' = flight \ {m} /\ doubt' = doubt /\ actual' = actual
      /\ Names' = Names /\ shown' \in [Names -> Values]
      /\ ~IsOk(m) => shown' = shown
      /\ IsOk(m) => \A x \in Names \ doubt : x \notin OwnedBy(m) => shown'[x] = shown[x]
  BY AnswerShape
<1>2. DOMAIN shown = Names /\ DOMAIN shown' = Names
  BY <1>1 DEF IInv, TypeOK
<1>3. Open' \subseteq Open /\ (IsOk(m) => OwnedBy(m) \subseteq Open)
  BY <1>1, OpenIs, OpenIsNext
<1>4. \A x \in Names \ (Open \cup doubt) : shown'[x] = shown[x]
  BY <1>1, <1>3
<1>5. Tracked'
  BY AnswerArrivesInv DEF IInv
<1>6. Open \subseteq Names
  BY OpenIs, MessageType, OwnedNames DEF IInv, OwnedBy
<1>7. \A x \in (Open \ Open') \ doubt : shown'[x] = actual'[x]
  <2> SUFFICES ASSUME NEW x \in (Open \ Open') \ doubt PROVE shown'[x] = actual'[x]
    OBVIOUS
  <2>1. x \in Names' \ doubt'
    BY <1>1, <1>6
  <2>2. \A k \in flight' : IsOk(k) => x \notin OwnedBy(k)
    BY OpenIsNext
  <2> QED
    BY <1>5, <2>1, <2>2 DEF Tracked, OwnedBy, IsOk
<1> QED
  BY <1>1, <1>2, <1>3, <1>4, <1>7 DEF C!Show, C!Within, C!Agrees

LEMMA ContractAnswerLost ==
  ASSUME IInv, NEW m \in flight, AnswerLost(m)
  PROVE  C!Lose
<1>1. /\ Done(m) /\ flight' = flight \ {m} /\ shown' = shown /\ actual' = actual
      /\ doubt \subseteq doubt' /\ (IsOk(m) => OwnedBy(m) \subseteq doubt')
  BY DEF AnswerLost, IsOk, OwnedBy
<1>2. Open' \subseteq Open /\ Open \ Open' \subseteq doubt'
  BY <1>1, OpenIs, OpenIsNext
<1> QED
  BY <1>1, <1>2 DEF C!Lose

LEMMA ContractAppChanges ==
  ASSUME IInv, NEW n \in Names, AppChanges(n)
  PROVE  C!Drift
<1>1. /\ actual' = [actual EXCEPT ![n] = 1 - @] /\ doubt' = doubt \cup {n} /\ shown' = shown
      /\ Open' = Open
  BY DEF AppChanges, Open
<1>2. DOMAIN actual' = DOMAIN actual /\ \A x \in DOMAIN actual \ doubt' : actual'[x] = actual[x]
  BY <1>1
<1> QED
  BY <1>1, <1>2 DEF C!Drift, C!Within

LEMMA ContractReport ==
  ASSUME IInv, Report
  PROVE  C!Report
<1>1. /\ doubt' \subseteq doubt /\ actual' = actual /\ Open' = Open
      /\ shown' = [n \in Names |-> IF n \in Refreshed THEN actual[n] ELSE shown[n]]
      /\ doubt \ doubt' \subseteq Refreshed
  BY DEF Report, Open
<1>2. DOMAIN shown = Names /\ DOMAIN actual = Names /\ Refreshed \subseteq Names
  BY DEF IInv, TypeOK, Refreshed
<1>3. DOMAIN shown' = Names /\ \A n \in Names : shown'[n] = actual'[n] \/ shown'[n] = shown[n]
  BY <1>1
<1>4. \A n \in doubt \ doubt' : shown'[n] = actual'[n]
  BY <1>1, <1>2
<1> QED
  BY <1>1, <1>2, <1>3, <1>4 DEF C!Report, C!Settings, C!Agrees

\* Steps that neither the device nor the application can tell from nothing.
LEMMA ContractStutter ==
  ASSUME IInv,
         \/ \E p \in Names : TurnAway(p)
         \/ \E m \in flight : CommandLost(m)
         \/ UNCHANGED vars
  PROVE  UNCHANGED C!vars
<1>1. CASE (\E p \in Names : TurnAway(p)) \/ UNCHANGED vars
  BY <1>1 DEF TurnAway, vars, C!vars, Open
<1>2. CASE \E m \in flight : CommandLost(m)
  <2>1. PICK m \in flight : CommandLost(m)
    BY <1>2
  <2>2. flight' = flight \ {m} /\ ~IsOk(m) /\ UNCHANGED <<actual, shown, doubt>>
    BY <2>1 DEF CommandLost, Waiting, IsOk
  <2>3. Open' = Open
    BY <2>2, OpenIs, OpenIsNext
  <2> QED
    BY <2>2, <2>3 DEF C!vars
<1> QED
  BY <1>1, <1>2

LEMMA ContractStep == IInv /\ [Next]_vars => [C!Next]_C!vars
<1> SUFFICES ASSUME IInv, [Next]_vars PROVE [C!Next]_C!vars
  OBVIOUS
<1>1. CASE \E p \in Names, value \in Values : Request(p, value)
  BY <1>1, ContractRequest DEF C!Next
<1>2. CASE \E m \in flight : HubAccepts(m) \/ AnswerArrives(m)
  BY <1>2, ContractHubAccepts, ContractAnswerArrives DEF C!Next
<1>3. CASE \E m \in flight : DeviceTakes(m) \/ AnswerLost(m)
  BY <1>3, ContractDeviceTakes, ContractAnswerLost DEF C!Next
<1>4. CASE \E n \in Names : AppChanges(n)
  BY <1>4, ContractAppChanges DEF C!Next
<1>5. CASE Report
  BY <1>5, ContractReport DEF C!Next
<1>6. CASE \/ \E p \in Names : TurnAway(p)
           \/ \E m \in flight : CommandLost(m)
           \/ UNCHANGED vars
  BY <1>6, ContractStutter
<1> QED
  BY <1>1, <1>2, <1>3, <1>4, <1>5, <1>6 DEF Next

\* With truthful menus the settings machine implements the contract of SettingContract,
\* however often other clients, losses and refusals interfere: a setting leaves doubt
\* or a change under way only with the value the device has.
THEOREM ContractKept ==
  ASSUME \A m \in Menus : Truthful(m)
  PROVE  Spec => Contract
<1>1. Init => C!Init
  BY ContractInit
<1>2. IInv /\ [Next]_vars => [C!Next]_C!vars
  BY ContractStep
<1>3. Spec => []IInv
  BY AlwaysIInv
<1> QED
  BY <1>1, <1>2, <1>3, PTL DEF Spec, Contract, C!Spec
==============================================================================
