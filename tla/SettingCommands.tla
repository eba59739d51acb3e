--------------------------- MODULE SettingCommands ---------------------------
(*
 What a setter of station.ts sends.  A plan is a set of alternative sequences of
 commands: {} when the setter throws NotSupportedError, {<<>>} when it returns
 without sending, several alternatives when the value or the stored settings
 decide which of them is sent.

 A command names the setting it is for and describes how its value is made and
 what its answer does:
   wire      command type(s) and, where one type serves several settings, the
             field that tells them apart
   fromShown settings whose values, as shown to applications, are sent along
   fromRaw   settings whose values are sent along out of a raw parameter
   unknown   what is done while that parameter is unknown: a record is not made up
             and "drop" sends nothing; "zero" takes every flag as off, "floor" does
             so and stays off; "sends" when nothing is read from one
   off       how a flag is switched off: "clears" it, "toggles" it, toggles it
             "unlessOne" flag is on, "stays" on while the others change, or
             "covers" a second flag
   keepsOne  a mask that would become 0 is replaced by the flag itself
   edits     the raw parameter's copy is modified before it is sent
   back      a good answer writes the sent record to the raw parameter
   forces    settings that are overwritten with a value the caller did not give
   tells     settings the answer's onSuccess shows
   shows     the setting the answer's property data names
   stages    2 when the hub accepts the command before the device answers
   on        the answer that updates the shown value: first, second or never
*)
EXTENDS Sequences, DeviceProperties

Command(wire) ==
  [wire |-> wire, name |-> "", shows |-> "", fromShown |-> {}, fromRaw |-> {}, unknown |-> "sends",
   off |-> "clears", keepsOne |-> FALSE, edits |-> FALSE, back |-> FALSE,
   forces |-> {}, tells |-> {}, stages |-> 1, on |-> "first"]

Refused == {}
Ignored == {<<>>}
Sent(wire) == {<<Command(wire)>>}
Plain(type) == Sent(<<type>>)
Payload(cmd) == Sent(<<"CMD_SET_PAYLOAD", cmd>>)
Doorbell(commandType) == Sent(<<"CMD_DOORBELL_SET_PAYLOAD", commandType>>)
Both(first, second) == {x \o y : x \in first, y \in second}

\* The if/else chain of a setter: the first arm whose condition holds, and the
\* NotSupportedError of the final else.
Arm(when, plan) == [when |-> when, plan |-> plan]
Otherwise(plan) == Arm(TRUE, plan)
FirstOf(arms) ==
  LET open == SelectSeq(arms, LAMBDA arm : arm.when)
  IN  IF open = <<>> THEN Refused ELSE Head(open).plan

Each(plan, Change(_)) == {[i \in DOMAIN cmds |-> Change(cmds[i])] : cmds \in plan}
Carrying(names, plan) == Each(plan, LAMBDA c : [c EXCEPT !.fromShown = names])
FromRaw(names, unknown, plan) ==
  Each(plan, LAMBDA c : [c EXCEPT !.fromRaw = names, !.unknown = unknown])
SwitchedOff(off, plan) == Each(plan, LAMBDA c : [c EXCEPT !.off = off])
KeepingOne(plan) == Each(plan, LAMBDA c : [c EXCEPT !.keepsOne = TRUE])
EditingRaw(plan) == Each(plan, LAMBDA c : [c EXCEPT !.edits = TRUE])
WrittenBack(plan) == Each(plan, LAMBDA c : [c EXCEPT !.back = TRUE])
Forcing(names, plan) == Each(plan, LAMBDA c : [c EXCEPT !.forces = names])
Telling(names, plan) == Each(plan, LAMBDA c : [c EXCEPT !.tells = names])
TwoStages(plan) == Each(plan, LAMBDA c : [c EXCEPT !.stages = 2])

\* The property a command is for, among the settings the device has.
Named(d, name, plan) ==
  LET others == NamesOf(d) \ {name}
  IN  Each(plan, LAMBDA c :
        IF c.name # "" THEN c
        ELSE [c EXCEPT !.name = name, !.shows = IF @ = "" THEN name ELSE @,
                       !.fromShown = @ \cap others, !.fromRaw = @ \cap others,
                       !.forces = @ \cap others, !.tells = @ \cap others])

\* A setting kept in a raw parameter with others: the stored record with one
\* field replaced is sent, and written back when it is acknowledged.
RecordOf(d, key) ==
  WrittenBack(FromRaw(Sharing(d, key), "drop", Payload(key)))
==============================================================================
