---------------------------- MODULE SettingContract ---------------------------
(*
 What an application may rely on: a setting that the library shows is the
 device's, unless a change of it is under way (open) or the library has lost
 track of it (doubt).  Changes come into effect at the device first and are
 shown afterwards; a setting never leaves open or doubt with a wrong value.
*)
VARIABLES setting, known, open, doubt
vars == <<setting, known, open, doubt>>

Settings == DOMAIN setting
Agrees(n) == known[n] = setting[n]
\* f changes at most for the settings in names.
Within(f, names) == DOMAIN f' = DOMAIN f /\ \A n \in DOMAIN f \ names : f'[n] = f[n]

Init ==
  /\ DOMAIN known = Settings /\ open = {}
  /\ doubt \subseteq Settings /\ \A n \in Settings \ doubt : Agrees(n)

\* A request may leave settings in doubt.
Ask == doubt \subseteq doubt' /\ UNCHANGED <<setting, known, open>>
\* The device takes new values of some settings: they are open until shown.
Take ==
  /\ open \subseteq open' /\ Within(setting, open')
  /\ UNCHANGED <<known, doubt>>
\* An answer shows values of open settings, and closes those that agree.
Show ==
  /\ open' \subseteq open /\ Within(known, open \cup doubt)
  /\ \A n \in (open \ open') \ doubt : Agrees(n)'
  /\ UNCHANGED <<setting, doubt>>
\* An answer is lost: what it would have shown is in doubt.
Lose ==
  /\ open' \subseteq open /\ doubt \cup (open \ open') \subseteq doubt'
  /\ UNCHANGED <<setting, known>>
\* Another client changes settings behind the library's back.
Drift == Within(setting, doubt') /\ doubt \subseteq doubt' /\ UNCHANGED <<known, open>>
\* A report shows what the device has, and settles the settings it refreshes.
Report ==
  /\ doubt' \subseteq doubt
  /\ DOMAIN known' = DOMAIN known /\ \A n \in Settings : Agrees(n)' \/ known'[n] = known[n]
  /\ \A n \in doubt \ doubt' : Agrees(n)'
  /\ UNCHANGED <<setting, open>>
Next == Ask \/ Take \/ Show \/ Lose \/ Drift \/ Report
Spec == Init /\ [][Next]_vars
==============================================================================
