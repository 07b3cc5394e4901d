--------------------------- MODULE MCSettingsStore ---------------------------
\* The instances of SettingsStore that TLC checks: documents and requests.
EXTENDS SettingsStore

CONSTANTS theme, direct, token, light, dark, q1

Doc(wrapped, prefs, quota) ==
  [wrapped |-> wrapped, prefs |-> [k \in Key |-> IF k \in DOMAIN prefs THEN prefs[k] ELSE None],
   nested |-> None, sealed |-> None, quota |-> quota]

Legacy  == Doc(FALSE, [k \in {theme} |-> light], None)
Present == Doc(TRUE, [k \in {theme} |-> light], q1)
Rows    == {Legacy, Present}

Prefs(k, v)   == [on |-> "prefs", set |-> [j \in {k} |-> v]]
Secrets(k, v) == [on |-> "secrets", set |-> [j \in {k} |-> v]]

Changes ==
  { << Prefs(theme, dark) >>, << Prefs(direct, light) >>, << Prefs(direct, Refused) >>,
    << Secrets(token, None), Prefs(theme, light) >>,
    << Secrets(token, dark), Prefs(direct, Refused) >>,
    << Prefs(theme, light), Secrets(token, light) >> }
=============================================================================
