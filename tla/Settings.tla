------------------------------ MODULE Settings ------------------------------
(***************************************************************************)
(* What the settings of a workspace promise the people who change them:    *)
(* preferences, secrets and the quota are cells of their own.  A request   *)
(* is a sequence of changes; each takes effect at one point, sets the      *)
(* cells it names and leaves all others, and nothing else changes them.    *)
(***************************************************************************)
EXTENDS Sequences

CONSTANTS
  Client,
  Key, SecretKey, Value,  \* preferences, extra credentials, and their values
  Limit,                  \* quotas
  None,                   \* a cell that is not set
  Requests                \* the sequences of changes a client may ask for

VARIABLES prefs, secrets, quota,
          asked           \* the changes of each client's request yet to come

cells == <<prefs, secrets, quota>>

SettingsInit ==
  /\ prefs \in [Key -> Value \union {None}]
  /\ secrets \in [SecretKey -> Value \union {None}]
  /\ quota \in Limit \union {None}
  /\ asked = [c \in Client |-> <<>>]

Overlaid(old, set) == [k \in DOMAIN old |-> IF k \in DOMAIN set THEN set[k] ELSE old[k]]

Ask(c) ==
  /\ asked[c] = <<>>
  /\ \E r \in Requests : asked' = [asked EXCEPT ![c] = r]
  /\ UNCHANGED cells

Change(c) ==
  /\ asked[c] # <<>>
  /\ asked' = [asked EXCEPT ![c] = Tail(@)]
  /\ LET part == Head(asked[c]) IN
     IF part.on = "prefs"
     THEN prefs' = Overlaid(prefs, part.set) /\ UNCHANGED <<secrets, quota>>
     ELSE secrets' = Overlaid(secrets, part.set) /\ UNCHANGED <<prefs, quota>>

\* A request may be refused or fail, the rest of it with it.
GiveUp(c) ==
  /\ asked[c] # <<>>
  /\ asked' = [asked EXCEPT ![c] = <<>>]
  /\ UNCHANGED cells

SetLimit == quota' \in Limit /\ UNCHANGED <<prefs, secrets, asked>>

SettingsNext == SetLimit \/ \E c \in Client : Ask(c) \/ Change(c) \/ GiveUp(c)

SettingsSpec == SettingsInit /\ [][SettingsNext]_<<cells, asked>>
=============================================================================
