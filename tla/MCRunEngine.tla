---------------------------- MODULE MCRunEngine ----------------------------
(***************************************************************************)
(* Small instances of RunEngine.  Nodes are 1 to 4 and runs 11 and 12.     *)
(***************************************************************************)
EXTENDS RunEngine

Pairs    == {<<1, 2>>, <<3, 4>>}     \* two chains, as the ids run
Downward == {<<2, 1>>, <<3, 2>>}     \* against the ids

Of(entry, targets, hurt) == [entry |-> entry, targets |-> targets, hurt |-> hurt]
Both(a, b) == [r \in Run |-> IF r = 11 THEN a ELSE b]

Agent(targets) == Of("agent", targets, {})
AdHocOnce      == Of("adhoc", {}, {})
AdHocAgain     == Of("adhoc", {}, {"again"})
Canceled       == Of("agent", {2}, {"cancel"})
Hurried        == Of("agent", {2}, {"cancel", "expire"})
Replayed       == Of("replay", {}, {})
Manual         == Of("manual", {}, {})

\* Runs over different nodes, ad-hoc runs, one of them sent twice.
Apart == {Both(Agent({2}), Agent({4})), Both(Agent({2}), AdHocOnce), Both(Manual, AdHocAgain)}

\* A run that is canceled or too long and its replay; an ad-hoc run beside one.
Faults == {Both(Hurried, Replayed), Both(Agent({2}), AdHocOnce)}

OneCanceled == {Both(Canceled, Manual)}
SentTwice   == {Both(Manual, AdHocAgain)}
SameNode    == {Both(Agent({1}), Agent({1}))}
OneAgent    == {Both(Agent({1}), Manual)}
AgentThenReplay == {Both(Agent({2}), Replayed)}
Chains      == {Both(Agent({2}), Agent({4}))}
=============================================================================
