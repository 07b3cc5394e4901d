---------------------------- MODULE MCProviders ----------------------------
(***************************************************************************)
(* Two workspaces, each with provider ids of its own, or with one they     *)
(* share.  Requests ask for a capability, whichever provider has it.       *)
(***************************************************************************)
EXTENDS Providers, TLC

CONSTANTS w1, w2, p1, p2, image, text, m1

OwnIds == {<<w1, p1>>, <<w2, p2>>}

SharedIds == {<<w1, p1>>, <<w2, p1>>}

SomeDeclared == {{image}, {text}}

Guessed == [m \in {m1} |-> {image}]

Asked == {[capability |-> image, provider |-> None, credential |-> None]}

\* Requests are alike, and so are the workspaces with the provider ids they use.
Same == [x \in {w1, w2, p1, p2} |-> x]

Swapped == [Same EXCEPT ![w1] = w2, ![w2] = w1, ![p1] = p2, ![p2] = p1]

Alike == {f @@ g : f \in {Same, Swapped}, g \in Permutations(Request)}
=============================================================================
