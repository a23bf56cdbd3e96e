-------------------------- MODULE ManifestRegister --------------------------
(***************************************************************************)
(* What the manifest store promises concurrent runs of one source: a       *)
(* register whose writes never replace a more recently seen entry, however *)
(* many runs save at once. ManifestStore implements it.                    *)
(***************************************************************************)
EXTENDS Integers

CONSTANTS Runs, Docs

VARIABLES
    stored,  \* the manifest
    offer    \* the manifest each run wants to see in it

Entries   == [seen: Nat, made: Nat]
Manifests == [Docs -> Entries]
NoEntry   == [seen |-> 0, made |-> 0]

\* Per document, the more recently seen of two entries; the offered one on a tie.
Newest(old, new) == [d \in Docs |-> IF new[d].seen >= old[d].seen THEN new[d] ELSE old[d]]

Init ==
    /\ stored \in Manifests
    /\ offer = [r \in Runs |-> [d \in Docs |-> NoEntry]]

Offer ==
    /\ offer' \in [Runs -> Manifests]
    /\ UNCHANGED stored

Publish(r) ==
    /\ stored' = Newest(stored, offer[r])
    /\ UNCHANGED offer

Next == Offer \/ \E r \in Runs : Publish(r)

Spec == Init /\ [][Next]_<<stored, offer>>
=============================================================================
