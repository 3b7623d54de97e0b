---------------------------------- MODULE Stream ----------------------------------
(***************************************************************************)
(* What a pipeline promises the reader of a publication: each value shown is *)
(* one that was published under that name, with its quality; values may be   *)
(* skipped, and where the network keeps the order none is shown after a      *)
(* later one.                                                                *)
(***************************************************************************)
EXTENDS Integers

CONSTANTS Publications, Sample, None

VARIABLES
    published,  \* the samples published of each publication
    shown,      \* the sample shown of each, or None
    ordered     \* is the order kept?

vars == <<published, shown, ordered>>

Init ==
    /\ published = [p \in Publications |-> {}]
    /\ shown = [p \in Publications |-> None]
    /\ ordered \in BOOLEAN

\* A number is used once.
Publish(p) ==
    /\ \E s \in Sample :
          /\ \A t \in published[p] : t.number # s.number
          /\ published' = [published EXCEPT ![p] = @ \cup {s}]
    /\ UNCHANGED <<shown, ordered>>

Show(p) ==
    /\ \E s \in published[p] :
          /\ ordered /\ shown[p] # None => shown[p].number < s.number
          /\ shown' = [shown EXCEPT ![p] = s]
    /\ UNCHANGED <<published, ordered>>

Next == \E p \in Publications : Publish(p) \/ Show(p)

Spec == Init /\ [][Next]_vars
=============================================================================
