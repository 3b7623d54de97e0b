------------------------------- MODULE MCFxLink -------------------------------
(* FxLink between two servers. *)
EXTENDS FxLink

CONSTANTS A, B, x, y, e, f, m, n

Wire(pub, sub, name, output, input) ==
    [publisher |-> pub, subscriber |-> sub, name |-> name, output |-> output,
     input |-> input]

\* The same name, the same datasets under another name, the opposite direction.
Rivals == {Wire(A, B, x, e, e), Wire(A, B, y, e, f), Wire(B, A, x, e, e)}

\* Two managers contend; an establish of the subscriber is lost or cancelled.
Contention ==
    [managers |-> {m, n}, plans |-> Rivals, lossy |-> {"establish subscriber"},
     cancellable |-> {"establish subscriber"} \cup RollingBack,
     drops |-> FALSE, stuck |-> FALSE]

\* One manager; every await may raise or be cancelled, and servers drop connections and
\* refuse to close them.
Outage ==
    [managers |-> {m}, plans |-> {Wire(A, B, x, e, e)}, lossy |-> Awaits,
     cancellable |-> Awaits, drops |-> TRUE, stuck |-> TRUE]

\* Two managers contend for a name, and rollbacks and closes are refused or lost.
Refusal ==
    [managers |-> {m, n}, plans |-> {Wire(A, B, x, e, e)},
     lossy |-> {"establish subscriber"} \cup RollingBack, cancellable |-> RollingBack,
     drops |-> FALSE, stuck |-> TRUE]

MCScenarios == {Contention, Outage, Refusal}
=============================================================================
