------------------------------- MODULE MCStore -------------------------------
(* Store on two names and two triples, with the files an operator may leave. *)
EXTENDS Store, TLC

CONSTANTS a, b, s, t

Entry(name, stream) == [name |-> name, stream |-> stream, registered |-> 0, renewed |-> 0]

\* As the store would have written it; one triple under two names; malformed in ways
\* the loader catches or does not.
EditedByHand ==
    {[entries |-> {Entry(a, t)}, fault |-> "none"],
     [entries |-> {Entry(a, s), Entry(b, s)}, fault |-> "none"],
     [entries |-> {Entry(a, s), Entry(b, t)}, fault |-> "caught"],
     [entries |-> {Entry(b, t)}, fault |-> "uncaught"]}

\* One name with two triples.
RepeatedName ==
    {[entries |-> {Entry(a, s), Entry(a, t)}, fault |-> "none"]}

=============================================================================
