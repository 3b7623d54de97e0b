------------------------------- MODULE MCPipeline -------------------------------
(* Two publications on one address, the programs configured in several ways. *)
EXTENDS Pipeline

CONSTANTS p, q, good, bad, k, l

MCMessages == [r \in Publications |-> IF r = p THEN <<good, bad>> ELSE <<bad>>]

MCOrder == <<p, q>>

Way(origin, hasRelay, sign, verify, key, inOrder, others, wrong) ==
    [origin |-> origin, relay |-> hasRelay, sign |-> sign, verify |-> verify, key |-> key,
     ordered |-> inOrder, strays |-> others, faults |-> wrong]

MCScenarios == {
    Way(None, FALSE, None, None, None, FALSE, {}, {"lose", "write"}),
    Way(None, FALSE, None, None, None, TRUE, {p}, {"encode", "lose"}),
    Way(k, FALSE, None, None, k, TRUE, {p}, {"write"}),
    Way(None, TRUE, None, None, None, TRUE, {}, {"send"}),
    Way(k, TRUE, l, k, l, TRUE, {p}, {"lose"}),
    Way(None, TRUE, None, None, None, TRUE, {},
        {"start", "lookup", "bind", "stop", "receive"})}
=============================================================================
