-------------------------------- MODULE MCLookup --------------------------------
(* Clients of two registries, some at a time: python and twin want the same; other  *)
(* wants it on another network, and shadow another name, in the same cache file;    *)
(* sub and pub have to do with a name that has a file of its own.                   *)
EXTENDS Lookup

CONSTANTS primary, secondary, x, y, z, office, a, b, f, g,
          sub, python, twin, java, other, shadow, pub

MCOrder == <<primary, secondary>>

MCCacheName == [n \in Names |-> IF n = y THEN g ELSE f]

Wants(kind, name, network) ==
    [kind |-> kind, name |-> name, network |-> network, address |-> a]

\* Relayed into the office network.
Relayed == [address |-> a, endpoints |-> [n \in Networks |-> b]]

Moved == [address |-> b, endpoints |-> [n \in Networks |-> None]]

MCPublications == {Relayed, Moved}

MCInitial == {[n \in Names |-> IF n = y THEN None ELSE Relayed]}

MCClients == [c \in Who |->
    CASE c = sub -> Wants("sub", y, None)
      [] c = python -> Wants("python", x, None)
      [] c = twin -> Wants("sub", x, None)
      [] c = other -> Wants("python", x, office)
      [] c = shadow -> Wants("python", z, None)
      [] c = java -> Wants("java", x, office)
      [] c = pub -> Wants("publisher", y, None)]

MCGroups == {{sub, pub}, {sub, python}, {python, other}, {python, twin},
             {python, shadow}, {java}}
=============================================================================
