----------------------------- MODULE Registrations -----------------------------
(***************************************************************************)
(* What registries keep: names, each of at most one wire triple.           *)
(***************************************************************************)
CONSTANTS Names,      \* publication names
          Streams,    \* wire triples (publisher, writer group, dataset writer)
          Absent      \* no publication, or no name

=============================================================================
