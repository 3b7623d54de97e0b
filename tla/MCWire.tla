-------------------------------- MODULE MCWire --------------------------------
(* Frames that between them have every section, and the receivers of one key. *)
EXTENDS Wire

CONSTANTS v, w, k, l

Field(type, value, status, time) ==
    [type |-> type, value |-> value, status |-> status, time |-> time]

Plain == Field("BYTE", v, "good", None)
Old == Field("DOUBLE", w, "bad", 5)
Array == Field("DOUBLE", <<v, w>>, "good", 5)
Empty == Field("BYTE", <<>>, "bad", None)
Null == Field("DOUBLE", None, "bad", 5)

DSM(writer, sequence, fields, encoding) ==
    [writer |-> writer, sequence |-> sequence, keep_alive |-> FALSE, fields |-> fields,
     encoding |-> encoding]

KeepAlive(writer) == [DSM(writer, None, <<>>, "DataValue") EXCEPT !.keep_alive = TRUE]

NM(pid, pid_type, group, sequence, messages) ==
    [pid |-> pid, pid_type |-> pid_type, group |-> group, sequence |-> sequence,
     messages |-> messages]

Own == {
    NM(1, "BYTE", None, None, <<DSM(1, None, <<Plain, Null>>, "DataValue")>>),
    NM(2, "UINT16", 3, 9, <<DSM(1, 9, <<Old, Empty>>, "DataValue")>>),
    NM(2, "UINT64", None, 1, <<DSM(1, 1, <<Array>>, "Variant"), KeepAlive(2)>>),
    NM(2, "UINT32", 3, None, <<KeepAlive(1)>>),
    NM(1, "BYTE", 3, None, <<DSM(1, 0, <<>>, "DataValue"), DSM(2, 1, <<Plain>>, "Variant")>>),
    NM(1, "BYTE", None, None, <<DSM(1, 0, <<Array, Array>>, "DataValue"), KeepAlive(2)>>),
    NM(1, "BYTE", None, None, <<KeepAlive(1), KeepAlive(2), KeepAlive(3)>>) }

Usual == {"publisher id", "payload header"}

Skipped == {"class id", "frame time", "frame picoseconds", "timestamp", "picoseconds",
            "status", "major", "minor"}

Options ==
    {Usual, {}, Usual \cup Skipped, Usual \cup {"ext2", "promoted"}, Skipped \cup {"ext2"},
     Usual \cup {"keep alive", "timestamp"}, {"keep alive"}}
    \cup {Usual \cup {"ext2", x} : x \in Unsupported({})}
    \cup {Usual \cup {"keep alive", x} : x \in {"raw", "delta"}}

Other == NM(4, "UINT16", 3, None, <<DSM(1, 2, <<Field("BYTE", v, "bad", None)>>, "DataValue")>>)

MCSent ==
    [message : Own, datavalue : BOOLEAN, key : {None, k, l}, options : {None}, fate : {"whole"}]
    \cup [message : {Other}, datavalue : {TRUE}, key : {None, k}, options : Options,
          fate : {"whole"}]

MCReceivers == {[key |-> None, require |-> FALSE], [key |-> k, require |-> FALSE],
                [key |-> k, require |-> TRUE]}
=============================================================================
