--------------------------- MODULE MCRangeLists ----------------------------
(***************************************************************************)
(* RangeLists for TLC.  Names are compared for equality only, so the first *)
(* range's is fixed; the order of the allowed ranges is lost in sort, so   *)
(* they come in one order.                                                 *)
(***************************************************************************)
EXTENDS RangeLists

\* Both ends of the addresses, and a gap between them.
Ends == {0, 1, 2, MaxIp}

Blocks == {s \in BoundedSeq({r \in NamedRange : {r.start, r.end} \subseteq Ends}, 2) :
              s # <<>> => s[1].name = "a"}

Allows == {s \in BoundedSeq({r \in Pair : {r.start, r.end} \subseteq Ends}, 2) :
              \A i, j \in DOMAIN s : i < j => Before(s, i, j)}

\* A range with up to three holes: the second round of erase has work, too.
Holes == {s \in BoundedSeq({r \in Pair : r.start = r.end}, 3) :
             \A i, j \in DOMAIN s : i < j => s[i].start < s[j].start}

Input(u, f, a) == [use |-> u, file |-> f, allow |-> a]

MCInputs ==
    {Input("block", f, a) : f \in Blocks, a \in Allows}
        \cup {Input("block", <<r>>, a) : r \in {r \in NamedRange : r.name = "a"}, a \in Holes}
        \cup {Input("allow", [i \in DOMAIN a |-> [name |-> "a", start |-> a[i].start, end |-> a[i].end]],
                    <<>>) : a \in Holes \ {<<>>}}
=============================================================================
