-------------------------------- MODULE Trie --------------------------------
(***************************************************************************)
(* The compressed trie of src/Trie.hpp, which keys the labels a thread has *)
(* been seen to execute by the values it read before them.  A trie is the  *)
(* sequence of its nodes in the order they were allocated, the root first; *)
(* a node has the label of the edge that leads to it, a payload and the    *)
(* set of its children.                                                    *)
(***************************************************************************)
EXTENDS Integers, Sequences, FiniteSets, SequencesExt

Node(label, data, children) == [lab |-> label, dat |-> data, children |-> children]

EmptyTrie == << Node(<<>>, <<>>, {}) >>

\* The child of node n whose edge begins with id; 0 if there is none.
GetEdge(T, n, id) ==
    LET edges == {c \in T[n].children : Head(T[c].lab) = id}
    IN IF edges = {} THEN 0 ELSE CHOOSE c \in edges : TRUE

\* QueryResult is an int8_t: three results are negative, and any other value
\* is the length of the common part, cut to eight bits.
Same == -3
StringIsPrefix == -2
LabelIsPrefix == -1
DontMatch == 0
Int8(i) == ((i + 128) % 256) - 128

QueryResult(label, s, i) ==
    CASE i = Len(s) /\ i = Len(label) -> Same
      [] i = Len(s) /\ i < Len(label) -> StringIsPrefix
      [] i < Len(s) /\ i = Len(label) -> LabelIsPrefix
      [] OTHER -> Int8(i)

\* How a key and the label of an edge agree.
Query(label, s) ==
    QueryResult(label, s,
        Max({k \in 0..Len(s) : k <= Len(label) /\ SubSeq(s, 1, k) = SubSeq(label, 1, k)}))

\* addNode and addEdge: a new child of n.
AddChild(T, n, label, data) ==
    Append([T EXCEPT ![n].children = @ \cup {Len(T) + 1}], Node(label, data, {}))

\* Seeded fault: the upper half of a split edge keeps the whole label.
FaultSplitEdge(T, n, e, index) ==
    Append([T EXCEPT ![n].children = (@ \ {e}) \cup {Len(T) + 1}],
           Node(SubSeq(T[e].lab, 1, index), <<>>, {e}))

\* A node for the first index values of the edge to e, between n and e; it
\* carries no payload.
SplitEdge(T, n, e, index) ==
    Append([T EXCEPT ![n].children = (@ \ {e}) \cup {Len(T) + 1},
                     ![e].lab = SubSeq(@, index + 1, Len(@))],
           Node(SubSeq(T[e].lab, 1, index), <<>>, {e}))

RECURSIVE Insert(_, _, _, _)
After(s, k) == SubSeq(s, k + 1, Len(s))

\* The edge to e begins as s does, and query() returns r.
InsertAlong(T, n, s, data, e, r) ==
    CASE r = Same -> [res |-> "present", trie |-> T]
      [] r = StringIsPrefix ->
           [res |-> "added",
            trie |-> [SplitEdge(T, n, e, Len(s)) EXCEPT ![Len(T) + 1].dat = data]]
      [] r = LabelIsPrefix -> Insert(T, e, After(s, Len(T[e].lab)), data)
      [] r > 0 /\ r < Len(T[e].lab) ->
           [res |-> "added",
            trie |-> AddChild(SplitEdge(T, n, e, r), Len(T) + 1, After(s, r), data)]
      [] OTHER -> [res |-> "BUG", trie |-> T]
InsertFrom(T, n, s, data, e) ==
    IF e = 0 THEN [res |-> "added", trie |-> AddChild(T, n, s, data)]
    ELSE InsertAlong(T, n, s, data, e, Query(T[e].lab, s))
Insert(T, n, s, data) == InsertFrom(T, n, s, data, GetEdge(T, n, Head(s)))

AddSeq(T, s, data) ==
    IF s = <<>> THEN [res |-> "present", trie |-> T] ELSE Insert(T, 1, s, data)

RECURSIVE Find(_, _, _)
FindAlong(T, s, e, r) ==
    CASE r = Same -> e
      [] r = LabelIsPrefix -> Find(T, e, SubSeq(s, Len(T[e].lab) + 1, Len(s)))
      [] OTHER -> 0
FindFrom(T, s, e) == IF e = 0 THEN 0 ELSE FindAlong(T, s, e, Query(T[e].lab, s))
Find(T, n, s) == FindFrom(T, s, GetEdge(T, n, Head(s)))

\* The node whose payload lookup() returns; 0 for the null pointer.
Lookup(T, s) == IF s = <<>> THEN 1 ELSE Find(T, 1, s)

SetData(T, s, data) ==
    LET n == Lookup(T, s) IN IF n = 0 THEN T ELSE [T EXCEPT ![n].dat = data]
=============================================================================
