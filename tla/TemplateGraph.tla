--------------------------- MODULE TemplateGraph ---------------------------
(***************************************************************************)
(* The graph of a workflow job template while users edit it.  A request to *)
(* link two nodes adds the link, looks for a cycle in what its transaction *)
(* sees, takes the link away again, and attaches it if there was none.     *)
(* The labels of the links (success, failure, always) are left out: one    *)
(* pair of nodes has at most one.                                          *)
(***************************************************************************)
EXTENDS Integers, Sequences, SequencesExt

CONSTANTS
    NodeIds,            \* the nodes there may be
    MaxLinks,           \* bound of the links, pending ones included
    MaxRequests         \* bound of the link requests at one time

VARIABLES
    nodes,
    links,              \* pairs <<parent, child>> that are committed
    checked,            \* links whose request found no cycle and has not committed yet
    overlapping,        \* history: two requests that link nodes ran at the same time
    escaped             \* history: a link was found to be harmless that closed a cycle

tgvars == <<nodes, links, checked, overlapping, escaped>>

Init ==
    /\ nodes = {}
    /\ links = {}
    /\ checked = {}
    /\ overlapping = FALSE
    /\ escaped = FALSE

Children(L, n) == {c \in NodeIds : <<n, c>> \in L}
Roots(N, L) == {n \in N : \A p \in N : <<p, n>> \notin L}

\* The loop of has_cycle: a node is popped, pushed again with the children that are not visited, and visited
\* when there are none; a node that still has such children when it is on the path closes a cycle.
FindsCycle(L, start) ==
    LET finds[s \in [stack : Seq(NodeIds), visited : SUBSET NodeIds, path : SUBSET NodeIds]] ==
            IF s.stack = <<>> THEN FALSE
            ELSE LET n == Last(s.stack)
                     children_to_add == Children(L, n) \ s.visited
                 IN  IF children_to_add = {}
                     THEN finds[[stack |-> Front(s.stack), visited |-> s.visited \union {n}, path |-> s.path \ {n}]]
                     ELSE \/ n \in s.path
                          \/ finds[[stack |-> s.stack \o SetToSeq(children_to_add), visited |-> s.visited,
                                    path |-> s.path \union {n}]]
    IN  finds[[stack |-> start, visited |-> {}, path |-> {}]]

HasCycle(N, L) ==
    \/ N # {} /\ Roots(N, L) = {}
    \/ FindsCycle(L, SetToSeq(Roots(N, L)))

\* A node is created, alone or as the child of another one; neither is checked.  An id stands for a new node
\* again when nothing refers to it.
Create(n, parents) ==
    /\ n \notin nodes /\ \A l \in checked : n \notin {l[1], l[2]}
    /\ Cardinality(links \union checked) + Cardinality(parents) <= MaxLinks
    /\ nodes' = nodes \union {n}
    /\ links' = links \union {<<p, n>> : p \in parents}
    /\ UNCHANGED <<checked, overlapping, escaped>>

\* The nodes that links of L lead to from n.
Below(L, n) ==
    LET reach[i \in 1 .. Cardinality(NodeIds)] ==
            IF i = 1 THEN Children(L, n) ELSE reach[i - 1] \union UNION {Children(L, m) : m \in reach[i - 1]}
    IN  reach[Cardinality(NodeIds)]

\* n is on a cycle that no root leads to.
Hidden(L, n) ==
    n \in Below(L, n) /\ Roots(nodes, L) # {} /\ \A r \in Roots(nodes, L) : n \notin Below(L, r)

FaultyCheck(p, c) ==
    /\ {p, c} \subseteq nodes /\ p # c
    /\ Cardinality(checked) < MaxRequests /\ <<p, c>> \notin checked
    /\ Cardinality(links \union checked \union {<<p, c>>}) <= MaxLinks
    /\ IF HasCycle(nodes, links)
       THEN links' = links \ {<<p, c>>} /\ UNCHANGED <<checked, escaped>>
       ELSE /\ checked' = checked \union {<<p, c>>}
            /\ escaped' = (escaped \/ Hidden(links \union {<<p, c>>}, p))
            /\ UNCHANGED links
    /\ overlapping' = (overlapping \/ checked # {})
    /\ UNCHANGED nodes
\* is_valid_relation: an error means that the link is gone afterwards, even if it was there before.
Check(p, c) ==
    /\ {p, c} \subseteq nodes /\ p # c
    /\ Cardinality(checked) < MaxRequests /\ <<p, c>> \notin checked
    /\ Cardinality(links \union checked \union {<<p, c>>}) <= MaxLinks
    /\ LET seen == links \union {<<p, c>>}
       IN  IF HasCycle(nodes, seen)
           THEN links' = links \ {<<p, c>>} /\ UNCHANGED <<checked, escaped>>
           ELSE /\ checked' = checked \union {<<p, c>>}
                /\ escaped' = (escaped \/ Hidden(seen, p))
                /\ UNCHANGED links
    /\ overlapping' = (overlapping \/ checked # {})
    /\ UNCHANGED nodes

\* The request attaches the link and commits; it fails when a node is gone.
Attach(l) ==
    /\ l \in checked
    /\ checked' = checked \ {l}
    /\ links' = IF {l[1], l[2]} \subseteq nodes THEN links \union {l} ELSE links
    /\ UNCHANGED <<nodes, overlapping, escaped>>

Detach(l) ==
    /\ l \in links
    /\ links' = links \ {l}
    /\ UNCHANGED <<nodes, checked, overlapping, escaped>>

\* A node is deleted, and its links with it.
Delete(n) ==
    /\ n \in nodes
    /\ nodes' = nodes \ {n}
    /\ links' = {l \in links : n \notin {l[1], l[2]}}
    /\ UNCHANGED <<checked, overlapping, escaped>>

Next ==
    \/ \E n \in NodeIds : Create(n, {}) \/ Delete(n)
    \/ \E n \in NodeIds, p \in nodes : Create(n, {p})
    \/ \E p, c \in nodes : Check(p, c)
    \/ \E l \in checked : Attach(l)
    \/ \E l \in links : Detach(l)

Spec == Init /\ [][Next]_tgvars

-----------------------------------------------------------------------------

TypeOK ==
    /\ nodes \subseteq NodeIds
    /\ links \subseteq nodes \X nodes
    /\ checked \subseteq NodeIds \X NodeIds
    /\ overlapping \in BOOLEAN /\ escaped \in BOOLEAN

\* has_cycle is exact for what it looks at: it finds a cycle if and only if one can be reached from a root, or
\* there are nodes but no root, whatever the order of its stack and however paths meet.
HasCycleIsExact ==
    HasCycle(nodes, links) <=>
        \/ nodes # {} /\ \A n \in nodes : \E p \in nodes : <<p, n>> \in links
        \/ \E n \in nodes :
             /\ \A p \in nodes : <<p, n>> \notin links
             /\ \E m \in Below(links, n) : m \in Below(links, m)

\* A template has no cycle, unless two requests that link nodes overlapped, or one request closed a cycle that
\* no root led to: is_valid_relation looks at the whole graph, and deletions close nothing.
Acyclic == overlapping \/ escaped \/ \A n \in nodes : n \notin Below(links, n)
=============================================================================
