------------------------------ MODULE PrioQueue ------------------------------
(***************************************************************************)
(* The priority queue of avahi-core (prioq.c): a complete binary tree of   *)
(* linked nodes.  A node knows its parent, its children, its coordinates   *)
(* and its neighbours in level order.  Moving a node exchanges it with     *)
(* another by relinking both, which must cope with nodes that are parent   *)
(* and child, siblings, or neighbours in level order.                      *)
(***************************************************************************)
EXTENDS Integers, FiniteSets

CONSTANTS
    Nodes,      \* the nodes, numbered
    Prios,      \* the priorities, compared as numbers
    NullNode    \* the NULL pointer

ASSUME PrioQueueAssumption ==
    IsFiniteSet(Nodes) /\ Nodes \subseteq Nat /\ NullNode \notin Nodes /\ Prios \subseteq Nat

VARIABLES
    heap,   \* the links of the nodes, q->root, q->last, and which nodes exist
    prio    \* what compare() sees of n->data

heapVars == <<heap, prio>>

Blank == [parent |-> NullNode, left |-> NullNode, right |-> NullNode,
          prev |-> NullNode, next |-> NullNode, x |-> 0, y |-> 0]

\* avahi_prio_queue_new()
EmptyQueue(N) == [node |-> [n \in N |-> Blank], used |-> {},
                  root |-> NullNode, last |-> NullNode]

\* n->f = v, and n->f = m with "if m then m->g = n".
Set(h, n, f, v) == IF n = NullNode THEN h ELSE [h EXCEPT !.node[n][f] = v]
Link(h, n, f, m, g) == Set(Set(h, n, f, m), m, g, n)
LinkChild(h, n, f, m) == Link(h, n, f, m, "parent")
LinkNext(h, n, m) ==
    IF m = NullNode THEN [Set(h, n, "next", m) EXCEPT !.last = n]
    ELSE Link(h, n, "next", m, "prev")
LinkPrev(h, n, m) == Link(h, n, "prev", m, "next")

\* n takes the place below p that the left child of p told of, or the root.
Adopt(h, p, isLeft, n) ==
    IF p = NullNode THEN [h EXCEPT !.root = n]
    ELSE Set(h, p, IF isLeft THEN "left" ELSE "right", n)

\* get_node_at_xy(): the bits of x lead from the root down to level y.
RECURSIVE Descend(_, _, _, _)
Descend(h, n, x, y) ==
    IF y = 0 THEN n
    ELSE Descend(h, IF (x \div 2^(y - 1)) % 2 = 1 THEN h.node[n].right ELSE h.node[n].left,
                 x, y - 1)
NodeAtXY(h, x, y) == Descend(h, h.root, x, y)

-----------------------------------------------------------------------------
(* exchange_nodes()                                                        *)

SwapPositions(h, a, b) ==
    [h EXCEPT !.node[a].x = h.node[b].x, !.node[a].y = h.node[b].y,
              !.node[b].x = h.node[a].x, !.node[b].y = h.node[a].y]

\* p is the parent of c.
SwapParentAndChild(h, c, p) ==
    LET nc == h.node[c]
        np == h.node[p]
        side == IF np.left = c THEN "left" ELSE "right"
        other == IF side = "left" THEN "right" ELSE "left"
        h1 == Set(Set(h, p, "parent", c), c, "parent", np.parent)
        h2 == Adopt(h1, np.parent,
                    np.parent # NullNode /\ h.node[np.parent].left = p, c)
        h3 == Set(LinkChild(h2, p, side, nc[side]), c, side, p)
    IN LinkChild(LinkChild(h3, c, other, np[other]), p, other, nc[other])

\* Neither is the parent of the other; they may be siblings.
SwapStrangers(h, a, b) ==
    LET na == h.node[a]
        nb == h.node[b]
        aLeft == na.parent # NullNode /\ h.node[na.parent].left = a
        bLeft == nb.parent # NullNode /\ h.node[nb.parent].left = b
        h1 == Adopt(Set(h, a, "parent", nb.parent), nb.parent, bLeft, a)
        h2 == Adopt(Set(h1, b, "parent", na.parent), na.parent, aLeft, b)
        h3 == LinkChild(LinkChild(h2, a, "left", nb.left), b, "left", na.left)
    IN LinkChild(LinkChild(h3, a, "right", nb.right), b, "right", na.right)

\* a comes right before b.
SwapNeighbours(h, a, b) ==
    LET h1 == Set(Set(h, a, "prev", b), b, "next", a)
    IN LinkPrev(LinkNext(h1, a, h.node[b].next), b, h.node[a].prev)

SwapSiblings(h, a, b) ==
    LET na == h.node[a]
        nb == h.node[b]
        h1 == LinkNext(LinkPrev(h, a, nb.prev), a, nb.next)
    IN CASE na.next = b -> SwapNeighbours(h, a, b)
         [] nb.next = a -> SwapNeighbours(h, b, a)
         [] OTHER -> LinkNext(LinkPrev(h1, b, na.prev), b, na.next)

Exchange(h, a, b) ==
    LET h1 == SwapPositions(h, a, b)
        h2 == CASE h.node[a].parent = b -> SwapParentAndChild(h1, a, b)
                [] h.node[b].parent = a -> SwapParentAndChild(h1, b, a)
                [] OTHER -> SwapStrangers(h1, a, b)
    IN SwapSiblings(h2, a, b)

-----------------------------------------------------------------------------
(* avahi_prio_queue_shuffle(), put() and remove()                          *)

RECURSIVE MoveUp(_, _, _)
MoveUp(h, n, key) ==
    LET p == h.node[n].parent
    IN IF p # NullNode /\ key[p] > key[n] THEN MoveUp(Exchange(h, n, p), n, key) ELSE h

RECURSIVE MoveDown(_, _, _)
MoveDown(h, n, key) ==
    LET l == h.node[n].left
        r == h.node[n].right
        min == IF r # NullNode /\ key[r] < key[l] THEN r ELSE l
    IN IF l = NullNode \/ key[n] <= key[min] THEN h
       ELSE MoveDown(Exchange(h, n, min), n, key)

Shuffle(h, n, key) == MoveDown(MoveUp(h, n, key), n, key)

\* The place after q->last: the next column, or the next level.
QueuePut(h, n, key) ==
    LET last == h.node[h.last]
        wraps == last.x + 1 >= 2^last.y
        x == IF wraps THEN 0 ELSE last.x + 1
        y == IF wraps THEN last.y + 1 ELSE last.y
        parent == NodeAtXY(h, x \div 2, y - 1)
        h1 == IF h.last = NullNode
              THEN [h EXCEPT !.node[n] = Blank, !.root = n]
              ELSE Set(Set([h EXCEPT !.node[n] = [Blank EXCEPT !.x = x, !.y = y,
                                      !.prev = h.last, !.parent = parent]],
                           h.last, "next", n),
                       parent, IF x % 2 = 1 THEN "right" ELSE "left", n)
    IN Shuffle([h1 EXCEPT !.last = n, !.used = @ \union {n}], n, key)

\* The last node is taken off; another one is exchanged with it first.
RemoveLast(h, n) ==
    LET nn == h.node[n]
        h1 == Set([h EXCEPT !.last = nn.prev, !.used = @ \ {n},
                       !.node[n] = Blank], nn.prev, "next", NullNode)
    IN IF nn.parent = NullNode THEN [h1 EXCEPT !.root = NullNode]
       ELSE Set(h1, nn.parent,
                IF h.node[nn.parent].left = n THEN "left" ELSE "right", NullNode)

QueueRemove(h, n, key) ==
    IF n = h.last THEN RemoveLast(h, n)
    ELSE Shuffle(RemoveLast(Exchange(h, h.last, n), n), h.last, key)

-----------------------------------------------------------------------------
HeapInit == heap = EmptyQueue(Nodes) /\ prio = [n \in Nodes |-> 0]

\* Which free node malloc() returns makes no difference: the first.
Put(n, k) ==
    /\ n \notin heap.used /\ \A m \in Nodes \ heap.used : n <= m
    /\ prio' = [prio EXCEPT ![n] = k]
    /\ heap' = QueuePut(heap, n, prio')

RemoveNode(n) ==
    /\ n \in heap.used
    /\ heap' = QueueRemove(heap, n, prio)
    /\ prio' = [prio EXCEPT ![n] = 0]

Reprioritise(n, k) ==
    /\ n \in heap.used
    /\ prio' = [prio EXCEPT ![n] = k]
    /\ heap' = Shuffle(heap, n, prio')

HeapNext ==
    \/ \E n \in Nodes, k \in Prios : Put(n, k) \/ Reprioritise(n, k)
    \/ \E n \in Nodes : RemoveNode(n)

-----------------------------------------------------------------------------
(* The links agree with one complete tree: coordinates number the nodes in level
   order, parent and child links follow from them, the chain of prev and next
   visits the nodes in that order, and nobody is before its parent.  Then the
   root is the next timer to run. *)
Index(h, n) == 2^h.node[n].y + h.node[n].x
TreeSound(h, key) ==
    LET count == Cardinality(h.used)
        at(i) == IF i \in 1..count THEN CHOOSE n \in h.used : Index(h, n) = i ELSE NullNode
    IN /\ {Index(h, n) : n \in h.used} = 1..count
       /\ h.root = at(1) /\ h.last = at(count)
       /\ \A n \in h.used :
             LET i == Index(h, n) IN
             /\ h.node[n].parent = at(i \div 2)
             /\ h.node[n].left = at(2 * i) /\ h.node[n].right = at(2 * i + 1)
             /\ h.node[n].prev = at(i - 1) /\ h.node[n].next = at(i + 1)
             /\ i > 1 => key[at(i \div 2)] <= key[n]

QueueSound == TreeSound(heap, prio)
=============================================================================
