---------------------------- MODULE CallChainCache ----------------------------
(***************************************************************************)
(* The LRUCache of simpleperf's CallChainJoiner: a fixed array of nodes,   *)
(* one per (ip, sp) of the cached call chains, linked from callee to       *)
(* caller.  The leaves are in a circular LRU list through the sentinel     *)
(* node 0, and the two links share their memory (a union) with the count   *)
(* of children that a node has when it is not a leaf: word0 is             *)
(* leaf_link_prev or children_count, word1 is leaf_link_next.              *)
(*                                                                         *)
(* The nodes of different tids never meet; this is the cache of one tid.   *)
(* AddCallChain is cut into its loop iterations.                           *)
(***************************************************************************)
EXTENDS Integers, Sequences, FiniteSets

CONSTANTS
    Chains,          \* call chains: sequences of <<ip, sp>>, callee first
    max_node_count,
    matched_node_count_to_extend_callchain

NoKey == <<0, 0>>

AllNodes == 0 .. max_node_count

Keys == UNION {{c[n] : n \in DOMAIN c} : c \in Chains}

\* CallChainJoiner::AddCallChain cuts a chain where its sps decrease or an
\* item comes twice.
WellFormed(c) ==
    \A n \in 2 .. Len(c) : c[n - 1][2] <= c[n][2] /\ \A m \in 1 .. n - 1 : c[m] # c[n]

VARIABLES
    nodes,             \* nodes_
    node_set_,         \* indices of the nodes in the hash set
    used_node_count,
    pc,
    ips,               \* the chain given, and then its extension
    chain,             \* the nodes of the chain given
    pos,               \* loop variable
    can_extend,
    top                \* where the extension has got to

vars == <<nodes, node_set_, used_node_count, pc, ips, chain, pos, can_extend, top>>

\* The sentinel is linked to itself; the other nodes are not used yet.
Init ==
    /\ nodes = [n \in AllNodes |->
                    [key |-> NoKey, is_leaf |-> TRUE, parent_index |-> 0, word0 |-> 0, word1 |-> 0]]
    /\ node_set_ = {}
    /\ used_node_count = 0
    /\ pc = "idle"
    /\ ips = <<>>
    /\ chain = <<>>
    /\ pos = 1
    /\ can_extend = FALSE
    /\ top = 0

-----------------------------------------------------------------------------
(* The list and the tree, as functions from the nodes to the nodes after.  *)

RemoveNodeFromLRUList(ns, n) ==
    LET prev == ns[n].word0
        next == ns[n].word1
    IN  [[ns EXCEPT ![prev].word1 = next] EXCEPT ![next].word0 = prev]

AppendNodeToLRUList(ns, n) ==
    LET prev == ns[0].word0
    IN  [[ns EXCEPT ![n].word0 = prev, ![n].word1 = 0]
            EXCEPT ![prev].word1 = n, ![0].word0 = n]

DecreaseChildCountOfNode(ns, n) ==
    LET less == [ns EXCEPT ![n].word0 = @ - 1]
    IN  IF less[n].word0 = 0
        THEN AppendNodeToLRUList([less EXCEPT ![n].is_leaf = TRUE], n)
        ELSE less

WithoutParent(ns, n) ==
    IF ns[n].parent_index # 0 THEN DecreaseChildCountOfNode(ns, ns[n].parent_index) ELSE ns

\* Mutant: a node that gets a child stays in the list.
LinkParentInList(ns, child, new_parent) ==
    LET linked == [WithoutParent(ns, child) EXCEPT ![child].parent_index = new_parent]
    IN  IF linked[new_parent].is_leaf
        THEN [linked EXCEPT ![new_parent].is_leaf = FALSE, ![new_parent].word0 = 1]
        ELSE [linked EXCEPT ![new_parent].word0 = @ + 1]

LinkParent(ns, child, new_parent) ==
    LET linked == [WithoutParent(ns, child) EXCEPT ![child].parent_index = new_parent]
    IN  IF linked[new_parent].is_leaf
        THEN [RemoveNodeFromLRUList(linked, new_parent)
                EXCEPT ![new_parent].is_leaf = FALSE, ![new_parent].word0 = 1]
        ELSE [linked EXCEPT ![new_parent].word0 = @ + 1]

UnlinkParent(ns, child) == [WithoutParent(ns, child) EXCEPT ![child].parent_index = 0]

FindNode(k) == {n \in node_set_ : nodes[n].key = k}

\* The node that AllocNode returns, and the nodes once it is taken from the
\* front of the list.
AllocatedNode ==
    IF used_node_count < max_node_count THEN used_node_count + 1 ELSE nodes[0].word1

UsedAfterAlloc ==
    IF used_node_count < max_node_count THEN used_node_count + 1 ELSE used_node_count

AfterAlloc ==
    IF used_node_count < max_node_count
    THEN nodes
    ELSE WithoutParent(RemoveNodeFromLRUList(nodes, AllocatedNode), AllocatedNode)

-----------------------------------------------------------------------------
AddCallChain ==
    /\ pc = "idle"
    /\ ips' \in Chains
    /\ pc' = "build"
    /\ UNCHANGED <<nodes, node_set_, used_node_count, chain, pos, can_extend, top>>

\* GetNode of a node that is there: a leaf becomes the most recently used.
GetNodeFound ==
    /\ pc = "build"
    /\ pos <= Len(ips)
    /\ \E n \in FindNode(ips[pos]) :
        /\ nodes' = IF nodes[n].is_leaf
                    THEN AppendNodeToLRUList(RemoveNodeFromLRUList(nodes, n), n)
                    ELSE nodes
        /\ chain' = Append(chain, n)
    /\ pos' = pos + 1
    /\ UNCHANGED <<node_set_, used_node_count, pc, ips, can_extend, top>>

GetNodeAllocated ==
    /\ pc = "build"
    /\ pos <= Len(ips)
    /\ FindNode(ips[pos]) = {}
    /\ LET n == AllocatedNode
           fresh == [key |-> ips[pos], is_leaf |-> TRUE, parent_index |-> 0,
                     word0 |-> n, word1 |-> n]
       IN  /\ nodes' = AppendNodeToLRUList([AfterAlloc EXCEPT ![n] = fresh], n)
           /\ node_set_' = node_set_ \cup {n}
           /\ chain' = Append(chain, n)
    /\ used_node_count' = UsedAfterAlloc
    /\ pos' = pos + 1
    /\ UNCHANGED <<pc, ips, can_extend, top>>

\* Step 2 looks at the last two nodes only: chain_pos never changes.
CheckExtend ==
    /\ pc = "build"
    /\ pos > Len(ips)
    /\ can_extend' =
        /\ Len(chain) >= matched_node_count_to_extend_callchain
        /\ matched_node_count_to_extend_callchain > 1 =>
            nodes[chain[Len(chain) - 1]].parent_index = chain[Len(chain)]
    /\ pc' = "link"
    /\ pos' = 1
    /\ UNCHANGED <<nodes, node_set_, used_node_count, ips, chain, top>>

LinkChain ==
    /\ pc = "link"
    /\ pos < Len(chain)
    /\ nodes' = LinkParent(nodes, chain[pos], chain[pos + 1])
    /\ pos' = pos + 1
    /\ UNCHANGED <<node_set_, used_node_count, pc, ips, chain, can_extend, top>>

Back == chain[Len(chain)]

\* AddCallChain returns ips; its local variables are gone.
Return ==
    /\ pc' = "idle"
    /\ chain' = <<>>
    /\ pos' = 1
    /\ can_extend' = FALSE
    /\ top' = 0

EndLink ==
    /\ pc = "link"
    /\ pos >= Len(chain)
    /\ IF can_extend
       THEN pc' = "extend" /\ top' = Back /\ UNCHANGED <<nodes, chain, pos, can_extend>>
       ELSE nodes' = UnlinkParent(nodes, Back) /\ Return
    /\ UNCHANGED <<node_set_, used_node_count, ips>>

\* The nodes at the end of the chain that have the sp of k.
TopNodesWithSp(sp) ==
    {n \in DOMAIN chain : \A m \in n .. Len(chain) : nodes[chain[m]].key[2] = sp}

\* Mutant: no loop is looked for.
HasLoopNever(k) == FALSE

HasLoop(k) ==
    /\ k[2] = nodes[Back].key[2]
    /\ \E n \in TopNodesWithSp(k[2]) : nodes[chain[n]].key[1] = k[1]

\* Mutant: the callee is appended again instead of its caller.
LongerByTop(parent) ==
    IF Len(ips) <= Cardinality(Keys) THEN Append(ips, nodes[top].key) ELSE ips

\* Bound: a chain longer than all the keys has a loop and is cut off here.
Longer(parent) ==
    IF Len(ips) <= Cardinality(Keys) THEN Append(ips, nodes[parent].key) ELSE ips

\* One pass of the loop that appends the callers found in the cache.
Extend ==
    /\ pc = "extend"
    /\ LET parent == nodes[top].parent_index
       IN  \/ /\ parent = 0
              /\ Return
              /\ UNCHANGED <<nodes, ips>>
           \/ /\ parent # 0
              /\ HasLoop(nodes[parent].key)
              /\ nodes' = UnlinkParent(nodes, Back)
              /\ ips' = SubSeq(ips, 1, Len(chain))
              /\ Return
           \/ /\ parent # 0
              /\ ~HasLoop(nodes[parent].key)
              /\ top' = parent
              /\ ips' = Longer(parent)
              /\ UNCHANGED <<nodes, pc, chain, pos, can_extend>>
    /\ UNCHANGED <<node_set_, used_node_count>>

Step ==
    \/ GetNodeFound
    \/ GetNodeAllocated
    \/ CheckExtend
    \/ LinkChain
    \/ EndLink
    \/ Extend

Next == AddCallChain \/ Step

Spec == Init /\ [][Next]_vars /\ WF_vars(Step)

-----------------------------------------------------------------------------
Used == 1 .. used_node_count

Leaves == {n \in Used : nodes[n].is_leaf}

Children(n) == {m \in Used : nodes[m].parent_index = n}

\* The list as a sequence from the front; it has at most all the nodes.
ListFrom0 ==
    LET at[k \in 0 .. max_node_count + 1] == IF k = 0 THEN 0 ELSE nodes[at[k - 1]].word1
        stop == CHOOSE k \in 1 .. max_node_count + 2 :
                    /\ k = max_node_count + 2 \/ at[k] = 0
                    /\ \A j \in 1 .. k - 1 : at[j] # 0
    IN  [k \in 1 .. stop - 1 |-> at[k]]

\* The LRU list holds the leaves, each once, in both directions: a count of
\* children is never followed as a link although they share their memory.
ListHoldsLeaves ==
    /\ {ListFrom0[k] : k \in DOMAIN ListFrom0} = Leaves
    /\ Len(ListFrom0) = Cardinality(Leaves)
    /\ \A n \in Leaves \cup {0} : nodes[nodes[n].word1].word0 = n

\* Following the parents from any node ends.
Acyclic ==
    LET Ancestor[n \in AllNodes, k \in 0 .. max_node_count] ==
            IF k = 0 \/ n = 0 THEN n ELSE Ancestor[nodes[n].parent_index, k - 1]
    IN  \A n \in Used : Ancestor[n, max_node_count] = 0

\* The parents form a forest: a node that is not a leaf counts exactly the nodes
\* whose parent it is, a leaf is no one's parent, so what AllocNode recycles is
\* never pointed to, and between calls of AddCallChain there is no cycle
\* (CallChainJoiner.h 111-125, CallChainJoiner.cpp 79-94).
CountsChildren ==
    /\ \A n \in Used :
        IF nodes[n].is_leaf THEN Children(n) = {} ELSE nodes[n].word0 = Cardinality(Children(n))
    /\ pc = "idle" => Acyclic

\* The hash set finds every node by its key, and no key has two nodes.
KeysUnique ==
    /\ node_set_ = Used
    /\ \A m, n \in Used : nodes[m].key = nodes[n].key => m = n

\* What comes out is the chain that went in, followed by its callers: it is as
\* well formed as a chain given to AddCallChain, and the second pass of
\* JoinCallChains puts it back in.
JoinedIsWellFormed ==
    pc = "idle" => WellFormed(ips)

\* "Check if the (tid, ip, sp) tuples of the top
\* [matched_node_count_to_extend_callchain] nodes of current call chain exist in
\* the cache and have the same relation as in current call chain."
\* (CallChainJoiner.cpp 53-55)
TopNodesCompared ==
    pc = "build" /\ pc' = "link" /\ can_extend' =>
        \A n \in 1 .. matched_node_count_to_extend_callchain - 1 :
            nodes[chain[Len(chain) - n]].parent_index = chain[Len(chain) - n + 1]
=============================================================================
