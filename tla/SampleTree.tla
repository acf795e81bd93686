----------------------------- MODULE SampleTree -----------------------------
(***************************************************************************)
(* SampleTreeBuilder, CallChainRoot and the builders of the report command *)
(* of simpleperf: samples with the same sort keys are merged, periods are  *)
(* accumulated along call chains, and each entry has a tree of the chains  *)
(* below it.  An address of a chain is the function it is in; Unknown is   *)
(* an address in no file.  Functions are the only sort key.                *)
(***************************************************************************)
EXTENDS Integers, Sequences, FiniteSets, SequencesExt

CONSTANTS
    Options,     \* [accumulate, build, caller_root, offcpu : BOOLEAN, filter : functions shown]
    Samples,     \* [tid, ip, ips]: samples that may be read
    Unknown,
    Gaps,        \* time from one sample to the next
    MaxSamples

VARIABLES
    opt,
    b,      \* the builder: [entry, hidden, tree, parent, samples, period, errors]
    next,   \* next_sample_cache_: [tid -> the sample held back]
    time,
    count,  \* samples read
    seen    \* ghost: the samples processed, each with its period

vars == <<opt, b, next, time, count, seen>>
----------------------------------------------------------------------------
(* CallChainRoot: a tree is [children_period, children], a node has a piece *)
(* of chain.                                                                *)

NoTree == [children_period |-> 0, children |-> <<>>]

AllocateNode(chain, period) == [chain |-> chain, period |-> period, children_period |-> 0, children |-> <<>>]

GetMatchingLength(a, c) ==
    LET same == {n \in 0 .. Len(a) : n <= Len(c) /\ \A i \in 1 .. n : a[i] = c[i]}
    IN  CHOOSE n \in same : \A m \in same : m <= n

\* Mutant: the part split off keeps none of the period of its children.
SplitLosesPeriod(node, n) ==
    [chain |-> SubSeq(node.chain, 1, n), period |-> 0, children_period |-> node.period,
     children |-> <<[node EXCEPT !.chain = SubSeq(@, n + 1, Len(@))]>>]

SplitNode(node, n) ==
    [chain |-> SubSeq(node.chain, 1, n), period |-> 0, children_period |-> node.period + node.children_period,
     children |-> <<[node EXCEPT !.chain = SubSeq(@, n + 1, Len(@))]>>]

RECURSIVE AddToNode(_, _, _)

\* FindMatchingNode, or a new node.
AddToNodes(nodes, chain, period) ==
    LET i == SelectInSeq(nodes, LAMBDA n : n.chain[1] = chain[1])
    IN  IF i = 0 THEN Append(nodes, AllocateNode(chain, period))
        ELSE [nodes EXCEPT ![i] = AddToNode(@, chain, period)]

AddToNode(node, chain, period) ==
    LET n == GetMatchingLength(node.chain, chain)
        p == IF n < Len(node.chain) THEN SplitNode(node, n) ELSE node
        rest == SubSeq(chain, n + 1, Len(chain))
    IN  IF rest = <<>> THEN [p EXCEPT !.period = @ + period]
        ELSE [p EXCEPT !.children_period = @ + period, !.children = AddToNodes(@, rest, period)]

AddCallChain(tree, chain, period) ==
    [children_period |-> tree.children_period + period,
     children |-> AddToNodes(tree.children, chain, period)]
----------------------------------------------------------------------------
(* SampleTreeBuilder, with the callbacks of ReportCmdSampleTreeBuilder. *)

NoEntry == [period |-> 0, accumulated |-> 0, count |-> 0]

FilterSample(f) == f \in opt.filter

EntryOf(x, f) == IF f \in DOMAIN x.entry THEN x.entry[f] ELSE NoEntry
With(fn, f, v) == [g \in DOMAIN fn \cup {f} |-> IF g = f THEN v ELSE fn[g]]

\* InsertSample after the filter: UpdateSummary, and MergeSample or a new entry.
InsertSample(x, f, period, accumulated, n) ==
    LET e == EntryOf(x, f)
    IN  [x EXCEPT !.samples = @ + n, !.period = @ + period,
                  !.entry = With(@, f, [period |-> e.period + period, count |-> e.count + n,
                                        accumulated |-> e.accumulated + accumulated])]

InsertCallChainSample(x, f, chain, period) ==
    IF ~FilterSample(f) THEN [x EXCEPT !.hidden = @ \cup {f}]
    ELSE IF f \in ToSet(chain) THEN x
    ELSE InsertSample(x, f, 0, period, 0)

\* The chain of a sample, without the repeated address of the sample itself,
\* up to an address that is in no file.
Deduplicated(s) == IF s.ips # <<>> /\ s.ips[1] = s.ip THEN Tail(s.ips) ELSE s.ips
Chain(s) ==
    LET all == Deduplicated(s) IN
    LET bad == SelectInSeq(all, LAMBDA f : f = Unknown)
    IN  <<s.ip>> \o IF bad = 0 THEN all ELSE SubSeq(all, 1, bad - 1)
Failed(s) == Unknown \in ToSet(Deduplicated(s))

Accumulated(x, s, period) ==
    LET chain == Chain(s)
        step(y, i) == InsertCallChainSample(y, chain[i], SubSeq(chain, 1, i - 1), period)
    IN  [FoldLeftDomain(LAMBDA y, i : IF i = 1 THEN y ELSE step(y, i), x, chain)
            EXCEPT !.errors = @ + IF Failed(s) THEN 1 ELSE 0]

\* UpdateCallChainParentInfo.
WithParent(parents, f, p) ==
    IF p = <<>> THEN parents
    ELSE IF f \notin DOMAIN parents THEN With(parents, f, [parent |-> p[1], multiple |-> FALSE])
    ELSE [parents EXCEPT ![f].multiple = @ \/ parents[f].parent # p[1]]

\* Each function but the last gets the chain below its first call.
FirstCalls(chain) == {i \in 1 .. Len(chain) - 1 : \A j \in 1 .. i - 1 : chain[j] # chain[i]}
Above(chain, i) ==
    LET js == {j \in FirstCalls(chain) : j < i}
    IN  IF js = {} THEN <<>> ELSE <<chain[CHOOSE j \in js : \A k \in js : k <= j]>>

Built(x, chain, period) ==
    FoldLeftDomain(LAMBDA y, i :
        IF i \notin FirstCalls(chain) THEN y
        ELSE [y EXCEPT !.tree = With(@, chain[i],
                           AddCallChain(IF chain[i] \in DOMAIN @ THEN @[chain[i]] ELSE NoTree,
                                        SubSeq(chain, i + 1, Len(chain)), period)),
                       !.parent = WithParent(@, chain[i], Above(chain, i))],
        x, chain)

Rooted(chain) == IF opt.caller_root THEN Reverse(chain) ELSE chain

ProcessSampleRecord(s, period) ==
    LET inserted == InsertSample(b, s.ip, period, 0, 1)
        accumulated == IF opt.accumulate THEN Accumulated(inserted, s, period) ELSE inserted
    IN  b' = IF ~FilterSample(s.ip) THEN b
             ELSE IF opt.accumulate /\ opt.build THEN Built(accumulated, Rooted(Chain(s)), period)
             ELSE accumulated
----------------------------------------------------------------------------
Init ==
    /\ opt \in Options
    /\ b = [entry |-> <<>>, hidden |-> {}, tree |-> <<>>, parent |-> <<>>, samples |-> 0, period |-> 0, errors |-> 0]
    /\ next = <<>> /\ time = 0 /\ count = 0 /\ seen = <<>>

Read(s, gap) ==
    /\ count < MaxSamples /\ count' = count + 1 /\ time' = time + gap
    /\ UNCHANGED opt

\* EventCountSampleTreeBuilder; the period is 1 or 2.
ProcessSample(s, gap) ==
    /\ ~opt.offcpu /\ Read(s, gap)
    /\ ProcessSampleRecord(s, gap)
    /\ seen' = Append(seen, [sample |-> s, period |-> gap])
    /\ UNCHANGED next

\* Mutant: the sample just read is processed and not the one before it.
PeriodOfNext(s, gap) == gap

\* TimestampSampleTreeBuilder::GetPeriod.
GetPeriod(s, gap) == IF time + gap > next[s.tid].time THEN time + gap - next[s.tid].time ELSE 1

\* TimestampSampleTreeBuilder: a sample is processed when the next one of its
\* thread is read.
HoldSample(s, gap) ==
    /\ opt.offcpu /\ Read(s, gap)
    /\ IF s.tid \notin DOMAIN next THEN UNCHANGED <<b, seen>>
       ELSE /\ ProcessSampleRecord(next[s.tid].sample, GetPeriod(s, gap))
            /\ seen' = Append(seen, [sample |-> next[s.tid].sample, period |-> GetPeriod(s, gap)])
    /\ next' = With(next, s.tid, [sample |-> s, time |-> time + gap,
                                  first |-> IF s.tid \in DOMAIN next THEN next[s.tid].first ELSE time + gap])

Next == \E s \in Samples, gap \in Gaps : ProcessSample(s, gap) \/ HoldSample(s, gap)

Spec == Init /\ [][Next]_vars
----------------------------------------------------------------------------
Sum(f(_), s) == FoldLeft(LAMBDA a, x : a + f(x), 0, s)
Shown(x) == FilterSample(x.sample.ip)

\* Each sample counts once for its own function and once for each function it
\* was called from, however often they call each other, and nothing counts for
\* functions the filter leaves out; without the processor a thread spends the
\* time from its first sample to its last.
PeriodsAddUp ==
    /\ \A f \in DOMAIN b.entry :
        /\ b.entry[f].period = Sum(LAMBDA x : IF Shown(x) /\ x.sample.ip = f THEN x.period ELSE 0, seen)
        /\ b.entry[f].accumulated =
              Sum(LAMBDA x : IF opt.accumulate /\ Shown(x) /\ x.sample.ip # f /\ f \in ToSet(Chain(x.sample))
                             THEN x.period ELSE 0, seen)
    /\ b.period = Sum(LAMBDA x : IF Shown(x) THEN x.period ELSE 0, seen)
    /\ \A t \in DOMAIN next :
        Sum(LAMBDA x : IF x.sample.tid = t THEN x.period ELSE 0, seen) = next[t].time - next[t].first

RECURSIVE Consistent(_, _)
Consistent(nodes, total) ==
    /\ total = Sum(LAMBDA n : n.period + n.children_period, nodes)
    /\ \A i, j \in DOMAIN nodes : nodes[i].chain[1] = nodes[j].chain[1] => i = j
    /\ \A i \in DOMAIN nodes : Consistent(nodes[i].children, nodes[i].children_period)

RECURSIVE PathsOf(_, _)
PathsOf(nodes, prefix) ==
    UNION {LET path == prefix \o nodes[i].chain
           IN  {<<path, nodes[i].period>>} \cup PathsOf(nodes[i].children, path) : i \in DOMAIN nodes}

\* The chains below the first call of f, in the samples processed.
Below(f, x) ==
    LET chain == Rooted(Chain(x.sample))
        at == {i \in FirstCalls(chain) : chain[i] = f}
    IN  IF ~Shown(x) \/ at = {} THEN <<>> ELSE SubSeq(chain, (CHOOSE i \in at : TRUE) + 1, Len(chain))

\* The tree of a function holds exactly the chains of the samples, each with
\* the sum of its periods, however nodes were split, and every node has the
\* periods of the nodes below it.
CallTreesHoldTheChains ==
    \A f \in DOMAIN b.tree :
        LET given == {Below(f, seen[i]) : i \in DOMAIN seen} \ {<<>>}
        IN  /\ Consistent(b.tree[f].children, b.tree[f].children_period)
            /\ {p \in PathsOf(b.tree[f].children, <<>>) : p[2] # 0} =
                  {<<c, Sum(LAMBDA x : IF Below(f, x) = c THEN x.period ELSE 0, seen)>> : c \in given}
=============================================================================
