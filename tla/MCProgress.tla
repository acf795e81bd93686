----------------------------- MODULE MCProgress -----------------------------
(***************************************************************************)
(* Algorithms that must come to an end: the line buffer and the count of   *)
(* allocations of memory_replay, ext4fixup, the connection of a Unix       *)
(* socket, and the cache that joins call chains. A behaviour is one of one *)
(* of them. LineBuffer's own constants are those of the line buffer.       *)
(***************************************************************************)
EXTENDS LineBuffer, TLC

CONSTANTS
    Programs,   \* the components that are run
    CacheNodes, CacheMatched   \* max_node_count and matched_node_count_to_extend_callchain

VARIABLES program, num_allocs, live, adds, lines, magic, sbs, bg_descs, dirs,
          short, stray, pc, state, mode, stack, info, bg_desc, sb, i, runs,
          torn, data_, read_head_, valid_bytes_, write_event_enabled_,
          no_more_message_, fd_open, wpc, peeked, socket, peer_open,
          read_buffer_, read_capacity, rpc, accepted, urgent, received,
          peer_quit, nodes, node_set_, used_node_count, ips, chain, pos,
          can_extend, top

-----------------------------------------------------------------------------
Count == INSTANCE MaxAllocs WITH
    Keys <- {1, 2, 3}, MaxLines <- 6, WordBits <- 4
-----------------------------------------------------------------------------
Entry(name, type, inode) == [name |-> name, type |-> type, inode |-> inode, high |-> FALSE]

\* Three groups of three inodes, two per inode-table block, so that the number
\* grows to four and the new number of one inode is the old number of another.
\* The root has two blocks; below it are a directory of unknown file type (like
\* lost+found) and a directory with a child.
Directories ==
    (<<0, 1>> :> <<Entry(".", "dir", 2), Entry("..", "dir", 2), Entry("a", "dir", 4),
                   Entry("f", "file", 5), Entry("lost+found", "unknown", 7)>>)
    @@ (<<1, 0>> :> <<Entry(".", "dir", 4), Entry("..", "dir", 2), Entry("b", "dir", 6)>>)
    @@ (<<1, 2>> :> <<Entry(".", "dir", 6), Entry("..", "dir", 4), Entry("g", "file", 9)>>)
    @@ (<<2, 0>> :> <<Entry(".", "unknown", 7), Entry("..", "unknown", 2)>>)

BlocksOfEntries ==
    (<<0, 1>> :> <<1, 1, 1, 2, 2>>) @@ (<<1, 0>> :> <<1, 1, 2>>)
    @@ (<<1, 2>> :> <<1, 1, 1>>) @@ (<<2, 0>> :> <<1, 1>>)

Fixup == INSTANCE Ext4Fixup WITH
    Groups <- 0 .. 2, SuperGroups <- {0, 1}, OldInodesPerGroup <- 3, InodesPerBlock <- 2,
    Content <- Directories, BlockOf <- BlocksOfEntries, ShortRecLen <- {<<1, 2>>}, StrayBits <- 0 .. 2,
    FreeInodes <- (0 :> 0) @@ (1 :> 1) @@ (2 :> 2), MaxRuns <- 4
-----------------------------------------------------------------------------
Sock == INSTANCE UnixSocket WITH
    Lens <- {2, 5}, MaxMessages <- 3, SendSize <- 8, ReadSize <- 4, SocketSize <- 3
-----------------------------------------------------------------------------
\* A chain that AddCallChain is given: sps do not decrease, no item comes twice.
IsChain(c) == \A n \in 2 .. Len(c) : c[n - 1][2] <= c[n][2] /\ \A m \in 1 .. n - 1 : c[m] # c[n]

\* Chains of up to three of four functions.  Three have the same sp, so that the
\* links of a chain can close a cycle with those in the cache.
ChainSet ==
    {c \in UNION {[1 .. n -> {<<1, 1>>, <<2, 1>>, <<3, 1>>, <<4, 2>>}] : n \in 1 .. 3} : IsChain(c)}

Cache == INSTANCE CallChainCache WITH
    Chains <- ChainSet, max_node_count <- CacheNodes,
    matched_node_count_to_extend_callchain <- CacheMatched
-----------------------------------------------------------------------------
mcvars == <<program, newlines, buffer_, start_, bytes_, offset, line, eof,
            returned, num_allocs, live, adds, lines, magic, sbs, bg_descs,
            dirs, short, stray, pc, state, mode, stack, info, bg_desc, sb, i,
            runs, torn, data_, read_head_, valid_bytes_, write_event_enabled_,
            no_more_message_, fd_open, wpc, peeked, socket, peer_open,
            read_buffer_, read_capacity, rpc, accepted, urgent, received,
            peer_quit, nodes, node_set_, used_node_count, ips, chain, pos,
            can_extend, top>>
notLineBuffer == <<num_allocs, live, adds, lines, magic, sbs, bg_descs, dirs,
                   short, stray, pc, state, mode, stack, info, bg_desc, sb, i,
                   runs, torn, data_, read_head_, valid_bytes_,
                   write_event_enabled_, no_more_message_, fd_open, wpc,
                   peeked, socket, peer_open, read_buffer_, read_capacity,
                   rpc, accepted, urgent, received, peer_quit, nodes,
                   node_set_, used_node_count, ips, chain, pos, can_extend,
                   top>>
notCount == <<newlines, buffer_, start_, bytes_, offset, line, eof, returned,
              magic, sbs, bg_descs, dirs, short, stray, pc, state, mode,
              stack, info, bg_desc, sb, i, runs, torn, data_, read_head_,
              valid_bytes_, write_event_enabled_, no_more_message_, fd_open,
              wpc, peeked, socket, peer_open, read_buffer_, read_capacity,
              rpc, accepted, urgent, received, peer_quit, nodes, node_set_,
              used_node_count, ips, chain, pos, can_extend, top>>
notFixup == <<newlines, buffer_, start_, bytes_, offset, line, eof, returned,
              num_allocs, live, adds, lines, data_, read_head_, valid_bytes_,
              write_event_enabled_, no_more_message_, fd_open, wpc, peeked,
              socket, peer_open, read_buffer_, read_capacity, rpc, accepted,
              urgent, received, peer_quit, nodes, node_set_, used_node_count,
              ips, chain, pos, can_extend, top>>
notSock == <<newlines, buffer_, start_, bytes_, offset, line, eof, returned,
             num_allocs, live, adds, lines, magic, sbs, bg_descs, dirs, short,
             stray, pc, state, mode, stack, info, bg_desc, sb, i, runs, torn,
             nodes, node_set_, used_node_count, ips, chain, pos, can_extend,
             top>>
notCache == <<newlines, buffer_, start_, bytes_, offset, line, eof, returned,
              num_allocs, live, adds, lines, magic, sbs, bg_descs, dirs,
              short, stray, state, mode, stack, info, bg_desc, sb, i, runs,
              torn, data_, read_head_, valid_bytes_, write_event_enabled_,
              no_more_message_, fd_open, wpc, peeked, socket, peer_open,
              read_buffer_, read_capacity, rpc, accepted, urgent, received,
              peer_quit>>

MCInit ==
    /\ program \in Programs
    /\ \/ /\ program = "line_buffer" /\ Init
          /\ num_allocs = 0 /\ live = 0 /\ adds = 0 /\ lines = 0 /\ magic = 0 /\ sbs = 0
          /\ bg_descs = 0 /\ dirs = 0 /\ short = 0 /\ stray = 0 /\ pc = 0 /\ state = 0 /\ mode = 0
          /\ stack = 0 /\ info = 0 /\ bg_desc = 0 /\ sb = 0 /\ i = 0 /\ runs = 0 /\ torn = 0
          /\ data_ = 0 /\ read_head_ = 0 /\ valid_bytes_ = 0 /\ write_event_enabled_ = 0
          /\ no_more_message_ = 0 /\ fd_open = 0 /\ wpc = 0 /\ peeked = 0 /\ socket = 0
          /\ peer_open = 0 /\ read_buffer_ = 0 /\ read_capacity = 0 /\ rpc = 0 /\ accepted = 0
          /\ urgent = 0 /\ received = 0 /\ peer_quit = 0 /\ nodes = 0 /\ node_set_ = 0
          /\ used_node_count = 0 /\ ips = 0 /\ chain = 0 /\ pos = 0 /\ can_extend = 0 /\ top = 0
       \/ /\ program = "max_allocs" /\ Count!Init
          /\ newlines = 0 /\ buffer_ = 0 /\ start_ = 0 /\ bytes_ = 0 /\ offset = 0 /\ line = 0
          /\ eof = 0 /\ returned = 0 /\ magic = 0 /\ sbs = 0 /\ bg_descs = 0 /\ dirs = 0
          /\ short = 0 /\ stray = 0 /\ pc = 0 /\ state = 0 /\ mode = 0 /\ stack = 0 /\ info = 0
          /\ bg_desc = 0 /\ sb = 0 /\ i = 0 /\ runs = 0 /\ torn = 0 /\ data_ = 0 /\ read_head_ = 0
          /\ valid_bytes_ = 0 /\ write_event_enabled_ = 0 /\ no_more_message_ = 0 /\ fd_open = 0
          /\ wpc = 0 /\ peeked = 0 /\ socket = 0 /\ peer_open = 0 /\ read_buffer_ = 0
          /\ read_capacity = 0 /\ rpc = 0 /\ accepted = 0 /\ urgent = 0 /\ received = 0
          /\ peer_quit = 0 /\ nodes = 0 /\ node_set_ = 0 /\ used_node_count = 0 /\ ips = 0
          /\ chain = 0 /\ pos = 0 /\ can_extend = 0 /\ top = 0
       \/ /\ program = "ext4fixup" /\ Fixup!Init
          /\ newlines = 0 /\ buffer_ = 0 /\ start_ = 0 /\ bytes_ = 0 /\ offset = 0 /\ line = 0
          /\ eof = 0 /\ returned = 0 /\ num_allocs = 0 /\ live = 0 /\ adds = 0 /\ lines = 0
          /\ data_ = 0 /\ read_head_ = 0 /\ valid_bytes_ = 0 /\ write_event_enabled_ = 0
          /\ no_more_message_ = 0 /\ fd_open = 0 /\ wpc = 0 /\ peeked = 0 /\ socket = 0
          /\ peer_open = 0 /\ read_buffer_ = 0 /\ read_capacity = 0 /\ rpc = 0 /\ accepted = 0
          /\ urgent = 0 /\ received = 0 /\ peer_quit = 0 /\ nodes = 0 /\ node_set_ = 0
          /\ used_node_count = 0 /\ ips = 0 /\ chain = 0 /\ pos = 0 /\ can_extend = 0 /\ top = 0
       \/ /\ program = "unix_socket" /\ Sock!Init
          /\ newlines = 0 /\ buffer_ = 0 /\ start_ = 0 /\ bytes_ = 0 /\ offset = 0 /\ line = 0
          /\ eof = 0 /\ returned = 0 /\ num_allocs = 0 /\ live = 0 /\ adds = 0 /\ lines = 0
          /\ magic = 0 /\ sbs = 0 /\ bg_descs = 0 /\ dirs = 0 /\ short = 0 /\ stray = 0 /\ pc = 0
          /\ state = 0 /\ mode = 0 /\ stack = 0 /\ info = 0 /\ bg_desc = 0 /\ sb = 0 /\ i = 0
          /\ runs = 0 /\ torn = 0 /\ nodes = 0 /\ node_set_ = 0 /\ used_node_count = 0 /\ ips = 0
          /\ chain = 0 /\ pos = 0 /\ can_extend = 0 /\ top = 0
       \/ /\ program = "call_chain_cache" /\ Cache!Init
          /\ newlines = 0 /\ buffer_ = 0 /\ start_ = 0 /\ bytes_ = 0 /\ offset = 0 /\ line = 0
          /\ eof = 0 /\ returned = 0 /\ num_allocs = 0 /\ live = 0 /\ adds = 0 /\ lines = 0
          /\ magic = 0 /\ sbs = 0 /\ bg_descs = 0 /\ dirs = 0 /\ short = 0 /\ stray = 0 /\ state = 0
          /\ mode = 0 /\ stack = 0 /\ info = 0 /\ bg_desc = 0 /\ sb = 0 /\ i = 0 /\ runs = 0
          /\ torn = 0 /\ data_ = 0 /\ read_head_ = 0 /\ valid_bytes_ = 0 /\ write_event_enabled_ = 0
          /\ no_more_message_ = 0 /\ fd_open = 0 /\ wpc = 0 /\ peeked = 0 /\ socket = 0
          /\ peer_open = 0 /\ read_buffer_ = 0 /\ read_capacity = 0 /\ rpc = 0 /\ accepted = 0
          /\ urgent = 0 /\ received = 0 /\ peer_quit = 0

MCNext ==
    /\ UNCHANGED program
    /\ \/ program = "line_buffer" /\ Next /\ UNCHANGED notLineBuffer
       \/ program = "max_allocs" /\ Count!Next /\ UNCHANGED notCount
       \/ program = "ext4fixup" /\ Fixup!Next /\ UNCHANGED notFixup
       \/ program = "unix_socket" /\ Sock!Next /\ UNCHANGED notSock
       \/ program = "call_chain_cache" /\ Cache!Next /\ UNCHANGED notCache

MCSpec == MCInit /\ [][MCNext]_mcvars
    /\ WF_mcvars(program = "line_buffer" /\ Next /\ UNCHANGED <<program, notLineBuffer>>)
    /\ WF_mcvars(program = "ext4fixup" /\ Fixup!Proceed /\ UNCHANGED <<program, notFixup>>)
    /\ WF_mcvars(program = "unix_socket" /\ Sock!SenderLoop /\ UNCHANGED <<program, notSock>>)
    /\ WF_mcvars(program = "unix_socket" /\ Sock!ReceiverLoop /\ UNCHANGED <<program, notSock>>)
    /\ WF_mcvars(program = "call_chain_cache" /\ Cache!Step /\ UNCHANGED <<program, notCache>>)

\* MaxAllocs: the count of allocations covers every Add of the replay.
CoversAdds == program = "max_allocs" => Count!CoversAdds

\* Ext4Fixup: a run that reports success leaves every entry with the new
\* number of its inode, and the counts of an uninterrupted run unless a run
\* was cut off between a super block and its descriptors; no run descends into
\* a wrong directory.
EntriesRenumbered ==
    program = "ext4fixup" => Fixup!EntriesRenumbered /\ Fixup!DescendsRight /\ Fixup!CountsUpdatedUnlessTorn

\* Ext4Fixup: a file system that is half converted cannot be mounted.
UnmountableWhileUpdating == program = "ext4fixup" => Fixup!UnmountableWhileUpdating

\* Ext4Fixup: the same as EntriesRenumbered for the counts, wherever the runs
\* were cut off.
CountsUpdated == program = "ext4fixup" => Fixup!CountsUpdated

\* UnixSocket: the accepted messages are received whole, in order and once,
\* none is lost when the sender closes, a half full buffer is being emptied,
\* and no event outlives the connection.
MessagesInOrder ==
    program = "unix_socket" => Sock!DeliversInOrder /\ Sock!NothingLostAtClose /\ Sock!HalfFullIsDrained /\ Sock!NoEventAfterClose

\* UnixSocket: an undelayed message, and all before it, are received unless
\* the receiver closes first, and after NoMoreMessage the connection is
\* closed.
UndelayedDelivered ==
    
    /\ \A n \in 1 .. 3 :
        (program = "unix_socket" /\ urgent >= n) ~> (program = "unix_socket" => Sock!Arrived(n))
    /\ (program = "unix_socket" /\ no_more_message_) ~> (program = "unix_socket" => Sock!Closed)

\* CallChainCache: what comes out is as well formed as a chain that goes in;
\* the list holds the leaves and the parents form a forest, whatever AllocNode
\* recycles.
JoinedIsWellFormed ==
    program = "call_chain_cache" => Cache!JoinedIsWellFormed /\ Cache!ListHoldsLeaves /\ Cache!CountsChildren /\ Cache!KeysUnique

\* CallChainCache: a chain is only extended if its top nodes have the relation
\* in the cache that they have in the chain.
TopNodesMatch == [][program = "call_chain_cache" => Cache!TopNodesCompared]_mcvars

\* GetLine gets to the end of the file, also when a line fills the buffer and
\* read is asked for nothing (LineBuffer.cpp 44-56); ext4fixup, started again
\* after each crash, finishes; AddCallChain returns although the links of a
\* new chain can close a cycle with those in the cache ("to prevent a loop
\* case", CallChainJoiner.cpp 79-94).
RunsToItsEnd ==
    
    /\ <>(program = "line_buffer" => eof /\ returned = Size)
    /\ <>(program = "ext4fixup" => pc = "finished")
    /\ (program = "call_chain_cache" /\ pc # "idle") ~> (program = "call_chain_cache" => pc = "idle")
=============================================================================
