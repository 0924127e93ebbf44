---------------------------- MODULE RosbagWriter ----------------------------
(***************************************************************************)
(* The layout of the file that src/src/consumer/rosbag_writer.cpp writes, as  *)
(* operators on a bag.  The file is a sequence of records, and a position in  *)
(* it a number of records; what a record holds is its kind (op) and its       *)
(* connection.  Field encodings, timestamps and pixels are left out.          *)
(***************************************************************************)
EXTENDS Integers, Sequences, SequencesExt, FiniteSets

CONSTANTS
    Conns,       \* number of connections
    Budget       \* kChunkBudget, in records of a chunk's data block

Record(op, conn) == [op |-> op, conn |-> conn]
ConnRecords == [c \in 1..Conns |-> Record("conn", c)]

\* begin_chunk(): a header with its sizes to be patched, then every connection.
BeginChunk(bag) ==
    LET pos == Len(bag.file) IN
    [bag EXCEPT
       !.file = @ \o <<Record("chunk", 0)>> \o ConnRecords,
       !.chunks = Append(@, [pos |-> pos, start |-> pos + 1, size |-> 0,
                             index |-> [c \in 1..Conns |-> <<>>]]),
       !.open = TRUE]

\* end_chunk(): the sizes are patched and the chunk's index written, one per connection.
EndChunk(bag) ==
    IF ~bag.open THEN bag
    ELSE [bag EXCEPT
       !.chunks[Len(bag.chunks)].size = Len(bag.file) - bag.chunks[Len(bag.chunks)].start,
       !.file = @ \o [c \in 1..Conns |-> Record("index", c)],
       !.open = FALSE]

\* open(): the magic and a header to be rewritten, then the first chunk.
Opened == BeginChunk([file |-> <<Record("header", 0)>>, chunks |-> <<>>, open |-> FALSE,
                      indexPos |-> 0, closed |-> FALSE])

\* prepare_message(): a chunk is open and has room for the message.
Prepared(bag) ==
    LET b == IF bag.open THEN bag ELSE BeginChunk(bag) IN
    IF Len(b.file) - Last(b.chunks).start + 1 > Budget THEN BeginChunk(EndChunk(b)) ELSE b

\* Mutant of Added: the offset is taken after the message is written.
AddedAfter(bag, conn) ==
    LET b == Prepared(bag) IN
    [b EXCEPT
       !.file = Append(@, Record("msg", conn)),
       !.chunks[Len(b.chunks)].index[conn] =
           Append(@, Len(b.file) + 1 - Last(b.chunks).start)]

\* add_mono8_image(), add_imu_sample(): the message is indexed at the offset it starts at.
Added(bag, conn) ==
    LET b == Prepared(bag) IN
    [b EXCEPT
       !.file = Append(@, Record("msg", conn)),
       !.chunks[Len(b.chunks)].index[conn] =
           Append(@, Len(b.file) - Last(b.chunks).start)]

\* close(): connections first, at the header's index_pos, then one record per chunk.
Closed(bag) ==
    LET b == EndChunk(bag) IN
    [b EXCEPT
       !.indexPos = Len(b.file),
       !.file = @ \o ConnRecords \o [k \in DOMAIN b.chunks |-> Record("info", k)],
       !.closed = TRUE]

-----------------------------------------------------------------------------
(* What a reader of the bag needs.                                          *)

Positions(bag, op) == {p \in DOMAIN bag.file : bag.file[p].op = op}

\* An index entry of connection c in chunk k leads to a message of c inside that chunk, two
\* entries never to the same one, and every message has an entry.
IndexFindsMessages(bag) ==
    LET entries == {e \in (DOMAIN bag.chunks) \X (1..Conns) \X (1..Len(bag.file)) :
                      e[3] \in DOMAIN bag.chunks[e[1]].index[e[2]]}
        at(e) == bag.chunks[e[1]].start + bag.chunks[e[1]].index[e[2]][e[3]] + 1 IN
    /\ \A e \in entries :
         /\ at(e) \in DOMAIN bag.file /\ bag.file[at(e)] = Record("msg", e[2])
         /\ at(e) - bag.chunks[e[1]].start <= bag.chunks[e[1]].size
    /\ {at(e) : e \in entries} = Positions(bag, "msg")
    /\ Cardinality(entries) = Cardinality(Positions(bag, "msg"))

\* index_pos is where the trailing region starts, with every connection, and the region
\* names every chunk ("Unindexed bag" otherwise, rosbag_writer.cpp:556).
RegionAtIndexPos(bag) ==
    /\ SubSeq(bag.file, bag.indexPos + 1, bag.indexPos + Conns) = ConnRecords
    /\ {p - bag.indexPos - Conns : p \in Positions(bag, "info")} = DOMAIN bag.chunks
=============================================================================
