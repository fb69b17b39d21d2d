------------------------------ MODULE Retrieval ------------------------------
(***************************************************************************)
(* odbc-conformance/src/conformance.cpp: how the DataTypes tests read one    *)
(* column of their table of three rows, the second of them NULL, and judge  *)
(* what the driver wrote: SQLGetData into a fresh buffer, SQLBindCol with    *)
(* SQLFetch, SQLFetchScroll by rowsets of two, and SQLGetData in chunks.     *)
(*                                                                         *)
(* The driver answers as ODBC says or in any other way.  Of the bytes of a  *)
(* buffer it matters whose value they are and whether a zero follows them;  *)
(* the samples that are read in chunks repeat one character, so that of a   *)
(* chunk it matters how many bytes of the value it starts with.  Where the  *)
(* elements of an array lie, by column or by row, is left out.              *)
(***************************************************************************)
EXTENDS Integers

CONSTANTS
    Columns,      \* samples: c_type, bytes of native, characters of text, ...
    BufferSize,   \* of a DataBuffer: 40000
    RowSize,      \* of a variable-length element of an array: 19000
    ChunkSize,    \* 258
    MaxChunks     \* 100

Types == {"char", "wchar", "binary", "fixed"}

ASSUME RetrievalAssumption ==
    /\ Columns \subseteq [type : Types, native : Nat, text : Nat,
                          scaled : BOOLEAN, generated : BOOLEAN, large : BOOLEAN]
    /\ \A c \in Columns : /\ c.scaled => c.type = "fixed"
                          /\ c.large => c.type # "fixed" /\ ~c.generated
    /\ BufferSize \in Nat /\ RowSize \in Nat
    /\ MaxChunks \in Nat /\ MaxChunks > 0
    /\ ChunkSize \in Nat /\ ChunkSize > 2

Paths == {"GetData", "BindColumns", "FetchScroll", "ChunkedGetData"}

VARIABLES
    path, column, as,   \* the test: how, of what, and as which C type it reads
    phase,      \* "bind", "read", "finished" (the chunks of a row), "end", "over"
    row,        \* rows fetched before the current one
    chunk,      \* chunks read of the current row
    sent,       \* bytes of its value that the driver has written
    result,     \* bytes put together, and whether they are the value's
    slots,      \* the buffers of the two rows of a rowset; the first otherwise
    lengths,
    record,     \* of the application row descriptor: bound, precision, scale
    failed,     \* an assertion of the test has failed
    right,      \* history: the driver has done what ODBC says
    written     \* history: rows whose value the driver wrote

test == <<path, column, as>>
chunks == <<chunk, sent, result>>
memory == <<slots, lengths>>
history == <<right, written>>
vars == <<test, phase, row, chunks, memory, record, failed, history>>

-----------------------------------------------------------------------------
(* Samples and what the driver is to make of them.                          *)

NullData == -1
NoTotal == -4

\* Of the value as it is read: for text every character, without a terminator.
\* The text of a vector is compared as parsed JSON, which may be spelled in more
\* ways than one: its column stands for the spelling that the driver has chosen.
Length ==
    LET native == IF column.generated THEN 8 ELSE column.native
        text == IF column.generated THEN 16 ELSE column.text IN
    IF as = "char" THEN text ELSE IF as = "wchar" THEN 2 * text ELSE native

Terminator == IF as = "wchar" THEN 2 ELSE IF as = "char" THEN 1 ELSE 0

IsNull(r) == r = 1 /\ ~column.generated

\* The populated rows repeat one value; generated ones differ.
Value(r) == IF column.generated THEN r + 1 ELSE 1
Zeros == 0
Other == 9

Fresh == [value |-> Zeros, zero |-> TRUE]

-----------------------------------------------------------------------------
(* The application row descriptor.                                          *)

\* Every field but the deferred ones unbinds; a type brings its defaults.
SetField(desc, field) ==
    IF field = "type" THEN [bound |-> FALSE, precision |-> FALSE, scale |-> FALSE]
    ELSE IF field = "data_ptr" THEN [desc EXCEPT !.bound = TRUE]
    ELSE [desc EXCEPT !.bound = FALSE, ![field] = TRUE]

\* Mutant: the address is set before the scale.
NumericDescriptorPointerFirst(desc, buffer) ==
    IF ~column.scaled THEN desc
    ELSE LET typed == SetField(SetField(desc, "type"), "precision") IN
         SetField(IF buffer THEN SetField(typed, "data_ptr") ELSE typed, "scale")

NumericDescriptor(desc, buffer) ==
    IF ~column.scaled THEN desc
    ELSE LET scaled == SetField(SetField(SetField(desc, "type"), "precision"), "scale") IN
         IF buffer THEN SetField(scaled, "data_ptr") ELSE scaled

\* The bytes of an array from one row to the next; they are also the length of
\* the buffer, which counts for data of variable length only.
Stride == IF as = "fixed" THEN column.native ELSE RowSize

-----------------------------------------------------------------------------
(* The driver.                                                              *)

\* No data, or an error, which the tests take alike.
Codes == {"success", "info", "no_data"}

\* What it may leave in a buffer: nothing, the value, the value with more behind
\* it, or something else.  The buffers are zero before: a terminator that is left
\* out goes unnoticed and is not told apart.
Writes == {"nothing", "value", "overrun", "other"}

Cells == [length : {NullData, 0, Length, Length + 1}, wrote : Writes]

RightCell(r, desc) ==
    IF IsNull(r) THEN [length |-> NullData, wrote |-> "nothing"]
    ELSE [length |-> Length,
          wrote |-> IF as = "fixed" /\ column.scaled /\ ~(desc.precision /\ desc.scale)
                    THEN "other" ELSE "value"]

\* A right driver has a warning for a value and terminator that do not fit.
RightCode(r, size) ==
    IF ~IsNull(r) /\ as # "fixed" /\ Length + Terminator > size THEN "info" ELSE "success"

\* The slot once cell was written into it for row r.
Slot(slot, r, cell) ==
    IF cell.wrote = "nothing" THEN slot
    ELSE IF cell.wrote = "other" THEN [value |-> Other, zero |-> TRUE]
    ELSE [value |-> Value(r), zero |-> IF cell.wrote = "overrun" THEN FALSE ELSE TRUE]

\* What the driver is seen to do with the rows of one call.
Witness(isRight, cells, rows) ==
    /\ right' = (right /\ isRight)
    /\ written' = written \cup {r \in rows : cells[r].wrote \in {"value", "overrun"}}

-----------------------------------------------------------------------------
(* expect_value.                                                            *)

Accepts(r, slot, length) ==
    IF IsNull(r) THEN length = NullData
    ELSE /\ Terminator > 0 => slot.zero
         /\ length = Length
         /\ slot.value = Value(r)

\* ASSERT rather than EXPECT.
Stops(r, length) ==
    /\ ~IsNull(r)
    /\ \/ length < 0 \/ length >= BufferSize
       \/ as = "wchar" /\ length % 2 # 0
       \/ Terminator = 0 /\ length # Length

Judge(rows, slotOf, lengthOf, wrong) ==
    /\ failed' = (failed \/ wrong \/ \E r \in rows :
                    Stops(r, lengthOf[r]) \/ ~Accepts(r, slotOf[r], lengthOf[r]))
    /\ phase' = IF \E r \in rows : Stops(r, lengthOf[r]) THEN "over"
                ELSE IF \E r \in rows : r = 2 THEN "end" ELSE "read"

\* An assertion fails and the test is over.
Stop == phase' = "over" /\ failed' = TRUE

-----------------------------------------------------------------------------
Init ==
    /\ path \in Paths /\ column \in Columns /\ as \in Types
    /\ \/ path = "GetData" /\ as \in {column.type, "char", "wchar"}
       \/ path = "BindColumns" /\ as = "wchar"
       \/ path = "FetchScroll" /\ as = column.type
       \/ path = "ChunkedGetData" /\ as = column.type /\ column.large
    /\ phase = IF path \in {"BindColumns", "FetchScroll"} THEN "bind" ELSE "read"
    /\ row = 0
    /\ chunk = 0 /\ sent = 0 /\ result = [size |-> 0, intact |-> TRUE]
    /\ slots = [i \in {0, 1} |-> Fresh]
    /\ lengths = [i \in {0, 1} |-> 0]
    /\ record = [bound |-> FALSE, precision |-> FALSE, scale |-> FALSE]
    /\ failed = FALSE
    /\ right = TRUE /\ written = {}

-----------------------------------------------------------------------------
\* Mutant: the buffer is declared outside of the loop over the rows.
GetDataKeepsBuffer ==
    /\ path = "GetData" /\ phase = "read"
    /\ record' = IF as = "fixed" THEN NumericDescriptor(record, FALSE) ELSE record
    /\ \E rc \in Codes, cell \in Cells :
        LET cells == [r \in {row} |-> cell] IN
        /\ Witness(rc = RightCode(row, BufferSize) /\ cell = RightCell(row, record'),
                   cells, {row})
        /\ slots' = [slots EXCEPT ![0] = Slot(@, row, cell)]
        /\ IF rc # "success" THEN Stop
           ELSE Judge({row}, [r \in {row} |-> slots'[0]], [r \in {row} |-> cell.length], FALSE)
    /\ row' = row + 1
    /\ UNCHANGED <<test, chunks, lengths>>

\* One row of get_data: SQLFetch, and SQLGetData into a buffer of its own.
GetData ==
    /\ path = "GetData" /\ phase = "read"
    /\ record' = IF as = "fixed" THEN NumericDescriptor(record, FALSE) ELSE record
    /\ \E rc \in Codes, cell \in Cells :
        LET cells == [r \in {row} |-> cell] IN
        /\ Witness(rc = RightCode(row, BufferSize) /\ cell = RightCell(row, record'),
                   cells, {row})
        /\ IF rc # "success" THEN Stop
           ELSE Judge({row}, [r \in {row} |-> Slot(Fresh, row, cell)],
                      [r \in {row} |-> cell.length], FALSE)
    /\ row' = row + 1
    /\ UNCHANGED <<test, chunks, memory>>

\* SQLBindCol, and numeric_descriptor with the address in FetchScroll.
Bind ==
    /\ phase = "bind"
    /\ record' = LET bound == [bound |-> TRUE, precision |-> FALSE, scale |-> FALSE] IN
                 IF path = "FetchScroll" THEN NumericDescriptor(bound, TRUE) ELSE bound
    /\ phase' = "read"
    /\ UNCHANGED <<test, row, chunks, memory, failed, history>>

\* What a right driver writes of row r for a bound column.
RightBoundCell(r, i) ==
    IF record.bound THEN RightCell(r, record) ELSE [length |-> lengths[i], wrote |-> "nothing"]

\* One row of BindColumns; the buffer is the one of the rows before.
Fetch ==
    /\ path = "BindColumns" /\ phase = "read"
    /\ \E rc \in Codes, cell \in Cells :
        LET cells == [r \in {row} |-> cell] IN
        /\ Witness(rc = RightCode(row, BufferSize) /\ cell = RightBoundCell(row, 0),
                   cells, {row})
        /\ slots' = [slots EXCEPT ![0] = Slot(@, row, cell)]
        /\ lengths' = [lengths EXCEPT ![0] = cell.length]
        /\ IF rc # "success" THEN Stop
           ELSE Judge({row}, [r \in {row} |-> slots'[0]], [r \in {row} |-> cell.length], FALSE)
    /\ row' = row + 1
    /\ UNCHANGED <<test, chunks, record>>

\* The rows of the rowset that starts at row.
Rowset == {row, row + 1} \cap 0..2

\* A rowset of FetchScroll, of two rows and then of one; statuses tells whether
\* the driver sets those of both rows as it should.
FetchScroll ==
    /\ path = "FetchScroll" /\ phase = "read"
    /\ \E rc \in Codes, fetched \in 0..2, cells \in [Rowset -> Cells], statuses \in BOOLEAN :
        LET all == fetched = (IF row = 0 THEN 2 ELSE 1) IN
        /\ Witness(/\ \A r \in Rowset : /\ IsNull(r) \/ rc = RightCode(r, Stride)
                                        /\ cells[r] = RightBoundCell(r, r - row)
                   /\ all /\ statuses, cells, Rowset)
        /\ slots' = [i \in {0, 1} |->
                IF row + i \in Rowset THEN Slot(slots[i], row + i, cells[row + i]) ELSE slots[i]]
        /\ lengths' = [i \in {0, 1} |->
                IF row + i \in Rowset THEN cells[row + i].length ELSE lengths[i]]
        /\ IF rc # "success" \/ ~all THEN Stop
           ELSE Judge(Rowset, [r \in Rowset |-> slots'[r - row]],
                      [r \in Rowset |-> lengths'[r - row]], ~statuses)
    /\ row' = row + 2
    /\ UNCHANGED <<test, chunks, record>>

-----------------------------------------------------------------------------
(* ChunkedGetData.                                                          *)

\* Mutant: the terminator is taken for data.
PayloadWithTerminator == ChunkSize

Payload == ChunkSize - Terminator

\* States: the SQLSTATE of the first diagnostic record, if there is one.
Answers == [rc : Codes, state : {"01004", "other", "none"},
            length : {NullData, NoTotal} \cup 0..(Length + 1), bytes : 0..ChunkSize]

RightAnswer(answer) ==
    LET rest == Length - sent
        fits == rest + Terminator <= ChunkSize IN
    IF IsNull(row) THEN answer.rc = "success" /\ answer.length = NullData
    ELSE IF fits
    THEN answer.rc = "success" /\ answer.length = rest /\ answer.bytes = rest
    ELSE /\ answer.rc = "info" /\ answer.state = "01004"
         /\ answer.length \in {rest, NoTotal}
         /\ answer.bytes = ChunkSize - Terminator

NextChunk == chunk + 1

\* What the EXPECTs on one chunk find.
ChunkIsWrong(answer) ==
    LET cut == answer.rc = "info" IN
    IF IsNull(row) THEN cut \/ answer.length # NullData
    ELSE \/ cut /\ answer.state # "01004"
         \/ cut /\ answer.length # NoTotal /\ answer.length <= Payload
         \/ Terminator > 0 /\ answer.bytes > (IF cut THEN Payload ELSE answer.length)

\* One turn of the loop: SQLGetData into a fresh buffer.  Behind the bytes that
\* the driver writes there is a zero, whoever put it there.
GetChunk ==
    /\ path = "ChunkedGetData" /\ phase = "read"
    /\ \E answer \in Answers :
        LET cut == answer.rc = "info"
            count == IF cut THEN Payload ELSE answer.length
            total == result.size + count
            done == IsNull(row) \/ ~cut IN
        /\ right' = (right /\ RightAnswer(answer))
        /\ sent' = IF sent + answer.bytes < Length THEN sent + answer.bytes ELSE Length
        /\ IF \/ answer.rc = "no_data"
              \/ ~IsNull(row) /\ answer.length = NullData
              \/ ~IsNull(row) /\ cut /\ answer.state = "none"
              \/ ~IsNull(row) /\ ~cut /\ answer.length \notin 0..Payload
           THEN Stop /\ UNCHANGED <<result, written>>
           ELSE /\ failed' = (failed \/ ChunkIsWrong(answer) \/ (~done /\ NextChunk >= MaxChunks))
                /\ result' = IF IsNull(row) THEN result
                             ELSE [size |-> IF total <= Length THEN total ELSE Length + 1,
                                   intact |-> result.intact /\ answer.bytes >= count]
                /\ written' = IF done /\ result' = [size |-> Length, intact |-> TRUE]
                              THEN written \cup {row} ELSE written
                /\ phase' = IF done THEN "finished"
                            ELSE IF NextChunk < MaxChunks THEN "read" ELSE "over"
    /\ chunk' = NextChunk
    /\ UNCHANGED <<test, row, memory, record>>

\* Mutant: the chunks are counted over all rows.
FinishRowKeepsCount ==
    /\ phase = "finished"
    /\ \E rc \in Codes :
        /\ right' = (right /\ rc = "no_data")
        /\ failed' = (failed \/ rc # "no_data"
                        \/ (~IsNull(row) /\ result # [size |-> Length, intact |-> TRUE]))
    /\ phase' = IF row = 2 THEN "end" ELSE "read"
    /\ row' = row + 1
    /\ sent' = 0 /\ result' = [size |-> 0, intact |-> TRUE]
    /\ UNCHANGED <<test, memory, record, written, chunk>>

\* Mutant: the row just read is read again.
FinishRowStays ==
    /\ phase = "finished"
    /\ \E rc \in Codes :
        /\ right' = (right /\ rc = "no_data")
        /\ failed' = (failed \/ rc # "no_data"
                        \/ (~IsNull(row) /\ result # [size |-> Length, intact |-> TRUE]))
    /\ phase' = IF row = 2 THEN "end" ELSE "read"
    /\ row' = row
    /\ chunk' = 0 /\ sent' = 0 /\ result' = [size |-> 0, intact |-> TRUE]
    /\ UNCHANGED <<test, memory, record, written>>

\* The whole value is compared, and the driver asked once more.
FinishRow ==
    /\ phase = "finished"
    /\ \E rc \in Codes :
        /\ right' = (right /\ rc = "no_data")
        /\ failed' = (failed \/ rc # "no_data"
                        \/ (~IsNull(row) /\ result # [size |-> Length, intact |-> TRUE]))
    /\ phase' = IF row = 2 THEN "end" ELSE "read"
    /\ row' = row + 1
    /\ chunk' = 0 /\ sent' = 0 /\ result' = [size |-> 0, intact |-> TRUE]
    /\ UNCHANGED <<test, memory, record, written>>

-----------------------------------------------------------------------------
\* There is no fourth row.
EndOfData ==
    /\ phase = "end"
    /\ \E rc \in Codes :
        /\ right' = (right /\ rc = "no_data")
        /\ failed' = (failed \/ rc # "no_data")
    /\ phase' = "over"
    /\ UNCHANGED <<test, row, chunks, memory, record, written>>

Next == GetData \/ Bind \/ Fetch \/ FetchScroll \/ GetChunk \/ FinishRow \/ EndOfData

Spec == Init /\ [][Next]_vars /\ WF_vars(Next)

-----------------------------------------------------------------------------
(* Properties.                                                             *)

SlotType == [value : {Zeros, Other} \cup 1..3, zero : BOOLEAN]

(* The types of what the test holds and of what the driver writes.          *)
TypeOK ==
    /\ path \in Paths /\ column \in Columns /\ as \in Types
    /\ phase \in {"bind", "read", "finished", "end", "over"}
    /\ row \in 0..4
    /\ chunk \in 0..MaxChunks /\ sent \in 0..Length
    /\ result \in [size : 0..(Length + 1), intact : BOOLEAN]
    /\ slots \in [{0, 1} -> SlotType]
    /\ lengths \in [{0, 1} -> {NullData, 0, Length, Length + 1}]
    /\ record \in [bound : BOOLEAN, precision : BOOLEAN, scale : BOOLEAN]
    /\ failed \in BOOLEAN /\ right \in BOOLEAN
    /\ written \subseteq 0..2

\* What a column must be like for its test to be right about right drivers.
Fits ==
    /\ path \in {"GetData", "BindColumns"} =>
        Length + Terminator <= BufferSize /\ Length < BufferSize
    /\ path = "FetchScroll" =>
        (as # "fixed" => Length + Terminator <= RowSize) /\ Length < BufferSize
    /\ path = "ChunkedGetData" => Length <= MaxChunks * Payload

(* A driver that answers as ODBC says passes, on every path, whatever the   *)
(* lengths are: at the limits of the buffers, of the array's elements and   *)
(* of the chunks, and exactly at the end of a chunk.                       *)
RightDriverPasses == (right /\ Fits) => ~failed

Green == phase = "over" /\ ~failed

\* The buffer of the third row still holds the value of the first.
MayBeStale(r) ==
    r = 2 /\ path \in {"BindColumns", "FetchScroll"} /\ ~column.generated /\ 0 \in written

(* A driver passes only if it wrote the value of every row: a repeated value *)
(* that is bound excepted, which may be what the first row left behind.     *)
GreenMeansWritten ==
    Green => \A r \in 0..2 : IsNull(r) \/ r \in written \/ MayBeStale(r)

(* Every test ends, whatever the driver answers.                            *)
TestsEnd == <>(phase = "over")
=============================================================================
