-------------------------- MODULE Retrieval_proofs --------------------------
(***************************************************************************)
(* TLAPS proofs about Retrieval, for every set of columns and every size of  *)
(* buffers and chunks.                                                     *)
(***************************************************************************)
EXTENDS Retrieval, Samples, TLAPS

-----------------------------------------------------------------------------
(* The inductive invariant.                                                *)

Whole == [size |-> Length, intact |-> TRUE]

\* Where the test stands.
PlaceInv ==
    /\ phase = "bind" => row = 0 /\ path \in {"BindColumns", "FetchScroll"}
    /\ phase = "read" =>
        /\ row \in 0..2
        /\ path = "FetchScroll" => row # 1
        /\ path = "ChunkedGetData" => chunk < MaxChunks
    /\ phase = "finished" => row \in 0..2 /\ path = "ChunkedGetData"
    /\ phase = "end" \/ (phase = "over" /\ ~failed) => row > 2

\* A right driver is where the test thinks it is.
RightInv ==
    right /\ Fits =>
        /\ ~failed
        /\ phase = "read" /\ path \in {"BindColumns", "FetchScroll"} =>
            /\ record.bound
            /\ as = "fixed" /\ column.scaled => record.precision /\ record.scale
        /\ phase = "read" /\ path = "ChunkedGetData" =>
            /\ sent = chunk * Payload
            /\ result = [size |-> sent, intact |-> TRUE]
            /\ chunk > 0 => sent < Length
        /\ phase = "finished" /\ ~IsNull(row) => result = Whole

\* What the buffers of bound columns hold was written there.
SlotInv ==
    path \in {"BindColumns", "FetchScroll"} =>
        \A i \in {0, 1} :
            /\ row = 0 => slots[i].value = Zeros
            /\ column.generated => \A r \in 0..2 : slots[i].value = r + 1 => r \in written

Passed(r) == IsNull(r) \/ r \in written \/ MayBeStale(r)

\* The rows that were judged were written.
WrittenInv ==
    ~failed =>
        /\ \A r \in 0..2 : r < row => Passed(r)
        /\ phase = "finished" /\ result = Whole => row \in written

\* Columns are bound as text or read as what they are.
Kinds ==
    /\ path = "BindColumns" => as = "wchar"
    /\ path \in {"FetchScroll", "ChunkedGetData"} => as = column.type

IInv == TypeOK /\ Kinds /\ PlaceInv /\ RightInv /\ SlotInv /\ WrittenInv

-----------------------------------------------------------------------------
LEMMA ColumnFacts ==
    ASSUME column \in Columns
    PROVE  /\ column.scaled \in BOOLEAN /\ column.generated \in BOOLEAN
           /\ column.native \in Nat /\ column.text \in Nat
           /\ Length \in Nat
           /\ as = "wchar" => Length % 2 = 0
<1>1. column \in [type : Types, native : Nat, text : Nat,
                  scaled : BOOLEAN, generated : BOOLEAN, large : BOOLEAN]
  BY RetrievalAssumption
<1>2. /\ column.scaled \in BOOLEAN /\ column.generated \in BOOLEAN
      /\ column.native \in Nat /\ column.text \in Nat
  BY <1>1
<1> DEFINE native == IF column.generated THEN 8 ELSE column.native
           text == IF column.generated THEN 16 ELSE column.text
<1>3. native \in Nat /\ text \in Nat
  BY <1>2
<1>4. Length = IF as = "char" THEN text ELSE IF as = "wchar" THEN 2 * text ELSE native
  BY DEF Length
<1> HIDE DEF native, text
<1>5. \A n \in Nat : 2 * n \in Nat /\ (2 * n) % 2 = 0
  OBVIOUS
<1>6. 2 * text \in Nat /\ (2 * text) % 2 = 0
  BY <1>3, <1>5
<1>7. Length \in Nat
  BY <1>3, <1>4, <1>6
<1>8. as = "wchar" => Length % 2 = 0
  BY <1>4, <1>6
<1> QED BY <1>2, <1>7, <1>8

LEMMA Sizes ==
    ASSUME TypeOK
    PROVE  Length \in Nat /\ Terminator \in {0, 1, 2} /\ Payload \in Nat /\ Payload > 0
<1>1. Length \in Nat
  BY ColumnFacts DEF TypeOK
<1>2. Terminator \in {0, 1, 2}
  BY DEF Terminator
<1>3. ChunkSize \in Nat /\ ChunkSize > 2
  BY RetrievalAssumption
<1> QED BY <1>1, <1>2, <1>3 DEF Payload

\* The test stays the one it is.
LEMMA TestKept ==
    ASSUME UNCHANGED test
    PROVE  /\ path' = path /\ column' = column /\ as' = as
           /\ Length' = Length /\ Terminator' = Terminator /\ Payload' = Payload
           /\ Fits' = Fits /\ Stride' = Stride /\ Whole' = Whole
  BY DEF test, Length, Terminator, Payload, Fits, Stride, Whole

LEMMA KindsKept == ASSUME Kinds, UNCHANGED test PROVE Kinds'
  BY DEF Kinds, test

LEMMA NullKept ==
    ASSUME UNCHANGED test
    PROVE  \A r : IsNull(r)' = IsNull(r) /\ Value(r)' = Value(r)
  BY DEF test, IsNull, Value

LEMMA InitInv == Init => IInv
<1> SUFFICES ASSUME Init PROVE IInv
  OBVIOUS
<1>1. TypeOK
  <2>2. Length \in Nat
    BY ColumnFacts DEF Init
  <2>3. 0 \in 0..Length /\ 0 \in 0..(Length + 1) /\ 0 \in 0..MaxChunks
    BY <2>2, RetrievalAssumption
  <2>4. phase \in {"bind", "read"}
    BY DEF Init
  <2>5. slots \in [{0, 1} -> SlotType] /\ lengths \in [{0, 1} -> {NullData, 0, Length, Length + 1}]
    BY DEF Init, SlotType, Fresh, Zeros
  <2>6. /\ path \in Paths /\ column \in Columns /\ as \in Types /\ row = 0
        /\ chunk = 0 /\ sent = 0 /\ failed = FALSE /\ right = TRUE
        /\ written = {} /\ result = [size |-> 0, intact |-> TRUE]
        /\ record = [bound |-> FALSE, precision |-> FALSE, scale |-> FALSE]
    BY DEF Init
  <2> HIDE DEF Init
  <2>7. result \in [size : 0..(Length + 1), intact : BOOLEAN] /\ sent \in 0..Length
        /\ chunk \in 0..MaxChunks
    BY <2>3, <2>6
  <2>8. record \in [bound : BOOLEAN, precision : BOOLEAN, scale : BOOLEAN]
    BY <2>6
  <2>9. failed \in BOOLEAN /\ right \in BOOLEAN
    BY <2>6
  <2>10. row \in 0..4
    BY <2>6
  <2>11. written \subseteq 0..2
    BY <2>6
  <2>12. path \in Paths /\ column \in Columns /\ as \in Types
    BY <2>6
  <2> QED BY <2>4, <2>5, <2>7, <2>8, <2>9, <2>10, <2>11, <2>12 DEF TypeOK
<1>2. PlaceInv
  BY RetrievalAssumption DEF Init, PlaceInv, Paths
<1>3. RightInv
  <2>1. Payload \in Nat
    BY <1>1, Sizes
  <2> QED BY <2>1 DEF Init, RightInv
<1>4. SlotInv
  BY DEF Init, SlotInv, Fresh, Zeros
<1>5. WrittenInv
  BY DEF Init, WrittenInv
<1>6. Kinds
  BY DEF Init, Kinds
<1> QED BY <1>1, <1>2, <1>3, <1>4, <1>5, <1>6 DEF IInv

-----------------------------------------------------------------------------
(* One value: what a driver writes, and what the test makes of it.          *)

LEMMA SlotFacts ==
    ASSUME TypeOK, NEW slot \in SlotType, NEW r \in 0..2, NEW cell \in Cells
    PROVE  /\ Slot(slot, r, cell) \in SlotType
           /\ Slot(slot, r, cell).value \in {slot.value, Other, Value(r)}
           /\ Slot(slot, r, cell).value = Value(r) =>
                slot.value = Value(r) \/ cell.wrote \in {"value", "overrun"}
           /\ Value(r) \in 1..3
<1>1. Value(r) \in 1..3
  BY DEF Value
<1> QED BY <1>1 DEF Slot, SlotType, Cells, Writes, Other, Zeros

\* A right value that fits is accepted.
LEMMA RightIsAccepted ==
    ASSUME TypeOK, NEW slot \in SlotType, NEW r \in 0..2, NEW cell \in Cells, NEW desc,
           cell = RightCell(r, desc),
           as = "fixed" /\ column.scaled => desc.precision /\ desc.scale,
           Length < BufferSize
    PROVE  /\ Accepts(r, Slot(slot, r, cell), cell.length)
           /\ ~Stops(r, cell.length)
<1>1. Length \in Nat /\ (as = "wchar" => Length % 2 = 0) /\ BufferSize \in Nat
  BY ColumnFacts, RetrievalAssumption DEF TypeOK
<1>2. CASE IsNull(r)
  BY <1>2 DEF RightCell, Accepts, Stops
<1>3. CASE ~IsNull(r)
  <2>1. cell = [length |-> Length, wrote |-> "value"]
    BY <1>3 DEF RightCell
  <2>2. Slot(slot, r, cell) = [value |-> Value(r), zero |-> TRUE]
    BY <2>1 DEF Slot
  <2>3. cell.length = Length
    BY <2>1
  <2>4. Accepts(r, Slot(slot, r, cell), cell.length)
    BY <1>3, <2>2, <2>3 DEF Accepts
  <2>5. ~(cell.length < 0) /\ ~(cell.length >= BufferSize)
    BY <1>1, <2>3
  <2>6. as = "wchar" => cell.length % 2 = 0
    BY <1>1, <2>3
  <2>7. ~Stops(r, cell.length)
    BY <2>3, <2>5, <2>6 DEF Stops
  <2> QED BY <2>4, <2>7
<1> QED BY <1>2, <1>3

-----------------------------------------------------------------------------
(* The rows of one call are judged.                                         *)

LEMMA PassedKept ==
    ASSUME UNCHANGED test, written \subseteq written'
    PROVE  \A r : Passed(r) => Passed(r)'
  BY NullKept DEF Passed, MayBeStale, test

\* What GetData, Fetch and FetchScroll have in common.
LEMMA JudgedInv ==
    ASSUME IInv, phase = "read", path # "ChunkedGetData", UNCHANGED <<test, chunks>>,
           row' = IF path = "FetchScroll" THEN row + 2 ELSE row + 1,
           written \subseteq written', right' => right,
           path # "GetData" => UNCHANGED record,
           NEW rows, rows = {r \in 0..2 : row <= r /\ r < row'},
           NEW slotOf, NEW lengthOf, NEW wrong \in BOOLEAN,
           \/ Stop /\ ~(right' /\ Fits)
           \/ Judge(rows, slotOf, lengthOf, wrong),
           right' /\ Fits =>
              ~wrong /\ \A r \in rows : /\ ~Stops(r, lengthOf[r])
                                        /\ Accepts(r, slotOf[r], lengthOf[r]),
           ~failed => \A r \in rows : slotOf[r].value = Value(r) => Passed(r)'
    PROVE  /\ phase' \in {"read", "end", "over"} /\ failed' \in BOOLEAN /\ row' \in 0..4
           /\ PlaceInv' /\ RightInv' /\ WrittenInv'
<1> DEFINE stops == \E r \in rows : Stops(r, lengthOf[r])
           bad == \E r \in rows : Stops(r, lengthOf[r]) \/ ~Accepts(r, slotOf[r], lengthOf[r])
<1>1. row \in 0..2 /\ (path = "FetchScroll" => row # 1) /\ path \in Paths
  BY DEF IInv, PlaceInv, TypeOK
<1>2. row' \in 0..4 /\ (2 \in rows <=> row' > 2) /\ (row' <= 2 => row' \in 0..2)
      /\ (path = "FetchScroll" => row' # 1)
  BY <1>1
<1>3. /\ failed' \in BOOLEAN
      /\ ~failed' => ~failed /\ ~bad /\ ~stops
      /\ right' /\ Fits => (failed' => failed)
      /\ phase' \in {"read", "end", "over"}
      /\ phase' = "over" => failed'
      /\ phase' = "end" => row' > 2
      /\ phase' = "read" => row' <= 2
  <2>1. CASE Stop /\ ~(right' /\ Fits)
    BY <2>1 DEF Stop
  <2>2. CASE Judge(rows, slotOf, lengthOf, wrong)
    <3>1. /\ failed' = (failed \/ wrong \/ bad)
          /\ phase' = IF stops THEN "over" ELSE IF \E r \in rows : r = 2 THEN "end" ELSE "read"
      BY <2>2 DEF Judge
    <3>2. stops => bad
      OBVIOUS
    <3>3. (\E r \in rows : r = 2) <=> 2 \in rows
      OBVIOUS
    <3>4. right' /\ Fits => ~wrong /\ ~bad
      OBVIOUS
    <3> HIDE DEF stops, bad
    <3>5. failed' \in BOOLEAN /\ (~failed' => ~failed /\ ~bad /\ ~stops)
          /\ (right' /\ Fits => (failed' => failed)) /\ (stops => failed')
      BY <3>1, <3>2, <3>4, Zenon
    <3>6. row' > 2 \/ row' <= 2
      BY <1>2
    <3> QED BY <3>1, <3>3, <3>5, <3>6, <1>2
  <2> QED BY <2>1, <2>2
<1>4. PlaceInv'
  BY <1>2, <1>3, TestKept DEF PlaceInv
<1>5. RightInv'
  <2> SUFFICES ASSUME right', Fits' PROVE RightInv'
    BY DEF RightInv
  <2>1. right /\ Fits
    BY TestKept
  <2>2. ~failed'
    BY <1>3, <2>1 DEF IInv, RightInv
  <2>3. phase' = "read" /\ path' \in {"BindColumns", "FetchScroll"} =>
            /\ record'.bound
            /\ as' = "fixed" /\ column'.scaled => record'.precision /\ record'.scale
    BY <2>1, TestKept DEF IInv, RightInv
  <2> QED BY <2>2, <2>3, <1>3, TestKept DEF RightInv
<1>6. WrittenInv'
  <2> SUFFICES ASSUME ~failed' PROVE WrittenInv'
    BY DEF WrittenInv
  <2>1. ~failed /\ ~bad
    BY <1>3
  <2>2. \A r \in 0..2 : r < row => Passed(r)'
    BY <2>1, PassedKept DEF IInv, WrittenInv
  <2>3. \A r \in rows : Passed(r)'
    <3> TAKE r \in rows
    <3>1. Accepts(r, slotOf[r], lengthOf[r])
      BY <2>1
    <3>2. IsNull(r) \/ slotOf[r].value = Value(r)
      BY <3>1 DEF Accepts
    <3>3. CASE IsNull(r)
      BY <3>3, NullKept DEF Passed
    <3> QED BY <3>2, <3>3, <2>1
  <2>4. \A r \in 0..2 : r < row' => r < row \/ r \in rows
    BY <1>1
  <2>5. \A r \in 0..2 : r < row' => Passed(r)'
    BY <2>2, <2>3, <2>4
  <2> QED BY <2>5, <1>3 DEF WrittenInv, Passed, MayBeStale, IsNull
<1> QED BY <1>2, <1>3, <1>4, <1>5, <1>6

\* What the driver is seen to do only adds to what it was seen to do.
LEMMA WitnessFacts ==
    ASSUME TypeOK, NEW isRight \in BOOLEAN, NEW rows \in SUBSET (0..2),
           NEW cells \in [rows -> Cells], Witness(isRight, cells, rows)
    PROVE  /\ right' \in BOOLEAN /\ written' \subseteq 0..2
           /\ written \subseteq written'
           /\ right' => right /\ isRight
           /\ \A r \in rows : cells[r].wrote \in {"value", "overrun"} => r \in written'
<1>1. /\ right' = (right /\ isRight)
      /\ written' = written \cup {r \in rows : cells[r].wrote \in {"value", "overrun"}}
  BY Zenon DEF Witness
<1>2. right' \in BOOLEAN /\ (right' => right /\ isRight)
  BY <1>1, Zenon DEF TypeOK
<1>3. written' \subseteq 0..2 /\ written \subseteq written'
  BY <1>1 DEF TypeOK
<1>4. \A r \in rows : cells[r].wrote \in {"value", "overrun"} => r \in written'
  BY <1>1
<1> QED BY <1>1, <1>2, <1>3, <1>4

\* The types after a step that reads no chunk.
LEMMA TypeStep ==
    ASSUME TypeOK, UNCHANGED <<test, chunks>>,
           phase' \in {"read", "end", "over"}, row' \in 0..4,
           failed' \in BOOLEAN, right' \in BOOLEAN, written' \subseteq 0..2,
           slots' \in [{0, 1} -> SlotType],
           lengths' \in [{0, 1} -> {NullData, 0, Length, Length + 1}],
           record' \in [bound : BOOLEAN, precision : BOOLEAN, scale : BOOLEAN]
    PROVE  TypeOK'
<1>1. /\ path' \in Paths /\ column' \in Columns /\ as' \in Types
      /\ Length' = Length
  BY TestKept DEF TypeOK
<1>2. /\ chunk' \in 0..MaxChunks /\ sent' \in 0..Length
      /\ result' \in [size : 0..(Length + 1), intact : BOOLEAN]
  BY DEF TypeOK, chunks
<1> QED BY <1>1, <1>2 DEF TypeOK

LEMMA FreshSlot == Fresh \in SlotType /\ \A r \in 0..2 : Fresh.value # Value(r)
  BY DEF Fresh, SlotType, Zeros, Value

\* A record stays one.
LEMMA DescriptorFacts ==
    ASSUME NEW desc \in [bound : BOOLEAN, precision : BOOLEAN, scale : BOOLEAN],
           NEW buffer \in BOOLEAN
    PROVE  /\ NumericDescriptor(desc, buffer) \in [bound : BOOLEAN, precision : BOOLEAN, scale : BOOLEAN]
           /\ desc.bound /\ buffer => NumericDescriptor(desc, buffer).bound
           /\ column.scaled => /\ NumericDescriptor(desc, buffer).precision
                               /\ NumericDescriptor(desc, buffer).scale
  BY DEF NumericDescriptor, SetField

LEMMA GetDataInv == ASSUME IInv, GetData PROVE IInv'
<1> DEFINE good(rc, cell) == rc = RightCode(row, BufferSize) /\ cell = RightCell(row, record')
<1>1. PICK rc \in Codes : \E cell \in Cells :
        /\ Witness(good(rc, cell), [r \in {row} |-> cell], {row})
        /\ IF rc # "success" THEN Stop
           ELSE Judge({row}, [r \in {row} |-> Slot(Fresh, row, cell)],
                      [r \in {row} |-> cell.length], FALSE)
  BY DEF GetData
<1>2. PICK cell \in Cells :
        /\ Witness(good(rc, cell), [r \in {row} |-> cell], {row})
        /\ IF rc # "success" THEN Stop
           ELSE Judge({row}, [r \in {row} |-> Slot(Fresh, row, cell)],
                      [r \in {row} |-> cell.length], FALSE)
  BY <1>1
<1>3. /\ path = "GetData" /\ phase = "read" /\ row \in 0..2 /\ row' = row + 1
      /\ UNCHANGED <<test, chunks, memory>>
      /\ record' = IF as = "fixed" THEN NumericDescriptor(record, FALSE) ELSE record
  BY DEF GetData, IInv, PlaceInv
<1> DEFINE slot == Slot(Fresh, row, cell)
           isRight == good(rc, cell)
<1>4. TypeOK
  BY DEF IInv
<1>5. isRight \in BOOLEAN /\ [r \in {row} |-> cell] \in [{row} -> Cells]
  OBVIOUS
<1>6. /\ right' \in BOOLEAN /\ written' \subseteq 0..2
      /\ written \subseteq written' /\ (right' => right /\ isRight)
      /\ cell.wrote \in {"value", "overrun"} => row \in written'
  <2> HIDE DEF isRight
  <2>1. Witness(isRight, [r \in {row} |-> cell], {row}) /\ {row} \in SUBSET (0..2)
    BY <1>2, <1>3 DEF isRight
  <2>2. /\ right' \in BOOLEAN /\ written' \subseteq 0..2
        /\ written \subseteq written' /\ (right' => right /\ isRight)
        /\ \A r \in {row} : [q \in {row} |-> cell][r].wrote \in {"value", "overrun"}
                => r \in written'
    BY <2>1, <1>4, <1>5, WitnessFacts
  <2> QED BY <2>2
<1>7. /\ slot \in SlotType
      /\ slot.value = Value(row) => cell.wrote \in {"value", "overrun"}
  BY <1>3, <1>4, FreshSlot, SlotFacts
<1>8. right' /\ Fits => rc = "success" /\ ~Stops(row, cell.length) /\ Accepts(row, slot, cell.length)
  <2> SUFFICES ASSUME right', Fits
               PROVE  rc = "success" /\ ~Stops(row, cell.length) /\ Accepts(row, slot, cell.length)
    OBVIOUS
  <2>1. rc = RightCode(row, BufferSize) /\ cell = RightCell(row, record')
    BY <1>6
  <2>2. Length + Terminator <= BufferSize /\ Length < BufferSize
    BY <1>3 DEF Fits
  <2>5. ~(Length + Terminator > BufferSize)
    BY <2>2, <1>4, Sizes, RetrievalAssumption
  <2>3. rc = "success"
    BY <2>1, <2>5, Zenon DEF RightCode
  <2>4. as = "fixed" /\ column.scaled => record'.precision /\ record'.scale
    BY <1>3, <1>4, DescriptorFacts DEF TypeOK
  <2> QED BY <2>1, <2>2, <2>3, <2>4, <1>3, <1>4, FreshSlot, RightIsAccepted
<1>9. \A r \in {row} : slot.value = Value(r) => Passed(r)'
  BY <1>6, <1>7 DEF Passed
<1>10. /\ phase' \in {"read", "end", "over"} /\ failed' \in BOOLEAN /\ row' \in 0..4
       /\ PlaceInv' /\ RightInv' /\ WrittenInv'
  <2> DEFINE slotOf == [r \in {row} |-> slot]
             lengthOf == [r \in {row} |-> cell.length]
  <2>1. \/ Stop /\ ~(right' /\ Fits)
        \/ Judge({row}, slotOf, lengthOf, FALSE)
    BY <1>2, <1>8
  <2>2. slotOf[row] = slot /\ lengthOf[row] = cell.length
    OBVIOUS
  <2>3. {row} = {r \in 0..2 : row <= r /\ r < row'} /\ row' = IF path = "FetchScroll" THEN row + 2 ELSE row + 1
    BY <1>3
  <2> HIDE DEF slot, slotOf, lengthOf, isRight, good
  <2>4. right' /\ Fits => ~FALSE /\ \A r \in {row} : /\ ~Stops(r, lengthOf[r])
                                                     /\ Accepts(r, slotOf[r], lengthOf[r])
    BY <1>8, <2>2
  <2>5. \A r \in {row} : slotOf[r].value = Value(r) => Passed(r)'
    BY <1>9, <2>2
  <2>6. path # "ChunkedGetData" /\ (path # "GetData" => UNCHANGED record) /\ FALSE \in BOOLEAN
        /\ UNCHANGED <<test, chunks>> /\ (right' => right)
    BY <1>3, <1>6
  <2> QED BY <2>1, <2>3, <2>4, <2>5, <2>6, <1>3, <1>6, JudgedInv
<1>11. TypeOK'
  <2>1. record' \in [bound : BOOLEAN, precision : BOOLEAN, scale : BOOLEAN]
    BY <1>3, <1>4, DescriptorFacts DEF TypeOK
  <2>2. UNCHANGED <<slots, lengths>>
    BY <1>3 DEF memory
  <2>3. slots' \in [{0, 1} -> SlotType] /\ lengths' \in [{0, 1} -> {NullData, 0, Length, Length + 1}]
    BY <2>2, <1>4 DEF TypeOK
  <2> QED BY <1>3, <1>4, <1>6, <1>10, <2>1, <2>3, TypeStep
<1>12. SlotInv'
  BY <1>3, TestKept DEF SlotInv
<1> QED BY <1>3, <1>10, <1>11, <1>12, KindsKept DEF IInv

\* A bound column gets the right value of a right driver.
LEMMA RightBoundIsAccepted ==
    ASSUME IInv, right, Fits, phase = "read", path \in {"BindColumns", "FetchScroll"},
           NEW r \in 0..2, NEW i, NEW cell \in Cells, cell = RightBoundCell(r, i),
           NEW slot \in SlotType
    PROVE  Accepts(r, Slot(slot, r, cell), cell.length) /\ ~Stops(r, cell.length)
<1>1. record.bound /\ (as = "fixed" /\ column.scaled => record.precision /\ record.scale)
  BY DEF IInv, RightInv
<1>2. cell = RightCell(r, record)
  BY <1>1 DEF RightBoundCell
<1>3. Length < BufferSize
  BY DEF Fits
<1> QED BY <1>1, <1>2, <1>3, RightIsAccepted DEF IInv

\* A bound buffer that holds the right value got it there.
LEMMA BoundIsPassed ==
    ASSUME IInv, path \in {"BindColumns", "FetchScroll"}, UNCHANGED test,
           written \subseteq written', NEW r \in 0..2, row <= r, NEW i \in {0, 1},
           ~failed, row = 0 \/ r = 2 \/ r = row, NEW cell \in Cells,
           Slot(slots[i], r, cell).value = Value(r),
           cell.wrote \in {"value", "overrun"} => r \in written'
    PROVE  Passed(r)'
<1>1. slots[i] \in SlotType /\ TypeOK
  BY DEF IInv, TypeOK
<1>2. slots[i].value = Value(r) \/ r \in written'
  BY <1>1, SlotFacts
<1>3. CASE r \in written'
  BY <1>3 DEF Passed
<1>4. CASE slots[i].value = Value(r) /\ column.generated
  <2>1. slots[i].value = r + 1
    BY <1>4 DEF Value
  <2> QED BY <2>1, <1>4 DEF IInv, SlotInv, Passed
<1>5. CASE slots[i].value = Value(r) /\ ~column.generated
  <2>1. row # 0
    BY <1>5 DEF IInv, SlotInv, Value, Zeros
  <2>2. CASE r = 1
    BY <2>2, <1>5, NullKept DEF Passed, IsNull
  <2>3. CASE r = 2
    <3>1. row \in 0..4
      BY DEF IInv, TypeOK
    <3>2. Passed(0)
      BY <2>1, <3>1 DEF IInv, WrittenInv
    <3>3. 0 \in written
      BY <3>2 DEF Passed, IsNull, MayBeStale
    <3> QED BY <2>3, <3>3, <1>5, TestKept DEF Passed, MayBeStale
  <2>4. row \in 0..4
    BY DEF IInv, TypeOK
  <2> QED BY <2>1, <2>2, <2>3, <2>4
<1> QED BY <1>2, <1>3, <1>4, <1>5

LEMMA BindInv == ASSUME IInv, Bind PROVE IInv'
<1>1. /\ phase = "bind" /\ phase' = "read" /\ row = 0 /\ path \in {"BindColumns", "FetchScroll"}
      /\ UNCHANGED <<test, row, chunks, memory, failed, history>>
  BY DEF Bind, IInv, PlaceInv
<1>2. /\ right' = right /\ written' = written /\ failed' = failed /\ row' = row
      /\ slots' = slots /\ lengths' = lengths /\ chunk' = chunk /\ sent' = sent /\ result' = result
  BY <1>1 DEF history, memory, chunks
<1> DEFINE bound == [bound |-> TRUE, precision |-> FALSE, scale |-> FALSE]
<1>3. record' = IF path = "FetchScroll" THEN NumericDescriptor(bound, TRUE) ELSE bound
  BY DEF Bind
<1>4. /\ record' \in [bound : BOOLEAN, precision : BOOLEAN, scale : BOOLEAN]
      /\ record'.bound
      /\ path = "FetchScroll" /\ column.scaled => record'.precision /\ record'.scale
  <2>1. bound \in [bound : BOOLEAN, precision : BOOLEAN, scale : BOOLEAN] /\ bound.bound
    OBVIOUS
  <2> HIDE DEF bound
  <2> QED BY <2>1, <1>3, DescriptorFacts
<1>5. TypeOK'
  <2>1. TypeOK /\ row \in 0..4
    BY DEF IInv, TypeOK
  <2>2. slots \in [{0, 1} -> SlotType] /\ lengths \in [{0, 1} -> {NullData, 0, Length, Length + 1}]
    BY <2>1 DEF TypeOK
  <2>3. failed \in BOOLEAN /\ right \in BOOLEAN /\ written \subseteq 0..2
    BY <2>1 DEF TypeOK
  <2> QED BY <1>1, <1>2, <1>4, <2>1, <2>2, <2>3, TypeStep
<1>6. PlaceInv'
  BY <1>1, <1>2, TestKept DEF PlaceInv
<1>7. RightInv'
  <2>1. path = "BindColumns" => as # "fixed"
    BY DEF IInv, Kinds
  <2> SUFFICES ASSUME right', Fits' PROVE RightInv'
    BY DEF RightInv
  <2>2. right /\ Fits
    BY <1>1, <1>2, TestKept
  <2>3. ~failed'
    BY <2>2, <1>2 DEF IInv, RightInv
  <2>4. as' = "fixed" /\ column'.scaled => record'.precision /\ record'.scale
    BY <2>1, <1>1, <1>4, TestKept
  <2>5. path' # "ChunkedGetData" /\ phase' = "read"
    BY <1>1, TestKept
  <2> QED BY <2>3, <2>4, <2>5, <1>4 DEF RightInv
<1>8. SlotInv'
  BY <1>2, <1>1, TestKept DEF IInv, SlotInv
<1>9. WrittenInv'
  <2>1. row = 0
    BY <1>1
  <2> QED BY <2>1, <1>1, <1>2 DEF WrittenInv
<1> QED BY <1>1, <1>5, <1>6, <1>7, <1>8, <1>9, KindsKept DEF IInv

LEMMA FetchInv == ASSUME IInv, Fetch PROVE IInv'
<1> DEFINE good(rc, cell) == rc = RightCode(row, BufferSize) /\ cell = RightBoundCell(row, 0)
           slot(cell) == Slot(slots[0], row, cell)
<1>1. PICK rc \in Codes : \E cell \in Cells :
        /\ Witness(good(rc, cell), [r \in {row} |-> cell], {row})
        /\ slots' = [slots EXCEPT ![0] = slot(cell)]
        /\ lengths' = [lengths EXCEPT ![0] = cell.length]
        /\ IF rc # "success" THEN Stop
           ELSE Judge({row}, [r \in {row} |-> slots'[0]],
                      [r \in {row} |-> cell.length], FALSE)
  BY DEF Fetch
<1>2. PICK cell \in Cells :
        /\ Witness(good(rc, cell), [r \in {row} |-> cell], {row})
        /\ slots' = [slots EXCEPT ![0] = slot(cell)]
        /\ lengths' = [lengths EXCEPT ![0] = cell.length]
        /\ IF rc # "success" THEN Stop
           ELSE Judge({row}, [r \in {row} |-> slots'[0]],
                      [r \in {row} |-> cell.length], FALSE)
  BY <1>1
<1>3. /\ path = "BindColumns" /\ phase = "read" /\ row \in 0..2 /\ row' = row + 1
      /\ UNCHANGED <<test, chunks, record>>
  BY DEF Fetch, IInv, PlaceInv
<1> DEFINE isRight == good(rc, cell)
<1>4. /\ TypeOK /\ slots \in [{0, 1} -> SlotType] /\ slots[0] \in SlotType
      /\ lengths \in [{0, 1} -> {NullData, 0, Length, Length + 1}]
  BY DEF IInv, TypeOK
<1>5. /\ isRight \in BOOLEAN /\ [r \in {row} |-> cell] \in [{row} -> Cells]
      /\ {row} \in SUBSET (0..2)
  BY <1>3
<1>6. /\ right' \in BOOLEAN /\ written' \subseteq 0..2
      /\ written \subseteq written' /\ (right' => right /\ isRight)
      /\ cell.wrote \in {"value", "overrun"} => row \in written'
  <2> HIDE DEF isRight
  <2>1. Witness(isRight, [r \in {row} |-> cell], {row})
    BY <1>2 DEF isRight
  <2>2. /\ right' \in BOOLEAN /\ written' \subseteq 0..2
        /\ written \subseteq written' /\ (right' => right /\ isRight)
        /\ \A r \in {row} : [q \in {row} |-> cell][r].wrote \in {"value", "overrun"}
                => r \in written'
    BY <2>1, <1>4, <1>5, WitnessFacts
  <2> QED BY <2>2
<1>7. slot(cell) \in SlotType /\ slots'[0] = slot(cell) /\ slots'[1] = slots[1]
      /\ slots' \in [{0, 1} -> SlotType]
  <2>1. slot(cell) \in SlotType
    BY <1>3, <1>4, SlotFacts
  <2> HIDE DEF slot
  <2> QED BY <2>1, <1>2, <1>4
<1>8. right' /\ Fits =>
        rc = "success" /\ ~Stops(row, cell.length) /\ Accepts(row, slot(cell), cell.length)
  <2> SUFFICES ASSUME right', Fits
               PROVE  rc = "success" /\ ~Stops(row, cell.length) /\ Accepts(row, slot(cell), cell.length)
    OBVIOUS
  <2>1. right /\ rc = RightCode(row, BufferSize) /\ cell = RightBoundCell(row, 0)
    BY <1>6
  <2>2. ~(Length + Terminator > BufferSize)
    BY <1>3, <1>4, Sizes, RetrievalAssumption DEF Fits
  <2>3. rc = "success"
    BY <2>1, <2>2, Zenon DEF RightCode
  <2> QED BY <2>1, <2>3, <1>3, <1>4, RightBoundIsAccepted
<1>9. ~failed => \A r \in {row} : slot(cell).value = Value(r) => Passed(r)'
  <2> SUFFICES ASSUME ~failed, NEW r \in {row}, slot(cell).value = Value(r) PROVE Passed(r)'
    OBVIOUS
  <2>1. r = row /\ r \in 0..2 /\ row <= r /\ 0 \in {0, 1} /\ UNCHANGED test
    BY <1>3
  <2> QED BY <2>1, <1>3, <1>6, BoundIsPassed
<1>10. /\ phase' \in {"read", "end", "over"} /\ failed' \in BOOLEAN /\ row' \in 0..4
       /\ PlaceInv' /\ RightInv' /\ WrittenInv'
  <2> DEFINE slotOf == [r \in {row} |-> slot(cell)]
             lengthOf == [r \in {row} |-> cell.length]
  <2>1. \/ Stop /\ ~(right' /\ Fits)
        \/ Judge({row}, slotOf, lengthOf, FALSE)
    BY <1>2, <1>7, <1>8
  <2>2. slotOf[row] = slot(cell) /\ lengthOf[row] = cell.length
    OBVIOUS
  <2>3. {row} = {r \in 0..2 : row <= r /\ r < row'} /\ row' = IF path = "FetchScroll" THEN row + 2 ELSE row + 1
    BY <1>3
  <2> HIDE DEF slot, slotOf, lengthOf, isRight, good
  <2>4. right' /\ Fits => ~FALSE /\ \A r \in {row} : /\ ~Stops(r, lengthOf[r])
                                                     /\ Accepts(r, slotOf[r], lengthOf[r])
    BY <1>8, <2>2
  <2>5. ~failed => \A r \in {row} : slotOf[r].value = Value(r) => Passed(r)'
    BY <1>9, <2>2
  <2>6. path # "ChunkedGetData" /\ (path # "GetData" => UNCHANGED record) /\ FALSE \in BOOLEAN
        /\ UNCHANGED <<test, chunks>> /\ (right' => right)
    BY <1>3, <1>6
  <2> QED BY <2>1, <2>3, <2>4, <2>5, <2>6, <1>3, <1>6, JudgedInv
<1>11. TypeOK'
  <2>1. lengths' \in [{0, 1} -> {NullData, 0, Length, Length + 1}]
    <3>1. cell.length \in {NullData, 0, Length, Length + 1}
      BY DEF Cells
    <3> QED BY <3>1, <1>2, <1>4
  <2>2. record' \in [bound : BOOLEAN, precision : BOOLEAN, scale : BOOLEAN]
    BY <1>3, <1>4 DEF TypeOK
  <2> QED BY <1>3, <1>4, <1>6, <1>7, <1>10, <2>1, <2>2, TypeStep
<1>12. SlotInv'
  <2>1. \A r \in 0..2 : column.generated /\ slots'[0].value = r + 1 => r \in written'
    <3> SUFFICES ASSUME NEW r \in 0..2, column.generated, slots'[0].value = r + 1
                 PROVE  r \in written'
      OBVIOUS
    <3>1. slot(cell).value \in {slots[0].value, Other, Value(row)}
      BY <1>3, <1>4, SlotFacts
    <3>2. slot(cell).value = Value(row) =>
            slots[0].value = Value(row) \/ cell.wrote \in {"value", "overrun"}
      BY <1>3, <1>4, SlotFacts
    <3>3. Value(row) = row + 1 /\ r + 1 # Other
      BY DEF Value, Other
    <3> HIDE DEF slot
    <3>4. slots[0].value = r + 1 => r \in written
      BY <1>3 DEF IInv, SlotInv
    <3> QED BY <1>3, <1>6, <1>7, <3>1, <3>2, <3>3, <3>4
  <2>2. \A r \in 0..2 : column.generated /\ slots'[1].value = r + 1 => r \in written'
    BY <1>3, <1>6, <1>7 DEF IInv, SlotInv
  <2>3. row' # 0
    BY <1>3
  <2> QED BY <2>1, <2>2, <2>3, <1>3, TestKept DEF SlotInv
<1> QED BY <1>3, <1>10, <1>11, <1>12, KindsKept DEF IInv

LEMMA FetchScrollInv == ASSUME IInv, FetchScroll PROVE IInv'
<1> DEFINE all(fetched) == fetched = (IF row = 0 THEN 2 ELSE 1)
           good(rc, fetched, cells, statuses) ==
                /\ \A r \in Rowset : /\ IsNull(r) \/ rc = RightCode(r, Stride)
                                     /\ cells[r] = RightBoundCell(r, r - row)
                /\ all(fetched) /\ statuses
           step(rc, fetched, cells, statuses) ==
                /\ Witness(good(rc, fetched, cells, statuses), cells, Rowset)
                /\ slots' = [i \in {0, 1} |->
                        IF row + i \in Rowset THEN Slot(slots[i], row + i, cells[row + i]) ELSE slots[i]]
                /\ lengths' = [i \in {0, 1} |->
                        IF row + i \in Rowset THEN cells[row + i].length ELSE lengths[i]]
                /\ IF rc # "success" \/ ~all(fetched) THEN Stop
                   ELSE Judge(Rowset, [r \in Rowset |-> slots'[r - row]],
                              [r \in Rowset |-> lengths'[r - row]], ~statuses)
<1>1. PICK rc \in Codes : \E fetched \in 0..2, cells \in [Rowset -> Cells], statuses \in BOOLEAN :
        step(rc, fetched, cells, statuses)
  BY DEF FetchScroll
<1>2. PICK fetched \in 0..2 : \E cells \in [Rowset -> Cells], statuses \in BOOLEAN :
        step(rc, fetched, cells, statuses)
  BY <1>1
<1>3. PICK cells \in [Rowset -> Cells] : \E statuses \in BOOLEAN :
        step(rc, fetched, cells, statuses)
  BY <1>2
<1>4. PICK statuses \in BOOLEAN : step(rc, fetched, cells, statuses)
  BY <1>3
<1>5. /\ path = "FetchScroll" /\ phase = "read" /\ row \in {0, 2} /\ row' = row + 2
      /\ UNCHANGED <<test, chunks, record>>
  BY DEF FetchScroll, IInv, PlaceInv
<1>6. /\ Rowset = {r \in 0..2 : row <= r /\ r < row'} /\ row \in Rowset
      /\ Rowset \in SUBSET (0..2)
      /\ \A r \in Rowset : r \in 0..2 /\ r - row \in {0, 1} /\ row + (r - row) = r
  <2>1. CASE row = 0
    <3>1. Rowset = {0, 1}
      BY <2>1 DEF Rowset
    <3>2. {r \in 0..2 : row <= r /\ r < row'} = {0, 1}
      BY <2>1, <1>5
    <3> QED BY <2>1, <3>1, <3>2
  <2>2. CASE row = 2
    <3>1. Rowset = {2}
      BY <2>2 DEF Rowset
    <3>2. {r \in 0..2 : row <= r /\ r < row'} = {2}
      BY <2>2, <1>5
    <3> QED BY <2>2, <3>1, <3>2
  <2> QED BY <2>1, <2>2, <1>5
<1> DEFINE isRight == good(rc, fetched, cells, statuses)
           slotOf == [r \in Rowset |-> Slot(slots[r - row], r, cells[r])]
           lengthOf == [r \in Rowset |-> cells[r].length]
<1>7. /\ TypeOK /\ slots \in [{0, 1} -> SlotType]
      /\ lengths \in [{0, 1} -> {NullData, 0, Length, Length + 1}]
  BY DEF IInv, TypeOK
<1>8. /\ right' \in BOOLEAN /\ written' \subseteq 0..2
      /\ written \subseteq written' /\ (right' => right /\ isRight)
      /\ \A r \in Rowset : cells[r].wrote \in {"value", "overrun"} => r \in written'
  <2>1. isRight \in BOOLEAN
    OBVIOUS
  <2> HIDE DEF isRight, good
  <2>2. Witness(isRight, cells, Rowset)
    BY <1>4 DEF isRight
  <2> QED BY <2>1, <2>2, <1>6, <1>7, WitnessFacts
<1>9. \A r \in Rowset : slots'[r - row] = slotOf[r] /\ lengths'[r - row] = lengthOf[r]
  BY <1>4, <1>6
<1>10. \A r \in Rowset : cells[r] \in Cells /\ slots[r - row] \in SlotType
  BY <1>6, <1>7
<1>11. \/ Stop /\ (rc # "success" \/ ~all(fetched))
       \/ Judge(Rowset, slotOf, lengthOf, ~statuses)
  <2>1. /\ [r \in Rowset |-> slots'[r - row]] = slotOf
        /\ [r \in Rowset |-> lengths'[r - row]] = lengthOf
    BY <1>9
  <2> HIDE DEF slotOf, lengthOf, good
  <2> QED BY <1>4, <2>1
<1>12. right' /\ Fits => /\ rc = "success" /\ all(fetched) /\ statuses
                        /\ \A r \in Rowset : /\ ~Stops(r, lengthOf[r])
                                             /\ Accepts(r, slotOf[r], lengthOf[r])
  <2> SUFFICES ASSUME right', Fits
               PROVE  /\ rc = "success" /\ all(fetched) /\ statuses
                      /\ \A r \in Rowset : /\ ~Stops(r, lengthOf[r])
                                           /\ Accepts(r, slotOf[r], lengthOf[r])
    OBVIOUS
  <2>1. right /\ all(fetched) /\ statuses
    BY <1>8
  <2>2. ~IsNull(row) /\ rc = RightCode(row, Stride)
    BY <1>5, <1>6, <1>8 DEF IsNull
  <2>3. as # "fixed" => ~(Length + Terminator > Stride)
    BY <1>5, <1>7, Sizes, RetrievalAssumption DEF Fits, Stride
  <2>4. rc = "success"
    BY <2>2, <2>3, Zenon DEF RightCode
  <2>5. ASSUME NEW r \in Rowset
        PROVE  ~Stops(r, lengthOf[r]) /\ Accepts(r, slotOf[r], lengthOf[r])
    <3>1. cells[r] = RightBoundCell(r, r - row) /\ r \in 0..2
      BY <1>6, <1>8
    <3>2. slotOf[r] = Slot(slots[r - row], r, cells[r]) /\ lengthOf[r] = cells[r].length
      OBVIOUS
    <3>3. path \in {"BindColumns", "FetchScroll"}
      BY <1>5
    <3> HIDE DEF slotOf, lengthOf, good, isRight
    <3>4. Accepts(r, Slot(slots[r - row], r, cells[r]), cells[r].length) /\ ~Stops(r, cells[r].length)
      BY <2>1, <3>1, <3>3, <1>5, <1>10, RightBoundIsAccepted
    <3> QED BY <3>2, <3>4
  <2> QED BY <2>1, <2>4, <2>5
<1>13. ~failed => \A r \in Rowset : slotOf[r].value = Value(r) => Passed(r)'
  <2> SUFFICES ASSUME ~failed, NEW r \in Rowset, slotOf[r].value = Value(r) PROVE Passed(r)'
    OBVIOUS
  <2>1. /\ r \in 0..2 /\ row <= r /\ r - row \in {0, 1} /\ UNCHANGED test
        /\ (row = 0 \/ r = 2 \/ r = row)
        /\ path \in {"BindColumns", "FetchScroll"}
    BY <1>5, <1>6
  <2>2. Slot(slots[r - row], r, cells[r]).value = Value(r) /\ cells[r] \in Cells
    BY <1>10
  <2>3. cells[r].wrote \in {"value", "overrun"} => r \in written'
    BY <1>8
  <2> HIDE DEF slotOf, good, isRight
  <2> QED BY <2>1, <2>2, <2>3, <1>8, BoundIsPassed
<1>14. /\ phase' \in {"read", "end", "over"} /\ failed' \in BOOLEAN /\ row' \in 0..4
       /\ PlaceInv' /\ RightInv' /\ WrittenInv'
  <2> DEFINE wrong == ~statuses
  <2>1. path # "ChunkedGetData" /\ (path # "GetData" => UNCHANGED record) /\ wrong \in BOOLEAN
        /\ UNCHANGED <<test, chunks>> /\ (right' => right)
        /\ row' = IF path = "FetchScroll" THEN row + 2 ELSE row + 1
    BY <1>5, <1>8
  <2> HIDE DEF slotOf, lengthOf, isRight, good, all
  <2>2. \/ Stop /\ ~(right' /\ Fits)
        \/ Judge(Rowset, slotOf, lengthOf, wrong)
    BY <1>11, <1>12
  <2>3. right' /\ Fits => ~wrong /\ \A r \in Rowset : /\ ~Stops(r, lengthOf[r])
                                                      /\ Accepts(r, slotOf[r], lengthOf[r])
    BY <1>12
  <2> HIDE DEF wrong
  <2> QED BY <2>1, <2>2, <2>3, <1>5, <1>6, <1>8, <1>13, JudgedInv
<1>15. slots' \in [{0, 1} -> SlotType] /\ lengths' \in [{0, 1} -> {NullData, 0, Length, Length + 1}]
  <2>1. \A i \in {0, 1} : row + i \in Rowset =>
            /\ Slot(slots[i], row + i, cells[row + i]) \in SlotType
            /\ cells[row + i].length \in {NullData, 0, Length, Length + 1}
    <3> SUFFICES ASSUME NEW i \in {0, 1}, row + i \in Rowset
                 PROVE  /\ Slot(slots[i], row + i, cells[row + i]) \in SlotType
                        /\ cells[row + i].length \in {NullData, 0, Length, Length + 1}
      OBVIOUS
    <3>1. cells[row + i] \in Cells /\ slots[i] \in SlotType /\ row + i \in 0..2
      BY <1>6, <1>7, <1>10
    <3>2. cells[row + i].length \in {NullData, 0, Length, Length + 1}
      BY <3>1 DEF Cells
    <3> QED BY <3>1, <3>2, <1>7, SlotFacts
  <2>2. slots' = [i \in {0, 1} |->
            IF row + i \in Rowset THEN Slot(slots[i], row + i, cells[row + i]) ELSE slots[i]]
    BY <1>4
  <2>3. lengths' = [i \in {0, 1} |->
            IF row + i \in Rowset THEN cells[row + i].length ELSE lengths[i]]
    BY <1>4
  <2> QED BY <2>1, <2>2, <2>3, <1>7
<1>16. TypeOK'
  <2>1. record' \in [bound : BOOLEAN, precision : BOOLEAN, scale : BOOLEAN]
    BY <1>5, <1>7 DEF TypeOK
  <2> QED BY <1>5, <1>7, <1>8, <1>14, <1>15, <2>1, TypeStep
<1>17. SlotInv'
  <2>1. \A i \in {0, 1} : slots'[i] =
            IF row + i \in Rowset THEN Slot(slots[i], row + i, cells[row + i]) ELSE slots[i]
    BY <1>4
  <2>2. ASSUME NEW i \in {0, 1}, NEW r \in 0..2, column.generated, slots'[i].value = r + 1
        PROVE  r \in written'
    <3>1. slots[i].value = r + 1 => r \in written'
      BY <1>5, <1>8, <2>2 DEF IInv, SlotInv
    <3>2. CASE row + i \in Rowset
      <4> DEFINE q == row + i
      <4>1. /\ q \in 0..2 /\ cells[q] \in Cells /\ slots[i] \in SlotType
            /\ slots'[i] = Slot(slots[i], q, cells[q])
        BY <3>2, <2>1, <1>6, <1>7, <1>10
      <4>2. Value(q) = q + 1 /\ r + 1 # Other
        BY <2>2 DEF Value, Other
      <4>3. cells[q].wrote \in {"value", "overrun"} => q \in written'
        BY <3>2, <1>8
      <4> HIDE DEF q, good, isRight
      <4> DEFINE cell == cells[q]
                 slot == slots[i]
                 after == Slot(slot, q, cell)
      <4>7. cell \in Cells /\ slot \in SlotType
        BY <4>1
      <4> HIDE DEF cell, slot
      <4>8. /\ after.value \in {slot.value, Other, Value(q)}
            /\ after.value = Value(q) =>
                    slot.value = Value(q) \/ cell.wrote \in {"value", "overrun"}
        BY <4>1, <4>7, <1>7, SlotFacts
      <4> HIDE DEF after
      <4>9. slots'[i] = after
        BY <4>1 DEF after, cell, slot
      <4>4. slots'[i].value \in {slots[i].value, Other, Value(q)}
            /\ (slots'[i].value = Value(q) =>
                    slots[i].value = Value(q) \/ cells[q].wrote \in {"value", "overrun"})
        BY <4>8, <4>9 DEF cell, slot
      <4>5. CASE r = q
        BY <4>2, <4>3, <4>4, <4>5, <3>1, <2>2
      <4>6. CASE r # q
        BY <4>1, <4>2, <4>4, <4>6, <3>1, <2>2
      <4> QED BY <4>5, <4>6
    <3>3. CASE row + i \notin Rowset
      BY <3>3, <3>1, <2>1, <2>2
    <3> QED BY <3>2, <3>3
  <2>3. row' # 0
    BY <1>5
  <2> HIDE DEF good, isRight, slotOf, lengthOf
  <2>4. \A i \in {0, 1} : column.generated =>
            \A r \in 0..2 : slots'[i].value = r + 1 => r \in written'
    BY <2>2
  <2> QED BY <2>3, <2>4, <1>5, TestKept DEF SlotInv
<1> QED BY <1>5, <1>14, <1>16, <1>17, KindsKept DEF IInv

-----------------------------------------------------------------------------
(* Retrieval in chunks.                                                     *)

\* While the value does not fit, another chunk is allowed.
LEMMA AnotherChunk ==
    ASSUME NEW size \in Nat, NEW n \in Nat, NEW limit \in Nat, NEW length \in Nat,
           length <= limit * size, (n + 1) * size < length
    PROVE  n + 1 < limit
<1> SUFFICES ASSUME limit <= n + 1 PROVE FALSE
  OBVIOUS
<1>1. limit * size <= (n + 1) * size
  <2>1. PICK k \in Nat : n + 1 = limit + k
    <3> (n + 1) - limit \in Nat /\ n + 1 = limit + ((n + 1) - limit)
      OBVIOUS
    <3> QED OBVIOUS
  <2>2. (n + 1) * size = limit * size + k * size
    BY <2>1
  <2>3. k * size \in Nat /\ limit * size \in Nat
    OBVIOUS
  <2> QED BY <2>2, <2>3
<1>2. (n + 1) * size \in Nat /\ limit * size \in Nat
  OBVIOUS
<1> QED BY <1>1, <1>2

LEMMA GetChunkInv == ASSUME IInv, GetChunk PROVE IInv'
<1> DEFINE cut(answer) == answer.rc = "info"
           count(answer) == IF cut(answer) THEN Payload ELSE answer.length
           total(answer) == result.size + count(answer)
           done(answer) == IsNull(row) \/ ~cut(answer)
           stops(answer) ==
              \/ answer.rc = "no_data"
              \/ ~IsNull(row) /\ answer.length = NullData
              \/ ~IsNull(row) /\ cut(answer) /\ answer.state = "none"
              \/ ~IsNull(row) /\ ~cut(answer) /\ answer.length \notin 0..Payload
           after(answer) == IF IsNull(row) THEN result
                     ELSE [size |-> IF total(answer) <= Length THEN total(answer) ELSE Length + 1,
                           intact |-> result.intact /\ answer.bytes >= count(answer)]
<1>1. PICK answer \in Answers :
        /\ right' = (right /\ RightAnswer(answer))
        /\ sent' = IF sent + answer.bytes < Length THEN sent + answer.bytes ELSE Length
        /\ IF stops(answer) THEN Stop /\ UNCHANGED <<result, written>>
           ELSE /\ failed' = (failed \/ ChunkIsWrong(answer)
                                \/ (~done(answer) /\ NextChunk >= MaxChunks))
                /\ result' = after(answer)
                /\ written' = IF done(answer) /\ result' = [size |-> Length, intact |-> TRUE]
                              THEN written \cup {row} ELSE written
                /\ phase' = IF done(answer) THEN "finished"
                            ELSE IF NextChunk < MaxChunks THEN "read" ELSE "over"
  BY DEF GetChunk
<1>2. /\ path = "ChunkedGetData" /\ phase = "read" /\ row \in 0..2 /\ row' = row
      /\ chunk \in Nat /\ chunk < MaxChunks /\ chunk' = chunk + 1
      /\ UNCHANGED <<test, memory, record>>
  BY RetrievalAssumption DEF GetChunk, IInv, PlaceInv, TypeOK, NextChunk
<1>3. /\ TypeOK /\ Length \in Nat /\ Payload \in Nat /\ Terminator \in Nat
      /\ sent \in Nat /\ sent <= Length
      /\ result.size \in 0..(Length + 1) /\ result.intact \in BOOLEAN
      /\ Payload = ChunkSize - Terminator /\ MaxChunks \in Nat /\ ChunkSize \in Nat
  <2>1. TypeOK
    BY DEF IInv
  <2>2. Length \in Nat /\ Payload \in Nat /\ Terminator \in Nat
    BY <2>1, Sizes
  <2>3. sent \in Nat /\ sent <= Length
    BY <2>1, <2>2 DEF TypeOK
  <2>4. result.size \in 0..(Length + 1) /\ result.intact \in BOOLEAN
    BY <2>1 DEF TypeOK
  <2> QED BY <2>1, <2>2, <2>3, <2>4, RetrievalAssumption DEF Payload
<1>4. /\ answer.rc \in Codes /\ answer.bytes \in 0..ChunkSize
      /\ answer.length \in {NullData, NoTotal} \cup 0..(Length + 1) /\ answer.length \in Int
  <2>1. /\ answer.rc \in Codes /\ answer.bytes \in 0..ChunkSize
        /\ answer.length \in {NullData, NoTotal} \cup 0..(Length + 1)
    BY DEF Answers
  <2> QED BY <2>1, <1>3 DEF NullData, NoTotal
<1>5. /\ result' \in [size : 0..(Length + 1), intact : BOOLEAN]
      /\ written' \subseteq 0..2 /\ written \subseteq written'
      /\ phase' \in {"read", "finished", "over"} /\ failed' \in BOOLEAN
  <2>1. CASE stops(answer)
    BY <2>1, <1>1, <1>3 DEF Stop, TypeOK
  <2>2. CASE ~stops(answer)
    <3>1. count(answer) \in Nat \/ IsNull(row)
      BY <2>2, <1>3, <1>4
    <3>2. after(answer).size \in 0..(Length + 1)
      BY <3>1, <1>3
    <3>3. after(answer).intact \in BOOLEAN
      BY <1>3
    <3>4. result' = [size |-> after(answer).size, intact |-> after(answer).intact]
      BY <2>2, <1>1, <1>3 DEF TypeOK
    <3> HIDE DEF after
    <3>5. result' \in [size : 0..(Length + 1), intact : BOOLEAN]
      BY <3>2, <3>3, <3>4
    <3>6. failed' \in BOOLEAN
      BY <2>2, <1>1
    <3>7. written \subseteq 0..2
      BY <1>3 DEF TypeOK
    <3> QED BY <3>5, <3>6, <3>7, <2>2, <1>1, <1>2
  <2> QED BY <2>1, <2>2
<1>6. TypeOK'
  <2>1. sent' \in 0..Length
    BY <1>1, <1>3, <1>4
  <2>2. chunk' \in 0..MaxChunks
    BY <1>2, <1>3
  <2>3. right' \in BOOLEAN
    BY <1>1, Zenon
  <2>4. /\ slots' \in [{0, 1} -> SlotType]
        /\ lengths' \in [{0, 1} -> {NullData, 0, Length, Length + 1}]
    BY <1>2, <1>3 DEF TypeOK, memory
  <2>5. record' \in [bound : BOOLEAN, precision : BOOLEAN, scale : BOOLEAN]
    BY <1>2, <1>3 DEF TypeOK
  <2>6. path' \in Paths /\ column' \in Columns /\ as' \in Types /\ Length' = Length
    BY <1>2, <1>3, TestKept DEF TypeOK
  <2>7. row' \in 0..4 /\ phase' \in {"bind", "read", "finished", "end", "over"}
    BY <1>2, <1>5
  <2> QED BY <2>1, <2>2, <2>3, <2>4, <2>5, <2>6, <2>7, <1>5 DEF TypeOK
<1>7. PlaceInv'
  <2>1. phase' = "over" => failed'
    <3>1. CASE stops(answer)
      BY <3>1, <1>1 DEF Stop
    <3>2. CASE ~stops(answer)
      <4>1. NextChunk < MaxChunks \/ NextChunk >= MaxChunks
        BY <1>2, <1>3 DEF NextChunk
      <4> HIDE DEF stops, done
      <4> QED BY <3>2, <4>1, <1>1
    <3> QED BY <3>1, <3>2
  <2>2. phase' = "read" => chunk' < MaxChunks
    BY <1>1, <1>2 DEF Stop, NextChunk
  <2> QED BY <2>1, <2>2, <1>2, <1>5, TestKept DEF PlaceInv
<1>8. RightInv'
  <2> SUFFICES ASSUME right', Fits' PROVE RightInv'
    BY DEF RightInv
  <2>1. right /\ RightAnswer(answer) /\ Fits
    BY <1>1, <1>2, TestKept
  <2>2. /\ ~failed /\ sent = chunk * Payload /\ result = [size |-> sent, intact |-> TRUE]
        /\ Length <= MaxChunks * Payload
    BY <2>1, <1>2 DEF IInv, RightInv, Fits
  <2>3. CASE IsNull(row)
    <3>1. answer.rc = "success" /\ answer.length = NullData
      BY <2>1, <2>3 DEF RightAnswer
    <3>2. ~stops(answer) /\ done(answer) /\ ~ChunkIsWrong(answer)
      BY <3>1, <2>3 DEF ChunkIsWrong
    <3>3. ~failed' /\ phase' = "finished"
      BY <3>2, <1>1, <2>2
    <3> QED BY <3>3, <2>3, <1>2, NullKept DEF RightInv
  <2>4. CASE ~IsNull(row) /\ (Length - sent) + Terminator <= ChunkSize
    <3>1. /\ answer.rc = "success" /\ answer.length = Length - sent
          /\ answer.bytes = Length - sent
      BY <2>1, <2>4 DEF RightAnswer
    <3>2. answer.length \in 0..Payload /\ ~cut(answer) /\ count(answer) = Length - sent
      BY <3>1, <2>4, <1>3
    <3>3. ~stops(answer) /\ done(answer)
      BY <3>1, <3>2, <1>3 DEF NullData
    <3>4. ~ChunkIsWrong(answer)
      BY <3>1, <3>2, <2>4, <1>3 DEF ChunkIsWrong
    <3>5. total(answer) = Length /\ result.intact /\ answer.bytes >= count(answer)
      BY <3>1, <3>2, <2>2, <1>3
    <3>8. (result.intact /\ answer.bytes >= count(answer)) = TRUE
      BY <3>5
    <3>9. (IF total(answer) <= Length THEN total(answer) ELSE Length + 1) = Length
      BY <3>5, <1>3
    <3>6. after(answer) = Whole
      <4> HIDE DEF total, count
      <4> QED BY <3>8, <3>9, <2>4 DEF Whole
    <3>7. ~failed' /\ phase' = "finished" /\ result' = Whole
      BY <3>3, <3>4, <3>6, <1>1, <2>2
    <3> QED BY <3>7, <1>2, TestKept DEF RightInv
  <2>5. CASE ~IsNull(row) /\ ~((Length - sent) + Terminator <= ChunkSize)
    <3>1. /\ answer.rc = "info" /\ answer.state = "01004"
          /\ answer.length \in {Length - sent, NoTotal}
          /\ answer.bytes = ChunkSize - Terminator
      BY <2>1, <2>5 DEF RightAnswer
    <3>2. Length - sent > Payload /\ count(answer) = Payload /\ answer.bytes = Payload
      BY <3>1, <2>5, <1>3
    <3>3. ~stops(answer) /\ ~done(answer)
      BY <3>1, <3>2, <2>5, <1>3 DEF NullData, NoTotal
    <3>4. ~ChunkIsWrong(answer)
      BY <3>1, <3>2, <2>5, <1>3 DEF ChunkIsWrong, NoTotal
    <3>5. chunk' * Payload = sent + Payload
      BY <2>2, <1>2, <1>3
    <3>6. sent' = sent + Payload /\ sent' < Length
      BY <3>2, <1>1, <1>3
    <3>7. total(answer) = sent + Payload /\ result.intact /\ answer.bytes >= count(answer)
      BY <3>2, <2>2, <1>3
    <3>8. result' = [size |-> sent', intact |-> TRUE]
      <4>1. (result.intact /\ answer.bytes >= count(answer)) = TRUE
        BY <3>7
      <4>2. (IF total(answer) <= Length THEN total(answer) ELSE Length + 1) = sent'
        BY <3>6, <3>7, <1>3
      <4>3. result' = after(answer)
        BY <3>3, <1>1
      <4> HIDE DEF total, count
      <4> QED BY <4>1, <4>2, <4>3, <2>5
    <3>9. NextChunk < MaxChunks
      <4>1. (chunk + 1) * Payload < Length
        BY <3>5, <3>6, <1>2
      <4>2. chunk + 1 < MaxChunks
        BY <4>1, <1>2, <1>3, <2>2, AnotherChunk
      <4> QED BY <4>2 DEF NextChunk
    <3>10. ~failed' /\ phase' = "read"
      <4>1. ~(NextChunk >= MaxChunks)
        BY <3>9, <1>2, <1>3 DEF NextChunk
      <4> HIDE DEF stops, done
      <4> QED BY <3>3, <3>4, <3>9, <4>1, <1>1, <2>2
    <3> QED BY <3>5, <3>6, <3>8, <3>10, <1>2, TestKept DEF RightInv
  <2> QED BY <2>3, <2>4, <2>5
<1>9. SlotInv'
  BY <1>2, TestKept DEF SlotInv
<1>10. WrittenInv'
  <2> SUFFICES ASSUME ~failed' PROVE WrittenInv'
    BY DEF WrittenInv
  <2>1. ~failed /\ ~stops(answer)
    BY <1>1 DEF Stop
  <2>2. \A r \in 0..2 : r < row' => Passed(r)'
    BY <2>1, <1>2, <1>5, PassedKept DEF IInv, WrittenInv
  <2>3. phase' = "finished" /\ result' = Whole' => row' \in written'
    BY <2>1, <1>1, <1>2, TestKept DEF Whole
  <2> QED BY <2>2, <2>3 DEF WrittenInv
<1> QED BY <1>2, <1>6, <1>7, <1>8, <1>9, <1>10, KindsKept DEF IInv

LEMMA FinishRowInv == ASSUME IInv, FinishRow PROVE IInv'
<1>1. PICK rc \in Codes :
        /\ right' = (right /\ rc = "no_data")
        /\ failed' = (failed \/ rc # "no_data"
                        \/ (~IsNull(row) /\ result # [size |-> Length, intact |-> TRUE]))
  BY DEF FinishRow
<1>2. /\ phase = "finished" /\ path = "ChunkedGetData" /\ row \in 0..2
      /\ phase' = (IF row = 2 THEN "end" ELSE "read") /\ row' = row + 1
      /\ chunk' = 0 /\ sent' = 0 /\ result' = [size |-> 0, intact |-> TRUE]
      /\ UNCHANGED <<test, memory, record, written>>
  BY DEF FinishRow, IInv, PlaceInv
<1>3. TypeOK /\ Length \in Nat /\ Payload \in Nat /\ MaxChunks \in Nat /\ MaxChunks > 0
  BY Sizes, RetrievalAssumption DEF IInv
<1>4. right' \in BOOLEAN /\ failed' \in BOOLEAN
  BY <1>1, Zenon
<1>5. TypeOK'
  <2>1. chunk' \in 0..MaxChunks /\ sent' \in 0..Length
        /\ result' \in [size : 0..(Length + 1), intact : BOOLEAN]
    BY <1>2, <1>3
  <2>2. /\ slots' \in [{0, 1} -> SlotType]
        /\ lengths' \in [{0, 1} -> {NullData, 0, Length, Length + 1}]
    BY <1>2, <1>3 DEF TypeOK, memory
  <2>3. record' \in [bound : BOOLEAN, precision : BOOLEAN, scale : BOOLEAN]
    BY <1>2, <1>3 DEF TypeOK
  <2>4. path' \in Paths /\ column' \in Columns /\ as' \in Types /\ Length' = Length
    BY <1>2, <1>3, TestKept DEF TypeOK
  <2>5. row' \in 0..4 /\ phase' \in {"bind", "read", "finished", "end", "over"}
    BY <1>2
  <2>6. written' \subseteq 0..2
    BY <1>2, <1>3 DEF TypeOK
  <2> QED BY <2>1, <2>2, <2>3, <2>4, <2>5, <2>6, <1>4 DEF TypeOK
<1>6. PlaceInv'
  BY <1>2, <1>3, TestKept DEF PlaceInv
<1>7. RightInv'
  <2> SUFFICES ASSUME right', Fits' PROVE RightInv'
    BY DEF RightInv
  <2>1. right /\ Fits /\ rc = "no_data"
    BY <1>1, <1>2, TestKept
  <2>2. ~failed /\ (~IsNull(row) => result = Whole)
    BY <2>1, <1>2 DEF IInv, RightInv
  <2>3. ~failed'
    BY <2>1, <2>2, <1>1 DEF Whole
  <2>4. sent' = chunk' * Payload
    BY <1>2, <1>3
  <2>5. ~(chunk' > 0)
    BY <1>2
  <2> QED BY <2>3, <2>4, <2>5, <1>2, TestKept DEF RightInv
<1>8. SlotInv'
  BY <1>2, TestKept DEF SlotInv
<1>9. WrittenInv'
  <2> SUFFICES ASSUME ~failed' PROVE WrittenInv'
    BY DEF WrittenInv
  <2>1. ~failed /\ (IsNull(row) \/ result = Whole)
    BY <1>1 DEF Whole
  <2>2. Passed(row)
    BY <2>1, <1>2 DEF IInv, WrittenInv, Passed
  <2>3. \A r \in 0..2 : r < row' => Passed(r)
    BY <2>1, <2>2, <1>2 DEF IInv, WrittenInv
  <2>4. \A r \in 0..2 : r < row' => Passed(r)'
    BY <2>3, <1>2, PassedKept
  <2> QED BY <2>4, <1>2 DEF WrittenInv
<1> QED BY <1>2, <1>5, <1>6, <1>7, <1>8, <1>9, KindsKept DEF IInv

-----------------------------------------------------------------------------
LEMMA EndOfDataInv == ASSUME IInv, EndOfData PROVE IInv'
<1>1. PICK rc \in Codes :
        /\ right' = (right /\ rc = "no_data")
        /\ failed' = (failed \/ rc # "no_data")
  BY DEF EndOfData
<1>2. /\ phase = "end" /\ phase' = "over" /\ row > 2 /\ row' = row /\ row \in 0..4
      /\ UNCHANGED <<test, chunks, memory, record, written>>
  BY DEF EndOfData, IInv, PlaceInv, TypeOK
<1>3. /\ TypeOK /\ right' \in BOOLEAN /\ failed' \in BOOLEAN
      /\ (~failed' => ~failed) /\ (right' => right /\ (failed' => failed))
  BY <1>1, Zenon DEF IInv
<1>4. TypeOK'
  <2>1. /\ slots' \in [{0, 1} -> SlotType]
        /\ lengths' \in [{0, 1} -> {NullData, 0, Length, Length + 1}]
    BY <1>2, <1>3 DEF TypeOK, memory
  <2>2. record' \in [bound : BOOLEAN, precision : BOOLEAN, scale : BOOLEAN]
    BY <1>2, <1>3 DEF TypeOK
  <2>3. written' \subseteq 0..2
    BY <1>2, <1>3 DEF TypeOK
  <2> QED BY <2>1, <2>2, <2>3, <1>2, <1>3, TypeStep
<1>5. PlaceInv'
  BY <1>2, TestKept DEF PlaceInv
<1>6. RightInv'
  BY <1>2, <1>3, TestKept DEF IInv, RightInv
<1>7. SlotInv'
  BY <1>2, TestKept DEF IInv, SlotInv, memory
<1>8. WrittenInv'
  BY <1>2, <1>3, PassedKept DEF IInv, WrittenInv
<1> QED BY <1>2, <1>4, <1>5, <1>6, <1>7, <1>8, KindsKept DEF IInv

LEMMA NextInv == IInv /\ [Next]_vars => IInv'
<1> SUFFICES ASSUME IInv, [Next]_vars PROVE IInv'
  OBVIOUS
<1>1. CASE UNCHANGED vars
  <2>1. /\ UNCHANGED <<test, chunks, memory, history>>
        /\ UNCHANGED <<phase, row, chunk, sent, result, slots, lengths, record, failed>>
        /\ UNCHANGED <<right, written>>
    BY <1>1 DEF vars, chunks, memory, history
  <2>2. Kinds' /\ PlaceInv'
    BY <2>1, TestKept, KindsKept DEF IInv, PlaceInv
  <2>3. RightInv'
    BY <2>1, TestKept, NullKept DEF IInv, RightInv
  <2>4. SlotInv' /\ WrittenInv'
    BY <2>1, TestKept, PassedKept DEF IInv, SlotInv, WrittenInv
  <2>5. TypeOK'
    BY <2>1, TestKept DEF IInv, TypeOK
  <2> QED BY <2>2, <2>3, <2>4, <2>5 DEF IInv
<1> QED BY <1>1, GetDataInv, BindInv, FetchInv, FetchScrollInv, GetChunkInv, FinishRowInv,
           EndOfDataInv DEF Next

LEMMA Inductive == Spec => []IInv
  BY InitInv, NextInv, PTL DEF Spec

(* What the tests hold and what drivers write into it is always of the types *)
(* of TypeOK: no count of chunks or rows runs over.                        *)
THEOREM TypeCorrect == Spec => []TypeOK
<1>1. IInv => TypeOK
  BY DEF IInv
<1> QED BY <1>1, Inductive, PTL

(* A driver that answers as ODBC says passes, for every sample, every size   *)
(* of buffers and every number of chunks that holds the value.              *)
THEOREM RightDriversAlwaysPass == Spec => []RightDriverPasses
<1>1. IInv => RightDriverPasses
  BY DEF IInv, RightInv, RightDriverPasses
<1> QED BY <1>1, Inductive, PTL

(* A test that passes was given the value of every row, those excepted that  *)
(* may be left over in a bound buffer.                                     *)
THEOREM GreenAlwaysMeansWritten == Spec => []GreenMeansWritten
<1>1. IInv => GreenMeansWritten
  BY DEF IInv, TypeOK, PlaceInv, WrittenInv, Passed, GreenMeansWritten, Green
<1> QED BY <1>1, Inductive, PTL

-----------------------------------------------------------------------------
(* The end of it.                                                          *)

\* More steps than a row can take.
RowSteps == MaxChunks + 2

\* Of the row at hand, whose chunks are counted.
StepsOfRow == IF phase = "finished" THEN 1 ELSE 1 + MaxChunks - chunk

RowsLeft == IF row = 0 THEN 2 * RowSteps ELSE IF row = 1 THEN RowSteps ELSE 0

StepsLeft ==
    IF phase = "over" THEN 0
    ELSE IF phase = "end" THEN 1
    ELSE IF phase = "bind" THEN 3 * RowSteps + 2
    ELSE 1 + RowsLeft + StepsOfRow

LEMMA StepsLeftBounded == IInv => StepsLeft \in Nat /\ StepsLeft <= 3 * RowSteps + 2
  BY RetrievalAssumption
  DEF IInv, TypeOK, PlaceInv, StepsLeft, RowsLeft, StepsOfRow, RowSteps

\* A row is left, by its last step or by an assertion that fails.
LEMMA RowIsLeft ==
    ASSUME IInv, IInv', phase \in {"read", "finished"}, phase' \in {"read", "end", "over"},
           row' > row
    PROVE  StepsLeft' < StepsLeft
<1>1. /\ row \in 0..2 /\ chunk \in Nat /\ chunk <= MaxChunks
      /\ row' \in 0..4 /\ chunk' \in Nat
      /\ phase' = "read" => row' \in 0..2
  BY RetrievalAssumption DEF IInv, TypeOK, PlaceInv
<1>2. RowSteps = MaxChunks + 2 /\ RowSteps \in Nat /\ MaxChunks \in Nat
  BY RetrievalAssumption DEF RowSteps
<1>3. StepsOfRow >= 1 /\ StepsOfRow \in Nat
  BY <1>1, <1>2 DEF StepsOfRow
<1>4. StepsLeft = 1 + RowsLeft + StepsOfRow
  BY DEF StepsLeft
<1>5. CASE phase' \in {"end", "over"}
  <2>1. RowsLeft \in Nat /\ StepsLeft' <= 1
    BY <1>2, <1>5 DEF RowsLeft, StepsLeft
  <2> QED
    BY <1>3, <1>4, <2>1, <1>5 DEF StepsLeft
<1>6. CASE phase' = "read"
  <2>1. PICK left \in Nat, read \in Nat : RowsLeft' = left /\ chunk' = read
    BY <1>1, <1>2, <1>6 DEF RowsLeft
  <2>2. StepsLeft' = 1 + left + (1 + MaxChunks - read)
    BY <1>6, <2>1 DEF StepsLeft, StepsOfRow
  <2>3. left + RowSteps <= RowsLeft /\ RowsLeft \in Nat
    BY <1>1, <1>2, <1>6, <2>1 DEF RowsLeft
  <2> QED
    BY <1>2, <1>3, <1>4, <2>2, <2>3
<1> QED
  BY <1>5, <1>6

(* Every step brings a test nearer to its end, whatever the driver answers:  *)
(* the chunks of a row are counted, and its answer "there is more" is         *)
(* believed MaxChunks times at most.  It is what TestsEnd rests on, besides   *)
(* that a test goes on.                                                    *)
THEOREM TestsComeNearer ==
    Spec => [](StepsLeft \in Nat) /\ [][StepsLeft' < StepsLeft]_vars
<1>1. IInv /\ IInv' /\ [Next]_vars => [StepsLeft' < StepsLeft]_vars
  <2> SUFFICES ASSUME IInv, IInv', Next PROVE StepsLeft' < StepsLeft
    OBVIOUS
  <2>1. row \in 0..4
    BY DEF IInv, TypeOK
  <2>2. CASE GetData
    BY <2>1, <2>2, RowIsLeft DEF GetData, Stop, Judge
  <2>3. CASE Fetch
    BY <2>1, <2>3, RowIsLeft DEF Fetch, Stop, Judge
  <2>4. CASE FetchScroll
    BY <2>1, <2>4, RowIsLeft DEF FetchScroll, Stop, Judge
  <2>5. CASE FinishRow
    BY <2>1, <2>5, RowIsLeft DEF FinishRow
  <2>6. CASE Bind
    <3>1. phase = "bind" /\ phase' = "read" /\ row' \in 0..2 /\ chunk' \in Nat
      BY <2>6, RetrievalAssumption DEF Bind, IInv, TypeOK, PlaceInv
    <3>2. RowSteps = MaxChunks + 2 /\ RowSteps \in Nat /\ MaxChunks \in Nat
      BY RetrievalAssumption DEF RowSteps
    <3>3. PICK left \in Nat, read \in Nat : RowsLeft' = left /\ chunk' = read
      BY <3>1, <3>2 DEF RowsLeft
    <3>4. StepsLeft' = 1 + left + (1 + MaxChunks - read) /\ StepsLeft = 3 * RowSteps + 2
      BY <3>1, <3>3 DEF StepsLeft, StepsOfRow
    <3>5. left <= 2 * RowSteps
      BY <3>1, <3>2, <3>3 DEF RowsLeft
    <3> QED
      BY <3>2, <3>4, <3>5
  <2>7. CASE GetChunk
    <3>1. /\ phase = "read" /\ row' = row /\ chunk' = chunk + 1
          /\ phase' \in {"read", "finished", "over"}
      BY <2>7 DEF GetChunk, Stop, NextChunk
    <3>2. row \in 0..2 /\ chunk \in Nat /\ MaxChunks \in Nat /\ chunk < MaxChunks
      BY <2>7, <3>1, RetrievalAssumption DEF GetChunk, IInv, TypeOK, PlaceInv
    <3>3. RowsLeft' = RowsLeft /\ RowsLeft \in Nat
      BY <3>1, <3>2 DEF RowsLeft, RowSteps
    <3> QED
      BY <3>1, <3>2, <3>3 DEF StepsLeft, StepsOfRow
  <2>8. CASE EndOfData
    BY <2>8 DEF EndOfData, StepsLeft
  <2> QED
    BY <2>2, <2>3, <2>4, <2>5, <2>6, <2>7, <2>8 DEF Next
<1>2. IInv => StepsLeft \in Nat
  BY StepsLeftBounded
<1> QED
  BY <1>1, <1>2, Inductive, PTL DEF Spec

-----------------------------------------------------------------------------
(* The samples of the repository.                                           *)

LEMMA SampleSizes ==
    \A c \in AllSamples : c.native <= 10000 /\ c.text <= 18000
  BY DEF AllSamples, Sample, Fixed, Numeric, Narrow, Wide, Hex, Large

LEMMA TextSizes ==
    \A c \in AllSamples : c.type \in {"char", "wchar"} => c.text <= 9000
  BY DEF AllSamples, Sample, Fixed, Numeric, Narrow, Wide, Hex, Large

ReadAsIs == as = column.type
Short == Length <= 18000

LEMMA SampleLengths ==
    ASSUME column \in AllSamples, column \in Columns
    PROVE  /\ Length \in Nat /\ Length <= 36000
           /\ ReadAsIs => Short
<1> DEFINE native == IF column.generated THEN 8 ELSE column.native
           text == IF column.generated THEN 16 ELSE column.text
           short == text <= 9000
<1>1. column.native \in Nat /\ column.text \in Nat /\ Length \in Nat
  BY ColumnFacts
<1>2. column.native <= 10000 /\ column.text <= 18000
  BY SampleSizes
<1>3. native \in Nat /\ native <= 10000
  BY <1>1, <1>2
<1>4. text \in Nat /\ text <= 18000
  BY <1>1, <1>2
<1>5. ASSUME column.type \in {"char", "wchar"} PROVE short
  <2>1. column.text <= 9000
    BY <1>5, TextSizes
  <2> QED BY <2>1, <1>1
<1>6. Length = IF as = "char" THEN text ELSE IF as = "wchar" THEN 2 * text ELSE native
  BY DEF Length
<1> HIDE DEF native, text
<1>7. Length \in {text, 2 * text, native}
  BY <1>6
<1>8. Length <= 36000
  BY <1>3, <1>4, <1>7
<1> HIDE DEF short
<1>9. ReadAsIs => Length \in {text, native} \/ (short /\ Length = 2 * text)
  BY <1>5, <1>6, Zenon DEF ReadAsIs
<1>10. Length \in {text, native} \/ (short /\ Length = 2 * text) => Short
  BY <1>3, <1>4 DEF short, Short
<1> QED BY <1>1, <1>8, <1>9, <1>10

LEMMA FitsIf ==
    ASSUME Kinds, Length + Terminator <= BufferSize, Length < BufferSize,
           ReadAsIs => Length + Terminator <= RowSize,
           ReadAsIs => Length <= MaxChunks * Payload
    PROVE  Fits
  BY DEF Fits, Kinds, ReadAsIs

LEMMA SamplesFit ==
    ASSUME Columns = AllSamples, BufferSize = 40000, RowSize = 19000, ChunkSize = 258,
           MaxChunks = 100, IInv
    PROVE  Fits
<1>1. column \in AllSamples /\ column \in Columns /\ Kinds
  BY DEF IInv, TypeOK
<1>2. Length \in Nat /\ Length <= 36000
  BY <1>1, SampleLengths
<1>3. ReadAsIs => Short
  BY <1>1, SampleLengths
<1>4. Terminator \in {0, 1, 2}
  BY DEF Terminator
<1>5. Terminator \in Nat /\ Terminator <= 2
  BY <1>4
<1>6. Length + Terminator <= BufferSize /\ Length < BufferSize
  BY <1>2, <1>5
<1>7. /\ Short => Length + Terminator <= RowSize
      /\ Short => Length <= MaxChunks * Payload
  <2>1. Payload \in Nat /\ Payload >= 256
    BY <1>5 DEF Payload
  <2>2. MaxChunks * Payload >= 25600
    BY <2>1
  <2>3. Short => Length + Terminator <= RowSize
    BY <1>2, <1>5 DEF Short
  <2>4. Short => Length <= MaxChunks * Payload
    BY <2>1, <2>2, <1>2 DEF Short
  <2> QED BY <2>3, <2>4
<1> QED BY <1>1, <1>3, <1>6, <1>7, FitsIf

(* With the table of samples and the sizes of the repository, a driver that  *)
(* answers as ODBC says passes every test: no sample is too long for the    *)
(* buffers, the elements of the arrays or the hundred chunks.               *)
THEOREM SamplesAreJudgedRightly ==
    ASSUME Columns = AllSamples, BufferSize = 40000, RowSize = 19000, ChunkSize = 258, MaxChunks = 100
    PROVE  Spec => [](right => ~failed)
<1>1. IInv => (right => ~failed)
  <2> SUFFICES ASSUME IInv, right PROVE ~failed
    OBVIOUS
  <2>1. Fits
    BY SamplesFit
  <2> QED BY <2>1 DEF IInv, RightInv
<1> QED BY <1>1, Inductive, PTL
=============================================================================
