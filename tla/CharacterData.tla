--------------------------- MODULE CharacterData ---------------------------
(***************************************************************************)
(* The bytes of a character of Return to Arms, from one client to the      *)
(* table RealmCharacters and back.  The client compresses the character    *)
(* and sends it in pieces; CharacterSaveTask collects them, checks what    *)
(* they unpack to and cuts off what follows; the blob is later sent back   *)
(* in chunks of one length.  Who saves what for whom is in CharacterSaves: *)
(* here one client saves its one character.                                *)
(***************************************************************************)
EXTENDS Naturals, Sequences, SequencesExt, FiniteSetsExt

CONSTANTS
    MaxByte,       \* 255: the greatest byte, so the longest run after a zero
    CharacterSize, \* CHARACTER_DATA_SIZE, 19504
    HeaderSize,    \* 4: the bytes before the compressed ones
    ChunkSize,     \* 1024
    MaxKeys,       \* 4: the keys the metadata of a character may have
    Characters,    \* what clients save: sequences of CharacterSize bytes
    Garbage,       \* what clients send after the compressed bytes
    Junk,          \* uploads that are no character
    Metas,         \* metadata clients send: sequences of <<key, value>>, every
                   \* string a number
    MaxUploads     \* bound: how many uploads the client begins

Byte == 0..MaxByte

ASSUME SizesAssumption ==
    /\ {MaxByte, CharacterSize, HeaderSize, ChunkSize} \subseteq Nat \ {0}
    /\ MaxKeys \in Nat /\ MaxUploads \in Nat
ASSUME InputsAssumption ==
    /\ \A c \in Characters : c \in Seq(Byte) /\ Len(c) = CharacterSize
    /\ Garbage \subseteq Seq(Byte) /\ Junk \subseteq Seq(Byte)
    /\ \A meta \in Metas : meta \in Seq(Nat \X Nat)

VARIABLES
    task,    \* the save task of the session
    left,    \* the bytes of its upload that the client has yet to send
    row,     \* the row of the character in RealmCharacters
    reply,   \* the chunks and the metadata the client was last sent
    uploads  \* how many uploads were begun

vars == <<task, left, row, reply, uploads>>

----------------------------------------------------------------------------
(* The compressed format: a zero is followed by the number of further      *)
(* zeros it stands for, any other byte stands for itself.                  *)

(* Client side, external: RLEZ::Compress, which the server never calls.    *)
(* The count of the last run is its last byte.                             *)
CompressByte(out, b) ==
    IF b # 0 THEN [bytes |-> Append(out.bytes, b), run |-> FALSE]
    ELSE IF out.run /\ Last(out.bytes) < MaxByte
    THEN [out EXCEPT !.bytes[Len(out.bytes)] = @ + 1]
    ELSE [bytes |-> out.bytes \o <<0, 0>>, run |-> TRUE]

(* What is written once n bytes of the input were read. *)
CompressSteps(input) ==
    LET out[n \in 0..Len(input)] ==
            IF n = 0 THEN [bytes |-> <<>>, run |-> FALSE]
            ELSE CompressByte(out[n - 1], input[n])
    IN  out

Compress(input) == CompressSteps(input)[Len(input)].bytes

AfterHeader(data) == SubSeq(data, HeaderSize + 1, Len(data))

UnpackByte(out, b) ==
    IF out.counting
    THEN [bytes |-> out.bytes \o [i \in 1..b |-> 0], counting |-> FALSE]
    ELSE [bytes |-> Append(out.bytes, b), counting |-> b = 0]

UnpackSteps(input) ==
    LET out[n \in 0..Len(input)] ==
            IF n = 0 THEN [bytes |-> <<>>, counting |-> FALSE]
            ELSE UnpackByte(out[n - 1], input[n])
    IN  out

Unpacking(data) == UnpackSteps(AfterHeader(data))[Len(AfterHeader(data))]

(* RealmCharacter::Unpack: a zero whose count is missing still counts. *)
Unpack(data) == Unpacking(data).bytes

(* CharacterSaveTask::Validate goes on by one byte: size is what the bytes *)
(* so far decompress to, used where the last whole one ends, and nothing   *)
(* more is looked at once that is a character.                             *)
(* Mutant: the size is asked about before the count of a zero is read.     *)
ValidateByte_early(scan, b) ==
    LET read == scan.read + 1
        size == scan.size + (IF scan.counting THEN b ELSE 1)
    IN  IF scan.enough THEN scan
        ELSE [read |-> read, size |-> size,
              counting |-> ~scan.counting /\ b = 0,
              enough |-> size >= CharacterSize]

(* Mutant: more bytes are asked for than a character has.                  *)
ValidateByte_more(scan, b) ==
    LET counting == ~scan.counting /\ b = 0
        size == scan.size + (IF scan.counting THEN b ELSE 1)
    IN  IF scan.enough THEN scan
        ELSE [read |-> scan.read + 1, size |-> size, counting |-> counting,
              enough |-> ~counting /\ size > CharacterSize]

ValidateByte(scan, b) ==
    LET counting == ~scan.counting /\ b = 0
        size == scan.size + (IF scan.counting THEN b ELSE 1)
    IN  IF scan.enough THEN scan
        ELSE [read |-> scan.read + 1, size |-> size, counting |-> counting,
              enough |-> ~counting /\ size >= CharacterSize]

ScanSteps(input) ==
    LET scan[n \in 0..Len(input)] ==
            IF n = 0
            THEN [read |-> HeaderSize, size |-> 0, counting |-> FALSE, enough |-> FALSE]
            ELSE ValidateByte(scan[n - 1], input[n])
    IN  scan

Scan(data) == ScanSteps(AfterHeader(data))[Len(AfterHeader(data))]

Validates(t) == t.data # <<>> /\ t.meta # <<>> /\ Scan(t.data).enough

(* Mutant: the garbage stays. *)
Trimmed_not(data) == data

Trimmed(data) == SubSeq(data, 1, Scan(data).read)

----------------------------------------------------------------------------
(* The metadata: the keys of a character and then their values, each list  *)
(* after its length.                                                       *)

Serialize(meta) ==
    <<Len(meta)>> \o [i \in DOMAIN meta |-> meta[i][1]]
        \o <<Len(meta)>> \o [i \in DOMAIN meta |-> meta[i][2]]

(* CharacterSlotData::Deserialize: more keys than there may be are none at *)
(* all, and the number of values is read over.                             *)
(* Mutant: the number of values is read as the first value.                *)
Deserialize_shifted(slot) ==
    IF slot[1] > MaxKeys THEN <<>>
    ELSE [i \in 1..slot[1] |-> <<slot[i + 1], slot[i + slot[1] + 1]>>]

Deserialize(slot) ==
    IF slot[1] > MaxKeys THEN <<>>
    ELSE [i \in 1..slot[1] |-> <<slot[i + 1], slot[i + slot[1] + 2]>>]

----------------------------------------------------------------------------
(* SendCharacterData: one chunk after the other, the last one filled up    *)
(* with zeros and marked.  No data is no chunk.                            *)

ChunkCount(data) == (Len(data) + ChunkSize - 1) \div ChunkSize

PaddedTo(data, length) == data \o [i \in 1..(length - Len(data)) |-> 0]

(* Mutant: a chunk that takes exactly what is left is not the last. *)
Chunks_exactly(data) ==
    [n \in 1..ChunkCount(data) |->
        [data |-> PaddedTo(SubSeq(data, (n - 1) * ChunkSize + 1,
                                  Min({n * ChunkSize, Len(data)})), ChunkSize),
         end |-> n * ChunkSize > Len(data)]]

Chunks(data) ==
    [n \in 1..ChunkCount(data) |->
        [data |-> PaddedTo(SubSeq(data, (n - 1) * ChunkSize + 1,
                                  Min({n * ChunkSize, Len(data)})), ChunkSize),
         end |-> n * ChunkSize >= Len(data)]]

----------------------------------------------------------------------------
(* What is being saved, for the properties: the character, its header and  *)
(* the metadata the client sent; an upload that is no character has none.  *)
Saving == [meta : Metas, character : Characters, header : Seq(Byte)]
NoSaving == [character |-> <<>>]

NoTask == [type |-> "none"]
Task == [meta : Metas \cup {<<>>}, data : Seq(Byte), saving : Saving \cup {NoSaving}]
NoRow == [type |-> "none"]
Row == [data : Seq(Byte), slot : Seq(Nat), saving : Saving \cup {NoSaving}]
Chunk == [data : Seq(Byte), end : BOOLEAN]
Reply == [type : {"data"}, saving : Saving \cup {NoSaving}, chunks : Seq(Chunk)]
         \cup [meta : Metas, type : {"list"}, saving : Saving \cup {NoSaving}]
NoReply == [type |-> "none"]

TypeOK ==
    /\ task \in Task \cup {NoTask}
    /\ left \in Seq(Byte)
    /\ row \in Row \cup {NoRow}
    /\ reply \in Reply \cup {NoReply}
    /\ uploads \in 0..MaxUploads

Init ==
    /\ task = NoTask
    /\ left = <<>>
    /\ row = NoRow
    /\ reply = NoReply
    /\ uploads = 0

(* RequestCreateNewCharacter_RTA while there is no character, and          *)
(* RequestSaveCharacter_RTA afterwards: the task of an earlier upload is   *)
(* dropped, and the first piece, which may be empty, is not the last.      *)
(* (After metadata that is refused the rest of the packet is read from the *)
(* wrong place; a task without metadata never validates, whatever bytes it *)
(* has.)                                                                   *)
Begin(upload, meta, saving) ==
    /\ uploads < MaxUploads
    /\ uploads' = uploads + 1
    /\ \E n \in 0..Len(upload) :
        /\ task' = [data |-> SubSeq(upload, 1, n), meta |-> Deserialize(Serialize(meta)),
                    saving |-> saving]
        /\ left' = SubSeq(upload, n + 1, Len(upload))
    /\ UNCHANGED <<row, reply>>

BeginCharacter ==
    \E character \in Characters, header \in [1..HeaderSize -> Byte],
       garbage \in Garbage, meta \in Metas :
        Begin(header \o Compress(character) \o garbage, meta,
              [character |-> character, header |-> header, meta |-> meta])

BeginJunk == \E junk \in Junk, meta \in Metas : Begin(junk, meta, NoSaving)

(* CommitSaveTask and its statement, which may fail: the task has left     *)
(* m_tasks before, and is validated once more after it was trimmed.        *)
Commit(t) ==
    /\ task' = NoTask
    /\ \/ /\ Validates(t)
          /\ row' = [data |-> Trimmed(t.data), slot |-> Serialize(t.meta),
                     saving |-> t.saving]
       \/ UNCHANGED row

(* RequestAppendCharacterData and AppendSaveData.  An empty piece does     *)
(* nothing, even as the last one, and neither does a piece without a task; *)
(* a task that does not validate stays with its bytes.  Which piece it     *)
(* calls the last is up to the client.                                     *)
AppendPiece(n, endOfData) ==
    /\ n \in 1..Len(left)
    /\ left' = SubSeq(left, n + 1, Len(left))
    /\ \/ /\ task = NoTask
          /\ UNCHANGED <<task, row>>
       \/ /\ task # NoTask
          /\ LET t == [task EXCEPT !.data = @ \o SubSeq(left, 1, n)]
             IN  IF endOfData /\ Validates(t)
                 THEN Commit([t EXCEPT !.data = Trimmed(@)])
                 ELSE task' = t /\ UNCHANGED row
    /\ UNCHANGED <<reply, uploads>>

(* RequestGetNetCharacterList_RTA: LoadCharacterSlots. *)
GetCharacterList ==
    /\ row # NoRow
    /\ reply' = [type |-> "list", meta |-> Deserialize(row.slot), saving |-> row.saving]
    /\ UNCHANGED <<task, left, row, uploads>>

(* RequestGetNetCharacterData_RTA: LoadCharacterData, and all its chunks.  *)
GetCharacterData ==
    /\ row # NoRow
    /\ reply' = [type |-> "data", chunks |-> Chunks(row.data), saving |-> row.saving]
    /\ UNCHANGED <<task, left, row, uploads>>

Next ==
    \/ BeginCharacter
    \/ BeginJunk
    \/ \E n \in 1..Len(left), endOfData \in BOOLEAN : AppendPiece(n, endOfData)
    \/ GetCharacterList
    \/ GetCharacterData

Spec == Init /\ [][Next]_vars

----------------------------------------------------------------------------
(* However the client cuts its upload, at every piece Validate finds a     *)
(* character exactly when some beginning of the bytes ends at the end of a *)
(* run and unpacks to one, and the shortest such beginning is what it      *)
(* keeps: the check that counts bytes and the Unpack that produces them    *)
(* agree, at a zero whose count is still to come as well.                  *)
ValidateAgreesWithUnpack ==
    task # NoTask =>
        LET Unpacked(n) == Unpacking(SubSeq(task.data, 1, n))
            Enough == {n \in HeaderSize..Len(task.data) :
                         /\ ~Unpacked(n).counting
                         /\ Len(Unpacked(n).bytes) >= CharacterSize}
        IN  /\ Scan(task.data).enough <=> Enough # {}
            /\ Enough # {} => Scan(task.data).read = Min(Enough)

(* Of an upload Validate finds a character as soon as its last compressed  *)
(* byte has come and no sooner, whatever of the garbage came with it: no   *)
(* upload is given up that is whole, and none is stored that is not, at    *)
(* whatever byte the pieces are cut.                                       *)
AcceptedWhenWhole ==
    task # NoTask /\ task.saving # NoSaving =>
        (Scan(task.data).enough
            <=> Len(task.data) >= HeaderSize + Len(Compress(task.saving.character)))

(* Whatever pieces an upload came in, whichever of them was called the     *)
(* last, and whatever followed the character: the row holds the header and *)
(* the compressed character and no byte more, and trimming the row again   *)
(* would keep it as it is.                                                 *)
StoredIsSaved ==
    row # NoRow =>
        /\ Scan(row.data).enough /\ Trimmed(row.data) = row.data
        /\ row.saving # NoSaving =>
            row.data = row.saving.header \o Compress(row.saving.character)

(* A client that gathers the chunks up to the one marked as the last, and  *)
(* unpacks them, has the character that was saved: every chunk has the     *)
(* same length, only the last one is marked, and the zeros it is filled up *)
(* with come after the character.                                          *)
Gathered(chunks) ==
    [i \in 1..(Len(chunks) * ChunkSize) |->
        chunks[((i - 1) \div ChunkSize) + 1].data[((i - 1) % ChunkSize) + 1]]

DownloadIsSaved ==
    reply.type = "data" =>
        /\ reply.chunks # <<>>
        /\ \A n \in DOMAIN reply.chunks :
            /\ Len(reply.chunks[n].data) = ChunkSize
            /\ reply.chunks[n].end <=> n = Len(reply.chunks)
        /\ reply.saving # NoSaving =>
            SubSeq(Unpack(Gathered(reply.chunks)), 1, CharacterSize)
                = reply.saving.character

(* The list of characters shows the metadata that was saved with the       *)
(* character: no metadata that the client may send is changed or lost      *)
(* between the packet, the blob of the row and the reply.                  *)
ListedIsSaved ==
    reply.type = "list" /\ reply.saving # NoSaving => reply.meta = reply.saving.meta

(* What a client is sent of its character is what was saved last.          *)
RepliesAreSaved == DownloadIsSaved /\ ListedIsSaved

----------------------------------------------------------------------------
(* The inductive invariant.  A task has a beginning of what its client     *)
(* sends, and the client has the rest; its metadata is what the server     *)
(* read of it.                                                             *)
TaskIsOfUpload ==
    task # NoTask =>
        /\ Len(task.meta) <= MaxKeys
        /\ task.saving # NoSaving =>
            /\ Len(task.saving.header) = HeaderSize
            /\ task.meta = Deserialize(Serialize(task.saving.meta))
            /\ \E garbage \in Garbage :
                task.data \o left = task.saving.header \o Compress(task.saving.character)
                                       \o garbage

(* The slot of a row has metadata a client sent and the server could read, *)
(* and the metadata sent with the character.                               *)
RowHasMetadata ==
    row # NoRow =>
        /\ \E meta \in Metas : /\ row.slot = Serialize(meta) /\ Len(meta) <= MaxKeys
                               /\ row.saving # NoSaving => meta = row.saving.meta
        /\ row.saving # NoSaving => Len(row.saving.header) = HeaderSize

IInv ==
    /\ TypeOK
    /\ TaskIsOfUpload
    /\ RowHasMetadata
    /\ StoredIsSaved
    /\ RepliesAreSaved
=============================================================================
