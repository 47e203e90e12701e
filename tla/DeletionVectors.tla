--------------------------- MODULE DeletionVectors ---------------------------
(***************************************************************************)
(* deletion_vector.rs: the decoded rows of a deletion vector, the two ways *)
(* a batch is masked with them, and what the masker remembers between      *)
(* batches.  Rows are numbered from 0 within their data file.              *)
(***************************************************************************)
EXTENDS Ordering, FiniteSetsExt, SequencesExt

CONSTANT RowsPerIndex   \* bits in one listed index: 64 in the code

ASSUME RowsPerIndexAssumption == RowsPerIndex \in Nat \ {0}

\* DeletionVectorRows::from_bitmap: a bitmap from the first deleted row on, if
\* it is no larger than the list of indexes.
DeletionVectorRows(deleted) ==
    LET first == Min(deleted)
        len == Max(deleted) - first + 1
    IN  IF deleted # {} /\ len <= RowsPerIndex * Cardinality(deleted)
        THEN [kind |-> "Bitmap", first |-> first,
              bits |-> [k \in 1..len |-> first + k - 1 \in deleted]]
        ELSE [kind |-> "Indexes", list |-> Ascending(deleted)]

\* contains; a list is searched, a bitmap indexed.
IsDeleted(rows, row) ==
    IF rows.kind = "Bitmap"
    THEN row >= rows.first /\ row - rows.first < Len(rows.bits) /\ rows.bits[row - rows.first + 1]
    ELSE \E i \in DOMAIN rows.list : rows.list[i] = row

\* max, -1 for None: the last row the bitmap or the list holds.
LastDeleted(rows) ==
    IF rows.kind = "Bitmap" THEN rows.first + Len(rows.bits) - 1
    ELSE IF rows.list = <<>> THEN -1 ELSE Last(rows.list)

\* mask_ordered: the rows start..start+len-1 to keep.  The part of the batch
\* that the bitmap covers is sliced out of it and padded on both sides.
MaskOrdered(rows, start, len) ==
    LET end == start + len - 1
        lower == IF rows.kind = "Bitmap" /\ rows.first > start THEN rows.first ELSE start
        upper == LET last == rows.first + Len(rows.bits) - 1
                 IN  IF last < end THEN last ELSE end
    IN  IF rows.kind = "Indexes"
        THEN [k \in 1..len |-> \A i \in DOMAIN rows.list : rows.list[i] # start + k - 1]
        ELSE IF lower > upper THEN [k \in 1..len |-> TRUE]
        ELSE [k \in 1..(lower - start) |-> TRUE]
             \o [k \in 1..(upper - lower + 1) |-> ~rows.bits[lower - rows.first + k]]
             \o [k \in 1..(end - upper) |-> TRUE]

\* mask_original, for the sorted row numbers of a batch: one cursor walks the
\* list, starting at the first entry that is not before the batch.
MaskOriginal(rows, numbers) ==
    LET Cursor(row) == Cardinality({i \in DOMAIN rows.list : rows.list[i] < row}) + 1
    IN  [k \in DOMAIN numbers |->
           IF rows.kind = "Bitmap" THEN ~IsDeleted(rows, numbers[k])
           ELSE Cursor(numbers[k]) > Len(rows.list) \/ rows.list[Cursor(numbers[k])] # numbers[k]]

-----------------------------------------------------------------------------
(* DeletionVectorMasker; a rejected step leaves no masker behind.           *)

NewMasker(deleted) == [rows |-> DeletionVectorRows(deleted), consumed |-> 0, mode |-> "Unused"]

\* select_mode: ordered and numbered batches are never mixed.
AllowsMode(masker, mode) == masker.mode \in {"Unused", mode}

AfterOrdered(masker, len) == [masker EXCEPT !.consumed = @ + len, !.mode = "Ordered"]
AfterOriginal(masker) == [masker EXCEPT !.mode = "OriginalRowIndex"]

FinishAcceptsAll(masker) == TRUE

\* finish: an ordered read must have passed every deleted row.
FinishAccepts(masker) ==
    masker.mode = "OriginalRowIndex" \/ LastDeleted(masker.rows) < masker.consumed
=============================================================================
