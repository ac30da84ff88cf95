-------------------------- MODULE InsertExportProofs --------------------------
(***************************************************************************)
(* An export has every row of the result once and in order, in full         *)
(* statements but for the last, for every result, limit and batch size.     *)
(***************************************************************************)
EXTENDS InsertExport, TLAPS

Shape ==
    /\ total \in Totals /\ fetched \in 0..total
    /\ cursor \in {"open", "hung", "end", "broken"} /\ expired \in BOOLEAN
    /\ pc \in {"asking", "reading", "flushing", "checking", "last", "ok", "error"}
    /\ limit \in Limits /\ size \in Sizes

\* The file has the first m rows, the batch the others up to count.
Split(m) ==
    /\ file = RowsUpTo(m) /\ count - m \in Nat
    /\ batch = [i \in 1..(count - m) |-> m + i]

Running == pc \notin {"ok", "error"}

Written ==
    /\ count \in Nat /\ statements \in Nat
    /\ pc # "ok" => \E m \in Nat : m = statements * size /\ Split(m)
    /\ pc # "ok" => Len(batch) <= size
    /\ pc \in {"asking", "reading", "checking", "last"} => Len(batch) < size
    /\ pc = "flushing" => Len(batch) = size /\ batch # <<>>
    /\ pc = "ok" => /\ file = RowsUpTo(count) /\ batch = <<>>
                    /\ count <= statements * size
                    /\ statements # 0 => (statements - 1) * size < count

\* How far the export is, and how the cursor stands.
Progress ==
    /\ Running \/ pc = "ok" => count = fetched
    /\ count <= fetched
    /\ limit > 0 => count <= limit
    /\ pc = "asking" => fetched = 0
    /\ pc = "checking" => cursor \in {"end", "broken"}
    /\ pc \in {"last", "ok"} => cursor = "end"
    /\ cursor = "end" => fetched = total

ExportInv == Shape /\ Written /\ Progress

LEMMA Numbers ==
  ASSUME Shape
  PROVE  /\ total \in Nat /\ fetched \in Nat /\ fetched <= total
         /\ limit \in Int /\ size \in Nat /\ size > 0
  BY TotalsAssumption, OptionsAssumption DEF Shape

\* Writing the batch moves the border between file and batch.
LEMMA SplitJoin ==
  ASSUME NEW m \in Nat, count \in Nat, Split(m)
  PROVE  /\ file \o batch = RowsUpTo(count)
         /\ Len(file) = m /\ Len(batch) = count - m
         /\ file \in Seq(Nat) /\ batch \in Seq(Nat)
  BY DEF Split, RowsUpTo

LEMMA SplitAppend ==
  ASSUME NEW m \in Nat, count \in Nat, Split(m)
  PROVE  Append(batch, count + 1) = [i \in 1..(count + 1 - m) |-> m + i]
  BY DEF Split

LEMMA ExportInitInv == Init => ExportInv
  <1> SUFFICES ASSUME Init PROVE ExportInv
    OBVIOUS
  <1> USE DEF Init, CursorInit
  <1>1. total \in Nat /\ limit \in Int /\ size \in Nat /\ size > 0
    BY TotalsAssumption, OptionsAssumption
  <1>2. fetched \in 0..total
    BY <1>1
  <1>3. Shape
    BY <1>2 DEF Shape
  <1>4. Split(0) /\ 0 = statements * size
    BY <1>1 DEF Split, RowsUpTo
  <1>5. Written
    BY <1>1, <1>4 DEF Written
  <1>6. Progress
    BY <1>1 DEF Progress
  <1>7. QED
    BY <1>3, <1>5, <1>6 DEF ExportInv

\* A step that leaves what has been written alone.
LEMMA QuietWritten ==
  ASSUME ExportInv, UNCHANGED <<optionVars, batch, file, count, statements>>, pc # "ok", pc' # "ok",
         pc' # "flushing",
         pc' # "error" => pc \in {"asking", "reading", "checking", "last"}
  PROVE  Written'
  BY DEF ExportInv, Shape, Written, Split, optionVars

LEMMA ScanInv ==
  ASSUME ExportInv, Scan
  PROVE  ExportInv'
  <1> USE DEF ExportInv
  <1>t. /\ total \in Nat /\ fetched \in Nat /\ fetched <= total
        /\ limit \in Int /\ size \in Nat /\ size > 0
    BY Numbers
  <1>1. PICK m \in Nat : m = statements * size /\ Split(m)
    BY DEF Scan, Written
  <1>2. /\ count = fetched /\ fetched < total /\ fetched' = fetched + 1 /\ count' = count + 1
        /\ count \in Nat /\ statements \in Nat
        /\ batch' = Append(batch, count + 1) /\ UNCHANGED <<file, statements, limit, size, total, cursor, expired>>
    BY DEF Scan, Row, Written, Progress, Running, optionVars
  <1>3. Len(batch) = count - m /\ Len(batch) < size /\ batch \in Seq(Nat)
    BY <1>1, <1>2, SplitJoin DEF Scan, Written
  <1>4. Len(batch') = Len(batch) + 1 /\ batch' # <<>>
    BY <1>2, <1>3
  <1>5. batch' = [i \in 1..(count' - m) |-> m + i] /\ count' - m \in Nat
    BY <1>1, <1>2, SplitAppend DEF Split
  <1>6. Split(m)'
    BY <1>1, <1>2, <1>5 DEF Split
  <1>7. pc' = IF Len(batch') = size THEN "flushing" ELSE "reading"
    BY DEF Scan, Goto
  <1>8. Len(batch') <= size /\ (pc' = "reading" => Len(batch') < size)
    BY <1>t, <1>3, <1>4, <1>7
  <1>9. Written'
    BY <1>1, <1>2, <1>4, <1>6, <1>7, <1>8 DEF Written
  <1>10. limit > 0 => count + 1 <= limit
    BY <1>t, <1>2 DEF Scan, TooMany
  <1>11. Progress'
    BY <1>t, <1>2, <1>7, <1>10 DEF Scan, Progress, Running
  <1>12. Shape'
    BY <1>t, <1>2, <1>7 DEF Shape
  <1>13. QED
    BY <1>9, <1>11, <1>12

\* A batch that is written, at the end or before.
LEMMA WriteInv ==
  ASSUME ExportInv, WriteInsert, pc \in {"flushing", "last"}, batch # <<>>,
         UNCHANGED <<cursorVars, optionVars, count>>
  PROVE  /\ file' = RowsUpTo(count) /\ batch' = <<>>
         /\ statements' \in Nat /\ statements' # 0
         /\ count <= statements' * size /\ (statements' - 1) * size < count
         /\ Len(batch) = size => count = statements' * size
  <1> USE DEF ExportInv
  <1>t. size \in Nat /\ size > 0 /\ count \in Nat /\ statements \in Nat
    BY Numbers DEF Written
  <1>1. PICK m \in Nat : m = statements * size /\ Split(m)
    BY DEF Written
  <1>2. /\ file \o batch = RowsUpTo(count) /\ Len(batch) = count - m
        /\ batch \in Seq(Nat) /\ Len(batch) # 0 /\ Len(batch) \in Nat
    BY <1>t, <1>1, SplitJoin
  <1>3. Len(batch) <= size
    BY DEF Written
  <1>4. statements' = statements + 1 /\ statements' - 1 = statements
    BY <1>t DEF WriteInsert
  <1>5. statements' * size = m + size
    BY <1>t, <1>1, <1>4
  <1>6. QED
    BY <1>t, <1>1, <1>2, <1>3, <1>4, <1>5 DEF WriteInsert

LEMMA FlushInv ==
  ASSUME ExportInv, Flush
  PROVE  ExportInv'
  <1> USE DEF ExportInv
  <1>t. size \in Nat /\ size > 0 /\ count \in Nat
    BY Numbers DEF Written
  <1>1. /\ pc = "flushing" /\ pc' = "reading" /\ WriteInsert
        /\ UNCHANGED <<cursorVars, optionVars, count>>
    BY DEF Flush, Goto
  <1>2. Len(batch) = size /\ batch # <<>>
    BY <1>1 DEF Written
  <1>3. file' = RowsUpTo(count) /\ batch' = <<>> /\ statements' \in Nat /\ count = statements' * size
    BY <1>1, <1>2, WriteInv
  <1>n. PICK n \in Nat : n = count
    BY <1>t
  <1>4. Split(n)'
    <2>1. count' = n /\ n - n = 0 /\ file' = RowsUpTo(n)
      BY <1>n, <1>1, <1>3
    <2>2. batch' = [i \in 1..0 |-> n + i]
      BY <1>3
    <2>3. QED
      BY <2>1, <2>2 DEF Split
  <1>5. Written'
    <2>1. Len(batch') = 0
      BY <1>3
    <2>2. UNCHANGED <<count, size>>
      BY <1>1 DEF optionVars
    <2>3. n = statements' * size'
      BY <1>n, <1>3, <2>2
    <2>4. \E m \in Nat : m = statements' * size' /\ Split(m)'
      BY <1>4, <2>3
    <2>s. statements' \in Nat
      BY <1>3
    <2>5. count' \in Nat /\ statements' \in Nat /\ Len(batch') <= size' /\ Len(batch') < size'
      BY <1>t, <2>s, <2>1, <2>2
    <2>6. pc' = "reading"
      BY <1>1
    <2>7. QED
      BY <2>4, <2>5, <2>6 DEF Written
  <1>6. Progress'
    BY <1>1 DEF Progress, Running, cursorVars, optionVars
  <1>7. Shape'
    BY <1>1 DEF Shape, cursorVars, optionVars
  <1>8. QED
    BY <1>5, <1>6, <1>7

LEMMA LastInv ==
  ASSUME ExportInv, Last
  PROVE  ExportInv'
  <1> USE DEF ExportInv
  <1>t. size \in Nat /\ size > 0 /\ count \in Nat /\ statements \in Nat
    BY Numbers DEF Written
  <1>1. pc = "last" /\ pc' = "ok" /\ UNCHANGED <<cursorVars, optionVars, count>>
    BY DEF Last, Goto
  <1>2. Progress'
    BY <1>1 DEF Progress, Running, cursorVars, optionVars
  <1>3. Shape'
    BY <1>1 DEF Shape, cursorVars, optionVars
  <1>4. CASE batch = <<>>
    <2>1. PICK m \in Nat : m = statements * size /\ Split(m)
      BY <1>1 DEF Written
    <2>2. file = RowsUpTo(count) /\ count = m
      <3>1. Len(batch) = 0 /\ Len(batch) = count - m
        BY <1>4, <1>t, <2>1, SplitJoin
      <3>2. count = m
        BY <3>1, <1>t
      <3>3. QED
        BY <3>2, <2>1 DEF Split
    <2>3. (statements - 1) * size = statements * size - size
      BY <1>t
    <2>4. count <= statements * size /\ (statements - 1) * size < count
      BY <1>t, <2>1, <2>2, <2>3
    <2>5. UNCHANGED <<file, batch, statements, count, size>>
      BY <1>1, <1>4 DEF Last, optionVars
    <2>6. Written'
      BY <1>t, <1>1, <1>4, <2>2, <2>4, <2>5 DEF Written
    <2>7. QED
      BY <1>2, <1>3, <2>6
  <1>5. CASE batch # <<>>
    <2>1. WriteInsert
      BY <1>5 DEF Last
    <2>2. /\ file' = RowsUpTo(count) /\ batch' = <<>> /\ statements' \in Nat
          /\ count <= statements' * size /\ (statements' - 1) * size < count
      BY <1>1, <1>5, <2>1, WriteInv
    <2>3. UNCHANGED <<count, size>>
      BY <1>1 DEF optionVars
    <2>4. Written'
      BY <1>t, <1>1, <2>2, <2>3 DEF Written
    <2>5. QED
      BY <1>2, <1>3, <2>4
  <1>6. QED
    BY <1>4, <1>5

LEMMA ExportStepInv == ExportInv /\ [Next]_vars => ExportInv'
  <1> SUFFICES ASSUME ExportInv, [Next]_vars PROVE ExportInv'
    OBVIOUS
  <1>t. /\ total \in Nat /\ fetched \in Nat /\ fetched <= total
        /\ limit \in Int /\ size \in Nat /\ size > 0 /\ count \in Nat
    BY Numbers DEF ExportInv, Written
  <1>1. CASE Ask \/ AskFails
    <2>1. Written'
      BY <1>1, QuietWritten DEF Ask, AskFails, Goto
    <2>2. Shape' /\ Progress'
      BY <1>1 DEF ExportInv, Shape, Progress, Running, Ask, AskFails, Goto, cursorVars, optionVars
    <2>3. QED
      BY <2>1, <2>2 DEF ExportInv
  <1>2. CASE Refuse \/ ScanFails
    <2>1. /\ pc = "reading" /\ pc' = "error" /\ fetched' = fetched + 1 /\ fetched < total
          /\ UNCHANGED <<optionVars, batch, file, count, statements, total, cursor, expired>>
      BY <1>2 DEF Refuse, ScanFails, Row, Goto
    <2>2. Written'
      BY <2>1, QuietWritten
    <2>3. Shape' /\ Progress'
      BY <1>t, <2>1, <1>2 DEF ExportInv, Shape, Progress, Running, optionVars, Refuse, ScanFails, Row
    <2>4. QED
      BY <2>2, <2>3 DEF ExportInv
  <1>3. CASE Stop
    <2>1. /\ pc = "reading" /\ pc' = "checking"
          /\ UNCHANGED <<optionVars, batch, file, count, statements, total, fetched, expired>>
          /\ \/ cursor' = "end" /\ fetched = total
             \/ cursor' = "broken"
      BY <1>3 DEF Stop, NoMoreRows, Breaks, Goto
    <2>2. Written'
      BY <2>1, QuietWritten
    <2>3. Shape'
      BY <2>1 DEF ExportInv, Shape, optionVars
    <2>4. Progress'
      BY <2>1 DEF ExportInv, Progress, Running, optionVars
    <2>5. QED
      BY <2>2, <2>3, <2>4 DEF ExportInv
  <1>4. CASE Check
    <2>1. /\ pc = "checking" /\ UNCHANGED <<optionVars, batch, file, count, statements, cursorVars>>
          /\ \/ pc' = "last" /\ cursor # "broken"
             \/ pc' = "error"
      BY <1>4 DEF Check, Goto
    <2>2. Written'
      BY <2>1, QuietWritten
    <2>3. Shape' /\ Progress'
      BY <2>1 DEF ExportInv, Shape, Progress, Running, optionVars, cursorVars
    <2>4. QED
      BY <2>2, <2>3 DEF ExportInv
  <1>5. CASE FlushFails
    <2>1. /\ pc \in {"flushing", "last"} /\ pc' = "error"
          /\ UNCHANGED <<optionVars, batch, file, count, statements, cursorVars>>
      BY <1>5 DEF FlushFails, Goto
    <2>2. Written'
      BY <2>1 DEF ExportInv, Written, Split, optionVars
    <2>3. Shape' /\ Progress'
      BY <2>1 DEF ExportInv, Shape, Progress, Running, optionVars, cursorVars
    <2>4. QED
      BY <2>2, <2>3 DEF ExportInv
  <1>6. CASE Expire \/ StopAnswering \/ UNCHANGED vars
    <2>1. /\ UNCHANGED <<exportVars, total, fetched>>
          /\ \/ cursor' = cursor
             \/ cursor = "open" /\ cursor' = "hung" /\ ~Returned
      <3>1. CASE Expire
        BY <3>1 DEF Expire, Expires
      <3>2. CASE StopAnswering
        BY <3>2 DEF StopAnswering, Hang
      <3>3. CASE UNCHANGED vars
        BY <3>3 DEF vars, cursorVars
      <3>4. QED
        BY <1>6, <3>1, <3>2, <3>3
    <2>2. expired' \in BOOLEAN
      BY <1>6 DEF ExportInv, Shape, Expire, Expires, StopAnswering, Hang, vars, cursorVars
    <2>3. Written'
      BY <2>1 DEF ExportInv, Written, Split, exportVars, optionVars
    <2>4. Shape'
      BY <2>1, <2>2 DEF ExportInv, Shape, exportVars, optionVars
    <2>5. Progress'
      BY <2>1 DEF ExportInv, Progress, Running, Returned, exportVars, optionVars
    <2>6. QED
      BY <2>3, <2>4, <2>5 DEF ExportInv
  <1>7. QED
    BY <1>1, <1>2, <1>3, <1>4, <1>5, <1>6, ScanInv, FlushInv, LastInv DEF Next, Proceed

LEMMA ExportInvAlways == Spec => []ExportInv
  BY ExportInitInv, ExportStepInv, PTL DEF Spec

\* Nothing is lost or written twice, whole statements but for the last, and
\* the counts in the manifest are those of the file.
THEOREM StatementsAlwaysAddUp == Spec => []StatementsAddUp
  <1>1. ExportInv => StatementsAddUp
    <2> SUFFICES ASSUME ExportInv PROVE StatementsAddUp
      OBVIOUS
    <2>t. size \in Nat /\ count \in Nat /\ statements \in Nat
      BY Numbers DEF ExportInv, Written
    <2>1. CASE pc # "ok"
      <3>1. PICK m \in Nat : m = statements * size /\ Split(m)
        BY <2>1 DEF ExportInv, Written
      <3>2. QED
        BY <2>t, <2>1, <3>1, SplitJoin DEF StatementsAddUp
    <2>2. CASE pc = "ok"
      <3>1. file = RowsUpTo(count) /\ batch = <<>>
        BY <2>2 DEF ExportInv, Written
      <3>2. file \o batch = RowsUpTo(count) /\ Len(file) = count
        BY <2>t, <3>1 DEF RowsUpTo
      <3>3. QED
        BY <2>2, <3>2 DEF StatementsAddUp, ExportInv, Written
    <2>3. QED
      BY <2>1, <2>2
  <1>2. QED
    BY <1>1, ExportInvAlways, PTL

\* A statement has a row at least.
LEMMA StatementsHaveRows ==
  ASSUME NEW n \in Nat, NEW s \in Nat, s > 0
  PROVE  n <= n * s /\ (n # 0 => n - 1 <= (n - 1) * s)
<1>1. n * s = n + n * (s - 1) /\ n * (s - 1) >= 0
  OBVIOUS
<1>2. n # 0 => n - 1 \in Nat /\ (n - 1) * s = (n - 1) + (n - 1) * (s - 1) /\ (n - 1) * (s - 1) >= 0
  OBVIOUS
<1>. QED
  BY <1>1, <1>2

\* What the file and the batch hold is numbered like the rows, and there are no
\* more statements than rows: what the counts say is within the result.
THEOREM ExportTypes == Spec => []TypeOK
<1>1. ExportInv => TypeOK
  <2>. SUFFICES ASSUME ExportInv PROVE TypeOK
    OBVIOUS
  <2>. USE DEF ExportInv
  <2>1. /\ count \in Nat /\ count <= total /\ total \in Nat
        /\ size \in Nat /\ size > 0 /\ statements \in Nat
    BY Numbers DEF Progress, Written, Shape
  <2>2. /\ statements <= statements * size
        /\ statements # 0 => statements - 1 <= (statements - 1) * size
    BY <2>1, StatementsHaveRows
  <2>3. CASE pc = "ok"
    <3>1. file \in Seq(1..total) /\ batch \in Seq(1..total) /\ Len(batch) <= size
      BY <2>1, <2>3 DEF Written, RowsUpTo
    <3>2. statements <= count
      <4>1. statements # 0 => (statements - 1) * size < count /\ (statements - 1) * size \in Int
        BY <2>1, <2>3 DEF Written
      <4>. QED
        BY <2>1, <2>2, <4>1
    <3>. QED
      BY <2>1, <3>1, <3>2 DEF TypeOK, Shape
  <2>4. CASE pc # "ok"
    <3>1. PICK m \in Nat : m = statements * size /\ Split(m)
      BY <2>4 DEF Written
    <3>2. m <= count
      BY <2>1, <3>1 DEF Split
    <3>3. file \in Seq(1..total) /\ batch \in Seq(1..total)
      BY <2>1, <3>1, <3>2 DEF Split, RowsUpTo
    <3>4. Len(batch) <= size
      BY <2>4 DEF Written
    <3>5. statements <= count
      BY <2>1, <2>2, <3>1, <3>2
    <3>. QED
      BY <2>1, <3>3, <3>4, <3>5 DEF TypeOK, Shape
  <2>. QED
    BY <2>3, <2>4
<1>. QED
  BY <1>1, ExportInvAlways, PTL

LEMMA ExportInitAnswer == Init => Answer!Init
  BY TotalsAssumption, OptionsAssumption DEF Init, CursorInit, Returned, Answer!Init

LEMMA ExportStepAnswer ==
  ExportInv /\ ExportInv' /\ [Next]_vars =>
      [Answer!Next]_<<total, IF limit > 0 THEN limit ELSE -1, IF Returned THEN pc ELSE "none",
                      IF pc = "ok" THEN file ELSE <<>>, FALSE>>
  <1> SUFFICES ASSUME ExportInv, ExportInv', [Next]_vars
      PROVE  [Answer!Next]_<<total, IF limit > 0 THEN limit ELSE -1, IF Returned THEN pc ELSE "none",
                      IF pc = "ok" THEN file ELSE <<>>, FALSE>>
    OBVIOUS
  <1> USE DEF Goto, optionVars, cursorVars
  <1>1. CASE Last
    <2>1. pc = "last" /\ pc' = "ok" /\ UNCHANGED <<total, limit, count>>
      BY <1>1 DEF Last
    <2>2. file' = RowsUpTo(total) /\ total \in Nat /\ limit \in Int /\ (limit > 0 => total <= limit)
      BY <2>1, Numbers DEF ExportInv, Written, Progress, Running
    <2>3. Answer!Whole
      BY <2>1, <2>2 DEF Answer!Whole, Answer!Fits, Answer!Rows, RowsUpTo, Returned
    <2>4. QED
      BY <2>3 DEF Answer!Next
  <1>2. CASE pc' = "error" /\ ~Returned
    <2>1. UNCHANGED <<total, limit>>
      BY <1>2 DEF Next, Proceed, Ask, AskFails, Refuse, Scan, ScanFails, Flush, FlushFails, Stop,
                  Check, Last, Row, NoMoreRows, Breaks, Expire, StopAnswering, Expires, Hang,
                  exportVars, vars
    <2>2. Answer!Fail
      BY <1>2, <2>1 DEF Answer!Fail, Returned
    <2>3. QED
      BY <2>2 DEF Answer!Next
  <1>3. CASE pc' # "error" /\ ~Last /\ Proceed
    BY <1>3 DEF Proceed, Ask, AskFails, Refuse, Scan, ScanFails, Flush, FlushFails, Stop, Check,
                Row, NoMoreRows, Breaks, Returned
  <1>4. CASE Expire \/ StopAnswering \/ UNCHANGED vars
    BY <1>4 DEF Expire, StopAnswering, Expires, Hang, Returned, exportVars, vars
  <1>5. Proceed => ~Returned
    BY DEF Proceed, Ask, AskFails, Refuse, Scan, ScanFails, Flush, FlushFails, Stop, Check, Last, Returned
  <1>6. QED
    BY <1>1, <1>2, <1>3, <1>4, <1>5 DEF Next

\* An export that is no error has every row; one past its limit is an error.
THEOREM ExportKeepsAnswer == Spec => ExportIsWhole
  BY ExportInitAnswer, ExportStepAnswer, ExportInvAlways, PTL DEF Spec, ExportIsWhole, Answer!Spec
=============================================================================
