---------------------------- MODULE BackendsProofs ----------------------------
(***************************************************************************)
(* Of every backend: an answer is whole, or cut exactly at the limit and   *)
(* said to be; a listing misses a key that stays only at its limit, and    *)
(* the count of a schema tells of the tables it misses; documents become   *)
(* the rows and the columns they are.  Of every result, limit, keyspace,   *)
(* schema and sample.                                                      *)
(***************************************************************************)
EXTENDS Backends, FiniteSetTheorems, TLAPS

-----------------------------------------------------------------------------
(* A query (QueryScan). *)

\* The first n rows.
Upto(n) == [i \in 1..n |-> i]

Shape ==
    /\ total \in Totals /\ fetched \in 0..total
    /\ cursor \in {"open", "hung", "end", "broken"} /\ expired \in BOOLEAN
    /\ pc \in {"asking", "reading", "checking", "ok", "error"} /\ limit \in Limits
    /\ truncated \in BOOLEAN

\* What has been kept, and how the cursor stands, at each point of the loop.
Kept ==
    /\ \/ ~truncated /\ rows = Upto(fetched) /\ (limit > 0 => fetched <= limit)
       \/ truncated /\ rows = Upto(limit) /\ limit > 0 /\ limit < fetched
       \/ pc = "error" /\ ~truncated /\ fetched # 0 /\ rows = Upto(fetched - 1)
                       /\ (limit > 0 => fetched - 1 <= limit)
    /\ pc = "asking" => fetched = 0
    /\ pc \in {"asking", "reading"} => ~truncated
    /\ pc = "checking" /\ ~truncated => cursor \in {"end", "broken"}
    /\ pc = "ok" /\ ~truncated => cursor = "end"
    /\ cursor = "end" => fetched = total

ScanInv == Shape /\ Kept

LEMMA UptoIsSeq ==
  ASSUME NEW n \in Nat
  PROVE  Upto(n) \in Seq(1..n) /\ Len(Upto(n)) = n
  BY DEF Upto

LEMMA UptoAppend ==
  ASSUME NEW n \in Nat
  PROVE  Append(Upto(n), n + 1) = Upto(n + 1)
  BY DEF Upto

LEMMA UptoNone == Upto(0) = <<>>
  BY DEF Upto

LEMMA ScanInitInv == Init => ScanInv
  <1> SUFFICES ASSUME Init PROVE ScanInv
    OBVIOUS
  <1>1. total \in Nat /\ limit \in Int /\ (limit > 0 => 0 <= limit)
    BY TotalsAssumption, LimitsAssumption DEF Init, CursorInit
  <1>2. fetched \in 0..total
    BY <1>1 DEF Init, CursorInit
  <1>s. Shape
    BY <1>2 DEF Init, CursorInit, Shape
  <1>3. Kept
    BY <1>1, UptoNone DEF Init, CursorInit, Kept
  <1>4. QED
    BY <1>s, <1>3 DEF ScanInv

LEMMA ScanStepInv == ScanInv /\ [Next]_vars => ScanInv'
  <1> SUFFICES ASSUME ScanInv, [Next]_vars PROVE ScanInv'
    OBVIOUS
  <1> USE DEF ScanInv, Shape, Goto
  <1>t. total \in Nat /\ fetched \in Nat /\ fetched <= total /\ limit \in Int /\ limit # 0
    BY TotalsAssumption, LimitsAssumption
  <1>1. CASE Ask \/ AskFails
    BY <1>1, <1>t DEF Ask, AskFails, cursorVars, Kept
  <1>2. CASE Scan
    <2>1. rows = Upto(fetched) /\ ~truncated /\ Len(rows) = fetched
      BY <1>2, <1>t, UptoIsSeq DEF Scan, Kept
    <2>2. rows' = Upto(fetched + 1) /\ fetched' = fetched + 1
      BY <1>2, <1>t, <2>1, UptoAppend DEF Scan, Row
    <2>3. limit > 0 => fetched + 1 <= limit
      BY <1>2, <1>t, <2>1 DEF Scan, Full
    <2>4. QED
      BY <1>2, <1>t, <2>1, <2>2, <2>3 DEF Scan, Row, Kept
  <1>3. CASE ScanFails
    <2>1. rows = Upto(fetched) /\ ~truncated /\ (limit > 0 => fetched <= limit)
      BY <1>3, <1>t DEF ScanFails, Kept
    <2>2. fetched' = fetched + 1 /\ fetched' - 1 = fetched /\ fetched' # 0
      BY <1>3, <1>t DEF ScanFails, Row
    <2>3. QED
      BY <1>3, <1>t, <2>1, <2>2 DEF ScanFails, Row, Kept
  <1>4. CASE Truncate
    <2>1. rows = Upto(fetched) /\ ~truncated /\ Len(rows) = fetched /\ (limit > 0 => fetched <= limit)
      BY <1>4, <1>t, UptoIsSeq DEF Truncate, Kept
    <2>2. limit = fetched /\ limit > 0
      BY <1>4, <1>t, <2>1 DEF Truncate, Full
    <2>3. QED
      BY <1>4, <1>t, <2>1, <2>2 DEF Truncate, Row, Kept
  <1>5. CASE Stop
    <2>1. /\ pc = "reading" /\ pc' = "checking" /\ ~truncated
          /\ UNCHANGED <<total, fetched, limit, rows, truncated, expired>>
          /\ rows = Upto(fetched) /\ (limit > 0 => fetched <= limit)
      BY <1>5, <1>t DEF Stop, NoMoreRows, Breaks, Kept
    <2>2. \/ cursor' = "end" /\ fetched = total
          \/ cursor' = "broken"
      BY <1>5 DEF Stop, NoMoreRows, Breaks
    <2>3. Shape'
      BY <2>1, <2>2
    <2>4. Kept'
      BY <2>1, <2>2 DEF Kept
    <2>5. QED
      BY <2>3, <2>4
  <1>6. CASE Return
    BY <1>6, <1>t DEF Return, cursorVars, Kept
  <1>r. CASE ReturnError
    BY <1>r, <1>t DEF ReturnError, cursorVars, Kept
  <1>7. CASE Expire
    <2>1. Shape'
      BY <1>7 DEF Expire, Expires, scanVars
    <2>2. Kept'
      BY <1>7 DEF Expire, Expires, scanVars, Kept
    <2>3. QED
      BY <2>1, <2>2
  <1>h. CASE StopAnswering
    <2>1. Shape'
      BY <1>h DEF StopAnswering, Hang, scanVars
    <2>2. Kept'
      BY <1>h DEF StopAnswering, Hang, Returned, scanVars, Kept
    <2>3. QED
      BY <2>1, <2>2
  <1>8. CASE UNCHANGED vars
    BY <1>8, <1>t DEF vars, cursorVars, scanVars, Kept
  <1>9. QED
    BY <1>1, <1>2, <1>3, <1>4, <1>5, <1>6, <1>r, <1>7, <1>h, <1>8 DEF Next, Proceed

LEMMA ScanInvAlways == Spec => []ScanInv
  BY ScanInitInv, ScanStepInv, PTL DEF Spec

\* What is kept in memory never exceeds the limit of the caller.
THEOREM ScanTypeCorrect == Spec => []TypeOK
  <1>1. ScanInv => TypeOK
    <2> SUFFICES ASSUME ScanInv PROVE TypeOK
      OBVIOUS
    <2> USE DEF ScanInv, Shape
    <2>t. total \in Nat /\ fetched \in Nat /\ fetched <= total /\ limit \in Int /\ limit # 0
      BY TotalsAssumption, LimitsAssumption
    <2>1. PICK n \in Nat : rows = Upto(n) /\ n <= total /\ (limit > 0 => n <= limit)
      <3>1. CASE truncated
        BY <3>1, <2>t DEF Kept
      <3>2. CASE ~truncated /\ rows = Upto(fetched) /\ (limit > 0 => fetched <= limit)
        BY <3>2, <2>t DEF Kept
      <3>3. CASE fetched # 0 /\ rows = Upto(fetched - 1) /\ (limit > 0 => fetched - 1 <= limit)
        <4>1. fetched - 1 \in Nat /\ fetched - 1 <= total
          BY <3>3, <2>t
        <4>2. QED
          BY <3>3, <4>1
      <3>4. QED
        BY <3>1, <3>2, <3>3 DEF Kept
    <2>2. rows \in Seq(1..n) /\ Len(rows) = n
      BY <2>1, UptoIsSeq
    <2>3. \A i \in 1..n : i \in 1..total
      BY <2>1, <2>t
    <2>4. rows \in Seq(1..total)
      BY <2>1, <2>3 DEF Upto
    <2>5. QED
      BY <2>1, <2>2, <2>4, <2>t DEF TypeOK
  <1>2. QED
    BY <1>1, ScanInvAlways, PTL

LEMMA ScanInitAnswer == Init => Answer!Init
  BY TotalsAssumption, LimitsAssumption DEF Init, CursorInit, Returned, Answer!Init

\* One step of the loop is a step of the promise, or nothing to be seen of it.
LEMMA ScanStepAnswer ==
  ScanInv /\ ScanInv' /\ [Next]_vars =>
      [Answer!Next]_<<total, limit, IF Returned THEN pc ELSE "none",
                      IF pc = "ok" THEN rows ELSE <<>>, pc = "ok" /\ truncated>>
  <1> SUFFICES ASSUME ScanInv, ScanInv', [Next]_vars
      PROVE  [Answer!Next]_<<total, limit, IF Returned THEN pc ELSE "none",
                      IF pc = "ok" THEN rows ELSE <<>>, pc = "ok" /\ truncated>>
    OBVIOUS
  <1> USE DEF ScanInv, Shape, Goto
  <1>t. total \in Nat /\ fetched \in Nat /\ fetched <= total /\ limit \in Int /\ limit # 0
    BY TotalsAssumption, LimitsAssumption
  <1>1. CASE Return
    <2>1. CASE truncated
      <3>1. rows = Upto(limit) /\ limit > 0 /\ limit < total
        BY <2>1, <1>1, <1>t DEF Kept, Return
      <3>2. Answer!Cut
        BY <1>1, <1>t, <2>1, <3>1
        DEF Return, Answer!Cut, Answer!Fits, Answer!Rows, Upto, Returned, cursorVars
      <3>3. QED
        BY <3>2 DEF Answer!Next
    <2>2. CASE ~truncated
      <3>1. rows = Upto(total) /\ (limit > 0 => total <= limit)
        BY <2>2, <1>1, <1>t DEF Kept, Return
      <3>2. Answer!Whole
        BY <1>1, <1>t, <2>2, <3>1
        DEF Return, Answer!Whole, Answer!Fits, Answer!Rows, Upto, Returned, cursorVars
      <3>3. QED
        BY <3>2 DEF Answer!Next
    <2>3. QED
      BY <2>1, <2>2
  <1>2. CASE AskFails \/ ScanFails \/ ReturnError
    <2>1. Answer!Fail
      BY <1>2 DEF AskFails, ScanFails, ReturnError, Row, Answer!Fail, Returned, cursorVars
    <2>2. QED
      BY <2>1 DEF Answer!Next
  <1>3. CASE Ask \/ Scan \/ Truncate \/ Stop
    BY <1>3 DEF Ask, Scan, Truncate, Stop, Row, NoMoreRows, Breaks, Returned, cursorVars
  <1>4. CASE Expire \/ StopAnswering
    BY <1>4 DEF Expire, Expires, StopAnswering, Hang, Returned, scanVars
  <1>5. CASE UNCHANGED vars
    BY <1>5 DEF vars, cursorVars, scanVars, Returned
  <1>6. QED
    BY <1>1, <1>2, <1>3, <1>4, <1>5 DEF Next, Proceed

\* A query is answered with its whole result, or with as much as the limit
\* allows and the word that there is more, or with an error.
THEOREM ScanKeepsAnswer == Spec => ScanIsWhole
  BY ScanInitAnswer, ScanStepAnswer, ScanInvAlways, PTL DEF Spec, ScanIsWhole, Answer!Spec

-----------------------------------------------------------------------------
(* MongoDB (MongoScan). *)

LEMMA UptoWithin ==
  ASSUME NEW n \in Nat, NEW m \in Nat, n <= m
  PROVE  Upto(n) \in Seq(1..m)
  BY DEF Upto

\* What the server has sent, when the command leaves the batch size to dbq.
MongoBounded == mLimit >= 0 /\ command.name \in {"find", "aggregate"} /\ command.own = 0 /\ mLimit < MaxBatch

MongoShape ==
  /\ mTotal \in Totals /\ mFetched \in 0..mTotal
  /\ mCursor \in {"open", "hung", "end", "broken"} /\ mExpired \in BOOLEAN
  /\ mPc \in {"asking", "reading", "checking", "ok", "error"}
  /\ mLimit \in Limits /\ command \in [name : M!Commands, own : OwnBatch]
  /\ batch \in 0..MaxBatch \cup OwnBatch /\ shipped \in mFetched..mTotal
  /\ mTruncated \in BOOLEAN

MongoKept ==
  /\ \/ ~mTruncated /\ mDocs = Upto(mFetched) /\ (mLimit > 0 => mFetched <= mLimit)
     \/ mTruncated /\ mDocs = Upto(mLimit) /\ mLimit > 0 /\ mFetched = mLimit + 1 /\ mPc = "ok"
  /\ mPc = "asking" => mFetched = 0 /\ shipped = 0
  /\ mPc = "checking" => mCursor \in {"end", "broken"}
  /\ mPc = "ok" /\ ~mTruncated => mCursor = "end"
  /\ mCursor = "end" => mFetched = mTotal
  /\ MongoBounded => shipped <= mLimit + 1
  /\ MongoBounded /\ mPc = "reading" => shipped = mTotal \/ shipped = mLimit + 1

MongoInv == MongoShape /\ MongoKept

LEMMA MongoTypes ==
  MongoShape => /\ mTotal \in Nat /\ mFetched \in Nat /\ mFetched <= mTotal
            /\ mLimit \in Int /\ mLimit # 0
            /\ shipped \in Nat /\ mFetched <= shipped /\ shipped <= mTotal
            /\ command.own \in Nat /\ MaxBatch \in Nat /\ MaxBatch > 0
  <1> SUFFICES ASSUME MongoShape
      PROVE  /\ mTotal \in Nat /\ mFetched \in Nat /\ mFetched <= mTotal
             /\ mLimit \in Int /\ mLimit # 0
             /\ shipped \in Nat /\ mFetched <= shipped /\ shipped <= mTotal
             /\ command.own \in Nat /\ MaxBatch \in Nat /\ MaxBatch > 0
    OBVIOUS
  <1>1. mTotal \in Nat /\ mFetched \in 0..mTotal
    BY TotalsAssumption DEF MongoShape
  <1>2. shipped \in mFetched..mTotal
    BY DEF MongoShape
  <1>3. command.own \in Nat
    BY BatchAssumption DEF MongoShape
  <1>4. mLimit \in Int /\ mLimit # 0
    BY LimitsAssumption DEF MongoShape
  <1>5. QED
    BY <1>1, <1>2, <1>3, <1>4, BatchAssumption

LEMMA MongoInitInv == M!Init => MongoInv
  <1> SUFFICES ASSUME M!Init PROVE MongoInv
    OBVIOUS
  <1>1. mTotal \in Nat /\ mLimit \in Int /\ (mLimit > 0 => 0 <= mLimit)
    BY TotalsAssumption, LimitsAssumption DEF M!Init, M!CursorInit
  <1>2. MongoShape
    <2>1. mFetched \in 0..mTotal /\ shipped \in mFetched..mTotal
      BY <1>1 DEF M!Init, M!CursorInit
    <2>2. batch \in 0..MaxBatch
      BY BatchAssumption DEF M!Init
    <2>3. QED
      BY <2>1, <2>2 DEF M!Init, M!CursorInit, MongoShape
  <1>3. MongoKept
    BY <1>1, UptoNone DEF M!Init, M!CursorInit, MongoKept, MongoBounded
  <1>4. QED
    BY <1>2, <1>3 DEF MongoInv

LEMMA MongoStepInv == MongoInv /\ [M!Next]_(M!vars) => MongoInv'
  <1> SUFFICES ASSUME MongoInv, [M!Next]_(M!vars) PROVE MongoInv'
    OBVIOUS
  <1> USE DEF MongoInv
  <1>t. /\ mTotal \in Nat /\ mFetched \in Nat /\ mFetched <= mTotal
        /\ mLimit \in Int /\ mLimit # 0
        /\ shipped \in Nat /\ mFetched <= shipped /\ shipped <= mTotal
        /\ command.own \in Nat /\ MaxBatch \in Nat /\ MaxBatch > 0
    BY MongoTypes
  <1>1. CASE M!Ask
    <2>1. /\ batch' = M!BatchSize /\ mPc' = "reading"
          /\ shipped' = IF M!BatchSize = 0 THEN mTotal ELSE M!Smaller(M!BatchSize, mTotal)
          /\ UNCHANGED <<mTotal, mFetched, mCursor, mExpired, mLimit, command, mDocs, mTruncated>>
          /\ mPc = "asking" /\ mCursor = "open"
      BY <1>1 DEF M!Ask, M!cursorVars
    <2>2. M!BatchSize \in 0..MaxBatch \cup OwnBatch /\ M!BatchSize \in Nat
      BY <1>t, BatchAssumption DEF M!BatchSize, MongoShape
    <2>3. shipped' \in 0..mTotal
      BY <2>1, <2>2, <1>t DEF M!Smaller
    <2>4. MongoBounded => (shipped' = mTotal /\ mTotal <= mLimit + 1) \/ shipped' = mLimit + 1
      BY <2>1, <2>2, <1>t DEF M!Smaller, MongoBounded, M!BatchSize
    <2>5. MongoShape'
      BY <2>1, <2>2, <2>3, <1>t DEF MongoShape, MongoKept
    <2>6. MongoBounded' <=> MongoBounded
      BY <2>1 DEF MongoBounded
    <2>7. MongoKept'
      BY <2>1, <2>3, <2>4, <2>6, <1>t DEF MongoKept
    <2>8. QED
      BY <2>5, <2>7
  <1>2. CASE M!AskFails
    <2>1. /\ mPc = "asking" /\ mPc' = "error"
          /\ UNCHANGED <<mTotal, mFetched, mCursor, mExpired, mLimit, command, batch, shipped, mDocs, mTruncated>>
      BY <1>2 DEF M!AskFails, M!cursorVars
    <2>2. MongoBounded' <=> MongoBounded
      BY <2>1 DEF MongoBounded
    <2>3. MongoShape'
      BY <2>1 DEF MongoShape
    <2>5. MongoKept'
      BY <2>1, <2>2 DEF MongoKept
    <2>6. QED
      BY <2>3, <2>5
  <1>3. CASE M!Keep
    <2>1. /\ mPc = "reading" /\ mCursor = "open" /\ mFetched < mTotal /\ mFetched' = mFetched + 1
          /\ shipped' = IF mFetched < shipped THEN shipped ELSE mTotal
          /\ UNCHANGED <<mTotal, mCursor, mExpired, mPc, mLimit, command, batch, mTruncated>>
          /\ mDocs' = Append(mDocs, mFetched') /\ ~M!Full
      BY <1>3 DEF M!Keep, M!NextDocument, M!Row
    <2>2. ~mTruncated /\ mDocs = Upto(mFetched) /\ Len(mDocs) = mFetched
      BY <2>1, <1>t, UptoIsSeq DEF MongoKept
    <2>3. mDocs' = Upto(mFetched + 1)
      BY <2>1, <2>2, <1>t, UptoAppend
    <2>4. mLimit > 0 => mFetched + 1 <= mLimit
      BY <2>1, <2>2, <1>t DEF M!Full
    <2>5. MongoBounded' <=> MongoBounded
      BY <2>1 DEF MongoBounded
    <2>6. shipped' \in mFetched'..mTotal
      BY <2>1, <1>t
    <2>7. MongoBounded => shipped' = shipped
      BY <2>1, <2>4, <1>t DEF MongoKept, MongoBounded
    <2>8. MongoShape'
      BY <2>1, <2>6, <1>t DEF MongoShape
    <2>9. MongoKept'
      BY <2>1, <2>2, <2>3, <2>4, <2>5, <2>7, <1>t DEF MongoKept
    <2>10. QED
      BY <2>8, <2>9
  <1>4. CASE M!Truncate
    <2>1. /\ mPc = "reading" /\ mCursor = "open" /\ mFetched < mTotal /\ mFetched' = mFetched + 1
          /\ shipped' = IF mFetched < shipped THEN shipped ELSE mTotal
          /\ UNCHANGED <<mTotal, mCursor, mExpired, mLimit, command, batch, mDocs>>
          /\ mTruncated' = TRUE /\ mPc' = "ok" /\ M!Full
      BY <1>4 DEF M!Truncate, M!NextDocument, M!Row
    <2>2. ~mTruncated /\ mDocs = Upto(mFetched) /\ Len(mDocs) = mFetched
      BY <2>1, <1>t, UptoIsSeq DEF MongoKept
    <2>3. mLimit = mFetched /\ mLimit > 0
      BY <2>1, <2>2, <1>t DEF M!Full, MongoKept
    <2>5. MongoBounded' <=> MongoBounded
      BY <2>1 DEF MongoBounded
    <2>6. shipped' \in mFetched'..mTotal
      BY <2>1, <1>t
    <2>7. MongoBounded => shipped' = shipped
      BY <2>1, <2>3, <1>t DEF MongoKept, MongoBounded
    <2>8. MongoShape'
      BY <2>1, <2>6, <1>t DEF MongoShape
    <2>9. MongoKept'
      BY <2>1, <2>2, <2>3, <2>5, <2>7, <1>t DEF MongoKept
    <2>10. QED
      BY <2>8, <2>9
  <1>5. CASE M!Stop
    <2>1. /\ mPc = "reading" /\ mPc' = "checking"
          /\ UNCHANGED <<mTotal, mFetched, mExpired, mLimit, command, batch, shipped, mDocs, mTruncated>>
          /\ (mCursor' = "end" /\ mFetched = mTotal) \/ mCursor' = "broken"
      BY <1>5 DEF M!Stop, M!NoMoreRows, M!Breaks
    <2>2. MongoShape'
      BY <2>1 DEF MongoShape
    <2>3. MongoBounded' <=> MongoBounded
      BY <2>1 DEF MongoBounded
    <2>4. MongoKept'
      BY <2>1, <2>3 DEF MongoKept
    <2>5. QED
      BY <2>2, <2>4
  <1>6. CASE M!Return
    <2>1. /\ mPc = "checking" /\ mPc' = IF mCursor = "broken" THEN "error" ELSE "ok"
          /\ UNCHANGED <<mTotal, mFetched, mCursor, mExpired, mLimit, command, batch, shipped, mDocs, mTruncated>>
      BY <1>6 DEF M!Return, M!cursorVars
    <2>2. MongoBounded' <=> MongoBounded
      BY <2>1 DEF MongoBounded
    <2>3. MongoShape'
      BY <2>1 DEF MongoShape
    <2>4. MongoKept'
      BY <2>1, <2>2 DEF MongoKept
    <2>5. QED
      BY <2>3, <2>4
  <1>7. CASE M!Expire \/ M!StopAnswering \/ UNCHANGED M!vars
    <2>1. /\ UNCHANGED <<mTotal, mFetched, mPc, mLimit, command, batch, shipped, mDocs, mTruncated>>
          /\ mExpired' \in BOOLEAN
          /\ mCursor' = mCursor \/ (mPc \notin {"ok", "error"} /\ mCursor = "open" /\ mCursor' = "hung")
      BY <1>7 DEF M!Expire, M!StopAnswering, M!Expires, M!Hang, M!Returned, M!scanVars, M!vars,
                  M!cursorVars, MongoShape
    <2>2. MongoBounded' <=> MongoBounded
      BY <2>1 DEF MongoBounded
    <2>3. MongoShape'
      BY <2>1 DEF MongoShape
    <2>4. MongoKept'
      BY <2>1, <2>2 DEF MongoKept
    <2>5. QED
      BY <2>3, <2>4
  <1>8. QED
    BY <1>1, <1>2, <1>3, <1>4, <1>5, <1>6, <1>7 DEF M!Next, M!Proceed

LEMMA MongoInvAlways == M!Spec => []MongoInv
  BY MongoInitInv, MongoStepInv, PTL DEF M!Spec

LEMMA MongoProperties == MongoInv => M!TypeOK /\ M!ShipsNoMore
  <1> SUFFICES ASSUME MongoInv PROVE M!TypeOK /\ M!ShipsNoMore
    OBVIOUS
  <1>t. /\ mTotal \in Nat /\ mFetched \in Nat /\ mFetched <= mTotal /\ mLimit \in Int /\ mLimit # 0
    BY MongoTypes DEF MongoInv
  <1>1. PICK n \in Nat : mDocs = Upto(n) /\ n <= mTotal /\ (mLimit > 0 => n <= mLimit)
    BY <1>t DEF MongoInv, MongoKept
  <1>2. mDocs \in Seq(1..mTotal) /\ (mLimit > 0 => Len(mDocs) <= mLimit)
    BY <1>1, <1>t, UptoIsSeq, UptoWithin
  <1>3. M!TypeOK
    BY <1>2 DEF MongoInv, MongoShape, M!TypeOK
  <1>4. M!ShipsNoMore
    BY DEF MongoInv, MongoKept, MongoBounded, M!ShipsNoMore
  <1>5. QED
    BY <1>3, <1>4

LEMMA MongoInitAnswer == M!Init => M!Answer!Init
  BY TotalsAssumption, LimitsAssumption DEF M!Init, M!CursorInit, M!Returned, M!Answer!Init

LEMMA MongoStepAnswer ==
  MongoInv /\ [M!Next]_(M!vars) =>
      [M!Answer!Next]_<<mTotal, mLimit, IF M!Returned THEN mPc ELSE "none",
                      IF mPc = "ok" THEN mDocs ELSE <<>>, mPc = "ok" /\ mTruncated>>
  <1> SUFFICES ASSUME MongoInv, [M!Next]_(M!vars)
      PROVE  [M!Answer!Next]_<<mTotal, mLimit, IF M!Returned THEN mPc ELSE "none",
                      IF mPc = "ok" THEN mDocs ELSE <<>>, mPc = "ok" /\ mTruncated>>
    OBVIOUS
  <1> USE DEF MongoInv
  <1>t. mTotal \in Nat /\ mFetched \in Nat /\ mFetched <= mTotal /\ mLimit \in Int /\ mLimit # 0
    BY MongoTypes
  <1>1. CASE M!Truncate
    <2>1. mDocs = Upto(mFetched) /\ Len(mDocs) = mFetched /\ ~mTruncated
          /\ (mLimit > 0 => mFetched <= mLimit) /\ mFetched < mTotal
      BY <1>1, <1>t, UptoIsSeq DEF M!Truncate, M!NextDocument, M!Row, MongoKept
    <2>2. mLimit = mFetched /\ mLimit > 0
      BY <1>1, <2>1, <1>t DEF M!Truncate, M!Full
    <2>3. M!Answer!Cut
      BY <1>1, <2>1, <2>2, <1>t
      DEF M!Truncate, M!NextDocument, M!Row, M!Answer!Cut, M!Answer!Fits, M!Answer!Rows, Upto, M!Returned
    <2>4. QED
      BY <2>3 DEF M!Answer!Next
  <1>2. CASE M!Return
    <2>1. CASE mCursor = "broken"
      BY <1>2, <2>1 DEF M!Return, M!cursorVars, M!Answer!Next, M!Answer!Fail, M!Returned
    <2>2. CASE mCursor # "broken"
      <3>1. mDocs = Upto(mTotal) /\ ~mTruncated /\ (mLimit > 0 => mTotal <= mLimit)
        BY <1>2, <2>2, <1>t DEF M!Return, MongoKept
      <3>2. M!Answer!Whole
        BY <1>2, <2>2, <3>1, <1>t
        DEF M!Return, M!cursorVars, M!Answer!Whole, M!Answer!Fits, M!Answer!Rows, Upto, M!Returned
      <3>3. QED
        BY <3>2 DEF M!Answer!Next
    <2>3. QED
      BY <2>1, <2>2
  <1>3. CASE M!AskFails
    BY <1>3 DEF M!AskFails, M!cursorVars, M!Answer!Next, M!Answer!Fail, M!Returned
  <1>4. CASE M!Ask \/ M!Keep \/ M!Stop
    BY <1>4 DEF M!Ask, M!Keep, M!Stop, M!NextDocument, M!Row, M!NoMoreRows, M!Breaks, M!Returned, M!cursorVars
  <1>5. CASE M!Expire \/ M!StopAnswering \/ UNCHANGED M!vars
    BY <1>5 DEF M!Expire, M!Expires, M!StopAnswering, M!Hang, M!Returned, M!scanVars, M!vars, M!cursorVars
  <1>6. QED
    BY <1>1, <1>2, <1>3, <1>4, <1>5 DEF M!Next, M!Proceed

\* A find or aggregate keeps QueryScan's promise: what MongoExecutor returns is the
\* whole answer cut at the limit, or an error, whatever the batches the cursor reads.
THEOREM MongoKeepsAnswer == M!Spec => M!ScanIsWhole
  BY MongoInitAnswer, MongoStepAnswer, MongoInvAlways, PTL DEF M!Spec, M!ScanIsWhole, M!Answer!Spec

-----------------------------------------------------------------------------
(* Cassandra (CassandraScan). *)

CassandraShape ==
  /\ cTotal \in Totals /\ cFetched \in 0..cTotal
  /\ cCursor \in {"open", "hung", "end", "broken"} /\ cExpired \in BOOLEAN
  /\ cPc \in {"asking", "reading", "closing", "ok", "error"}
  /\ kind \in {"read", "write"} /\ cLimit \in Limits
  /\ stored \in [1..cTotal -> 0..cTotal] /\ dest \in 0..cTotal
  /\ cTruncated \in BOOLEAN

\* The rows kept are those of the database, value by value; the destination is
\* empty whenever the next one may be scanned into it.
CassandraKept ==
  /\ cRows \in Seq(0..cTotal)
  /\ \A i \in 1..Len(cRows) : cRows[i] = stored[i]
  /\ \/ ~cTruncated /\ Len(cRows) = cFetched /\ (cLimit > 0 => cFetched <= cLimit)
     \/ cTruncated /\ Len(cRows) = cLimit /\ cLimit > 0 /\ cFetched = cLimit + 1
  /\ cPc \in {"asking", "reading"} => ~cTruncated /\ dest = 0
  /\ cPc = "asking" => cFetched = 0 /\ (kind = "write" => cTotal = 0)
  /\ cPc = "closing" /\ ~cTruncated => cCursor \in {"end", "broken"}
  /\ cPc = "ok" /\ ~cTruncated => cFetched = cTotal
  /\ cCursor = "end" => cFetched = cTotal

CassandraInv == CassandraShape /\ CassandraKept

LEMMA CassandraTypes ==
  CassandraShape => /\ cTotal \in Nat /\ cFetched \in Nat /\ cFetched <= cTotal
            /\ cLimit \in Int /\ cLimit # 0
  <1> SUFFICES ASSUME CassandraShape
      PROVE  /\ cTotal \in Nat /\ cFetched \in Nat /\ cFetched <= cTotal
             /\ cLimit \in Int /\ cLimit # 0
    OBVIOUS
  <1>1. cTotal \in Nat /\ cFetched \in 0..cTotal
    BY TotalsAssumption DEF CassandraShape
  <1>2. cLimit \in Int /\ cLimit # 0
    BY LimitsAssumption DEF CassandraShape
  <1>3. QED
    BY <1>1, <1>2

LEMMA CassandraInitInv == C!Init => CassandraInv
  <1> SUFFICES ASSUME C!Init PROVE CassandraInv
    OBVIOUS
  <1>1. cTotal \in Nat /\ cLimit \in Int /\ (cLimit > 0 => 0 <= cLimit)
    BY TotalsAssumption, LimitsAssumption DEF C!Init, C!CursorInit
  <1>2. cFetched \in 0..cTotal /\ dest \in 0..cTotal
    BY <1>1 DEF C!Init, C!CursorInit, C!Null
  <1>3. stored \in [1..cTotal -> 0..cTotal]
    BY <1>1 DEF C!Init, C!Null
  <1>4. CassandraShape
    BY <1>2, <1>3 DEF C!Init, C!CursorInit, CassandraShape
  <1>5. CassandraKept
    BY <1>1 DEF C!Init, C!CursorInit, CassandraKept, C!Null
  <1>6. QED
    BY <1>4, <1>5 DEF CassandraInv

LEMMA CassandraStepInv == CassandraInv /\ [C!Next]_(C!vars) => CassandraInv'
  <1> SUFFICES ASSUME CassandraInv, [C!Next]_(C!vars) PROVE CassandraInv'
    OBVIOUS
  <1> USE DEF CassandraInv
  <1>t. /\ cTotal \in Nat /\ cFetched \in Nat /\ cFetched <= cTotal
        /\ cLimit \in Int /\ cLimit # 0 /\ cRows \in Seq(0..cTotal)
    BY CassandraTypes DEF CassandraKept
  <1>1. CASE C!Exec \/ C!ExecFails \/ C!Iterate
    <2>1. /\ cPc = "asking" /\ cPc' \in {"ok", "error", "reading"} /\ (cPc' = "ok" => kind = "write")
          /\ UNCHANGED <<cTotal, cFetched, cCursor, cExpired, kind, cLimit, stored, dest, cRows, cTruncated>>
      BY <1>1 DEF C!Exec, C!ExecFails, C!Iterate, C!cursorVars
    <2>2. CassandraShape'
      BY <2>1 DEF CassandraShape
    <2>3. CassandraKept'
      BY <2>1 DEF CassandraKept
    <2>4. QED
      BY <2>2, <2>3
  <1>2. CASE C!Keep
    <2>1. /\ cPc = "reading" /\ cCursor = "open" /\ cFetched < cTotal /\ cFetched' = cFetched + 1
          /\ UNCHANGED <<cTotal, cCursor, cExpired, cPc, kind, cLimit, stored, cTruncated>>
          /\ dest' = 0 /\ ~C!Full
      BY <1>2 DEF C!Keep, C!Row, C!Null
    <2>2. ~cTruncated /\ dest = 0 /\ Len(cRows) = cFetched
      BY <2>1, <1>t DEF CassandraKept
    <2>3. stored[cFetched + 1] \in 0..cTotal
      BY <2>1, <1>t DEF CassandraShape
    <2>4. cRows' = Append(cRows, stored[cFetched + 1])
      BY <1>2, <2>2 DEF C!Keep, C!Scanned, C!Null
    <2>5. /\ cRows' \in Seq(0..cTotal) /\ Len(cRows') = cFetched + 1
          /\ \A i \in 1..Len(cRows') : cRows'[i] = IF i = cFetched + 1 THEN stored[cFetched + 1] ELSE cRows[i]
      BY <2>2, <2>3, <2>4, <1>t
    <2>6. \A i \in 1..Len(cRows') : cRows'[i] = stored[i]
      BY <2>2, <2>5, <1>t DEF CassandraKept
    <2>7. cLimit > 0 => cFetched + 1 <= cLimit
      BY <2>1, <2>2, <1>t DEF C!Full
    <2>8. CassandraShape'
      BY <2>1, <1>t DEF CassandraShape
    <2>9. CassandraKept'
      BY <2>1, <2>2, <2>5, <2>6, <2>7, <1>t DEF CassandraKept
    <2>10. QED
      BY <2>8, <2>9
  <1>3. CASE C!Truncate
    <2>1. /\ cPc = "reading" /\ cCursor = "open" /\ cFetched < cTotal /\ cFetched' = cFetched + 1
          /\ UNCHANGED <<cTotal, cCursor, cExpired, kind, cLimit, stored, cRows>>
          /\ cTruncated' = TRUE /\ cPc' = "closing" /\ C!Full /\ dest' \in C!Scanned
      BY <1>3 DEF C!Truncate, C!Row
    <2>2. stored[cFetched + 1] \in 0..cTotal
      BY <2>1, <1>t DEF CassandraShape
    <2>3. dest' \in 0..cTotal
      BY <2>1, <2>2, <1>t DEF C!Scanned, C!Null, CassandraShape
    <2>4. Len(cRows) = cFetched /\ cLimit = cFetched /\ cLimit > 0
      BY <2>1, <1>t DEF C!Full, CassandraKept
    <2>5. CassandraShape'
      BY <2>1, <2>3, <1>t DEF CassandraShape
    <2>6. CassandraKept'
      BY <2>1, <2>4, <1>t DEF CassandraKept
    <2>7. QED
      BY <2>5, <2>6
  <1>4. CASE C!Stop
    <2>1. /\ cPc = "reading" /\ cPc' = "closing"
          /\ UNCHANGED <<cTotal, cFetched, cExpired, kind, cLimit, stored, dest, cRows, cTruncated>>
          /\ (cCursor' = "end" /\ cFetched = cTotal) \/ cCursor' = "broken"
      BY <1>4 DEF C!Stop, C!NoMoreRows, C!Breaks
    <2>2. CassandraShape'
      BY <2>1 DEF CassandraShape
    <2>3. CassandraKept'
      BY <2>1 DEF CassandraKept
    <2>4. QED
      BY <2>2, <2>3
  <1>5. CASE C!Close
    <2>1. /\ cPc = "closing" /\ cPc' = IF cCursor = "broken" THEN "error" ELSE "ok"
          /\ UNCHANGED <<cTotal, cFetched, cCursor, cExpired, kind, cLimit, stored, dest, cRows, cTruncated>>
      BY <1>5 DEF C!Close, C!cursorVars
    <2>2. CassandraShape'
      BY <2>1 DEF CassandraShape
    <2>3. CassandraKept'
      BY <2>1 DEF CassandraKept
    <2>4. QED
      BY <2>2, <2>3
  <1>6. CASE C!Expire \/ C!StopAnswering \/ UNCHANGED C!vars
    <2>1. /\ UNCHANGED <<cTotal, cFetched, cPc, kind, cLimit, stored, dest, cRows, cTruncated>>
          /\ cExpired' \in BOOLEAN
          /\ cCursor' = cCursor \/ (cCursor = "open" /\ cCursor' = "hung")
      BY <1>6 DEF C!Expire, C!StopAnswering, C!Expires, C!Hang, C!scanVars, C!vars, C!cursorVars, CassandraShape
    <2>2. CassandraShape'
      BY <2>1 DEF CassandraShape
    <2>3. CassandraKept'
      BY <2>1 DEF CassandraKept
    <2>4. QED
      BY <2>2, <2>3
  <1>7. QED
    BY <1>1, <1>2, <1>3, <1>4, <1>5, <1>6 DEF C!Next, C!Proceed

LEMMA CassandraInvAlways == C!Spec => []CassandraInv
  BY CassandraInitInv, CassandraStepInv, PTL DEF C!Spec

LEMMA CassandraProperties == CassandraInv => C!TypeOK /\ C!RowsAsStored
  <1> SUFFICES ASSUME CassandraInv PROVE C!TypeOK /\ C!RowsAsStored
    OBVIOUS
  <1>t. cTotal \in Nat /\ cFetched \in Nat /\ cFetched <= cTotal /\ cLimit \in Int /\ cLimit # 0
    BY CassandraTypes DEF CassandraInv
  <1>1. cRows \in Seq(0..cTotal) /\ (cLimit > 0 => Len(cRows) <= cLimit)
    BY <1>t DEF CassandraInv, CassandraKept
  <1>2. C!TypeOK
    BY <1>1 DEF CassandraInv, CassandraShape, C!TypeOK
  <1>3. C!RowsAsStored
    BY DEF CassandraInv, CassandraKept, C!RowsAsStored
  <1>4. QED
    BY <1>2, <1>3

LEMMA CassandraInitAnswer == C!Init => C!Answer!Init
  BY TotalsAssumption, LimitsAssumption DEF C!Init, C!CursorInit, C!Returned, C!Answer!Init

LEMMA CassandraStepAnswer ==
  CassandraInv /\ [C!Next]_(C!vars) =>
      [C!Answer!Next]_<<cTotal, cLimit, IF C!Returned THEN cPc ELSE "none",
                      IF cPc = "ok" THEN [i \in 1..Len(cRows) |-> i] ELSE <<>>, cPc = "ok" /\ cTruncated>>
  <1> SUFFICES ASSUME CassandraInv, [C!Next]_(C!vars)
      PROVE  [C!Answer!Next]_<<cTotal, cLimit, IF C!Returned THEN cPc ELSE "none",
                      IF cPc = "ok" THEN [i \in 1..Len(cRows) |-> i] ELSE <<>>, cPc = "ok" /\ cTruncated>>
    OBVIOUS
  <1> USE DEF CassandraInv
  <1>t. cTotal \in Nat /\ cFetched \in Nat /\ cFetched <= cTotal /\ cLimit \in Int /\ cLimit # 0
    BY CassandraTypes
  <1>1. CASE C!Exec
    <2>1. cTotal = 0 /\ cLimit \in Int /\ Len(cRows) = 0 /\ ~cTruncated
      BY <1>1, <1>t DEF C!Exec, CassandraKept
    <2>2. C!Answer!Whole
      BY <1>1, <2>1, <1>t
      DEF C!Exec, C!cursorVars, C!Answer!Whole, C!Answer!Fits, C!Answer!Rows, C!Returned
    <2>3. QED
      BY <2>2 DEF C!Answer!Next
  <1>2. CASE C!Close
    <2>1. CASE cCursor = "broken"
      BY <1>2, <2>1 DEF C!Close, C!cursorVars, C!Answer!Next, C!Answer!Fail, C!Returned
    <2>2. CASE cCursor # "broken" /\ cTruncated
      <3>1. Len(cRows) = cLimit /\ cLimit > 0 /\ cLimit < cTotal
        BY <2>2, <1>t DEF CassandraKept
      <3>2. C!Answer!Cut
        BY <1>2, <2>2, <3>1, <1>t
        DEF C!Close, C!cursorVars, C!Answer!Cut, C!Answer!Fits, C!Answer!Rows, C!Returned
      <3>3. QED
        BY <3>2 DEF C!Answer!Next
    <2>3. CASE cCursor # "broken" /\ ~cTruncated
      <3>1. Len(cRows) = cTotal /\ (cLimit > 0 => cTotal <= cLimit)
        BY <1>2, <2>3, <1>t DEF C!Close, CassandraKept
      <3>2. C!Answer!Whole
        BY <1>2, <2>3, <3>1, <1>t
        DEF C!Close, C!cursorVars, C!Answer!Whole, C!Answer!Fits, C!Answer!Rows, C!Returned
      <3>3. QED
        BY <3>2 DEF C!Answer!Next
    <2>4. QED
      BY <2>1, <2>2, <2>3
  <1>3. CASE C!ExecFails
    BY <1>3 DEF C!ExecFails, C!cursorVars, C!Answer!Next, C!Answer!Fail, C!Returned
  <1>4. CASE C!Iterate \/ C!Keep \/ C!Truncate \/ C!Stop
    BY <1>4 DEF C!Iterate, C!Keep, C!Truncate, C!Stop, C!Row, C!NoMoreRows, C!Breaks, C!Returned, C!cursorVars
  <1>5. CASE C!Expire \/ C!StopAnswering \/ UNCHANGED C!vars
    BY <1>5 DEF C!Expire, C!Expires, C!StopAnswering, C!Hang, C!Returned, C!scanVars, C!vars, C!cursorVars
  <1>6. QED
    BY <1>1, <1>2, <1>3, <1>4, <1>5 DEF C!Next, C!Proceed

\* cassandraBackend.Execute keeps it too, whichever columns are null, although the
\* driver writes every row to the same place and may leave it alone for a null.
THEOREM CassandraKeepsAnswer == C!Spec => C!ScanIsWhole
  BY CassandraInitAnswer, CassandraStepAnswer, CassandraInvAlways, PTL DEF C!Spec, C!ScanIsWhole, C!Answer!Spec

-----------------------------------------------------------------------------
(* The keys of a Redis (KeyListing). *)

\* The positions of a key among the first n of a sequence.
Places(s, n, k) == {i \in 1..n : s[i] = k}

KeyShape ==
  /\ present \in SUBSET Key /\ steady \in SUBSET present
  /\ kExpired \in BOOLEAN
  /\ kPc \in {"scanning", "typing", "ok", "error"}
  /\ calls \in 0..Patience
  /\ keys \in Seq(Key) /\ kOut \in Seq(Key)
  /\ kAt \in 1..(Len(keys) + 1)

\* The keys are sorted before the first TYPE, and hold every steady one unless
\* they were cut; of the steady keys before kAt as many are listed as there are.
KeyListed ==
  /\ kPc = "scanning" => kOut = <<>> /\ kAt = 1 /\ Len(keys) < ScanLimit /\ calls < Patience
  /\ kPc \in {"typing", "ok"} =>
       /\ Len(keys) <= ScanLimit
       /\ Len(keys) < ScanLimit => \A k \in steady : \E i \in 1..Len(keys) : keys[i] = k
       /\ \A i, j \in 1..Len(keys) : i < j => keys[i] <= keys[j]
       /\ \A i, j \in 1..Len(kOut) : i < j => kOut[i] <= kOut[j]
       /\ \A i \in 1..Len(kOut), j \in kAt..Len(keys) : kOut[i] <= keys[j]
       /\ \A k \in steady :
            Cardinality(Places(kOut, Len(kOut), k)) = Cardinality(Places(keys, kAt - 1, k))
  /\ kPc = "typing" => kAt <= Len(keys)
  /\ kPc = "ok" => kAt = Len(keys) + 1
  /\ kPc = "error" => Len(keys) <= ScanLimit
  /\ Len(kOut) < kAt

KeyInv == KeyShape /\ KeyListed

\* The module of the listing counts as this one does.
LEMMA KeyCardinality == ASSUME NEW S PROVE K!Cardinality(S) = Cardinality(S)
  BY DEF K!Cardinality, Cardinality

LEMMA NoPlaces == ASSUME NEW s, NEW k PROVE Places(s, 0, k) = {}
  BY DEF Places

LEMMA PlacesAreFinite ==
  ASSUME NEW s, NEW n \in Nat, NEW k
  PROVE  IsFiniteSet(Places(s, n, k))
  <1>1. IsFiniteSet(1..n)
    BY FS_Interval
  <1>2. Places(s, n, k) \subseteq 1..n
    BY DEF Places
  <1>3. QED
    BY <1>1, <1>2, FS_Subset

\* One more element is one more place, or none.
LEMMA OneMorePlace ==
  ASSUME NEW s, NEW t, NEW n \in Nat, NEW k, \A i \in 1..n : t[i] = s[i]
  PROVE  Cardinality(Places(t, n + 1, k)) =
           IF t[n + 1] = k THEN Cardinality(Places(s, n, k)) + 1 ELSE Cardinality(Places(s, n, k))
  <1>1. Places(t, n + 1, k) = IF t[n + 1] = k THEN Places(s, n, k) \cup {n + 1} ELSE Places(s, n, k)
    BY DEF Places
  <1>2. n + 1 \notin Places(s, n, k)
    BY DEF Places
  <1>3. QED
    BY <1>1, <1>2, PlacesAreFinite, FS_AddElement

\* Sorting changes the order only.
LEMMA SortedIsWhole ==
  ASSUME NEW s \in Seq(Key), NEW r \in K!Sorted(s)
  PROVE  /\ r \in Seq(Key) /\ Len(r) = Len(s)
         /\ \A i, j \in 1..Len(r) : i < j => r[i] <= r[j]
         /\ \A i \in 1..Len(s) : \E j \in 1..Len(r) : r[j] = s[i]
  <1>1. PICK p \in K!Bijection(1..Len(s), 1..Len(s)) :
          /\ \A i, j \in 1..Len(s) : i < j => s[p[i]] <= s[p[j]]
          /\ r = [i \in 1..Len(s) |-> s[p[i]]]
    BY DEF K!Sorted
  <1>2. p \in [1..Len(s) -> 1..Len(s)] /\ \A i \in 1..Len(s) : \E j \in 1..Len(s) : p[j] = i
    BY DEF K!Bijection, K!Surjection, K!Injection
  <1>3. r \in Seq(Key) /\ Len(r) = Len(s)
    <2>1. Len(s) \in Nat /\ \A i \in 1..Len(s) : s[p[i]] \in Key
      BY <1>2
    <2>2. r \in [1..Len(s) -> Key]
      BY <1>1, <2>1
    <2>3. QED
      BY <2>1, <2>2
  <1>4. QED
    BY <1>1, <1>2, <1>3

LEMMA KeyInitInv == K!Init => KeyInv
  <1> SUFFICES ASSUME K!Init PROVE KeyInv
    OBVIOUS
  <1>1. KeyShape
    <2>1. keys \in Seq(Key) /\ kOut \in Seq(Key) /\ Len(keys) = 0
      BY DEF K!Init
    <2>2. calls \in 0..Patience /\ kAt \in 1..(Len(keys) + 1)
      BY <2>1, ListingAssumption DEF K!Init
    <2>3. QED
      BY <2>1, <2>2 DEF K!Init, KeyShape
  <1>2. KeyListed
    BY ListingAssumption DEF K!Init, KeyListed
  <1>3. QED
    BY <1>1, <1>2 DEF KeyInv

\* One call of SCAN, and what is made of the keys after the last.
LEMMA KeyScanStep == KeyInv /\ K!Scan => KeyInv'
  <1> SUFFICES ASSUME KeyInv, K!Scan PROVE KeyInv'
    OBVIOUS
  <1>1. PICK new \in K!Batches, zero \in BOOLEAN :
          /\ zero => K!AllReturned(keys \o new)
          /\ calls + 1 >= Patience => zero
          /\ calls' = calls + 1
          /\ IF K!Done(zero, new, keys \o new)
             THEN /\ keys' \in K!Sorted(K!Cut(keys \o new))
                  /\ kPc' = IF keys \o new = <<>> THEN "ok" ELSE "typing"
             ELSE keys' = keys \o new /\ UNCHANGED kPc
    BY DEF K!Scan
  <1> DEFINE found == keys \o new
  <1>2. /\ kPc = "scanning" /\ ~kExpired
        /\ UNCHANGED <<present, steady, kExpired, kAt, kOut>>
    BY DEF K!Scan
  <1>3. /\ present \in SUBSET Key /\ steady \in SUBSET present /\ keys \in Seq(Key)
        /\ calls \in Nat /\ calls < Patience /\ kOut = <<>> /\ kAt = 1
        /\ ScanLimit \in Nat \ {0} /\ Patience \in Nat
    BY <1>2, ListingAssumption DEF KeyInv, KeyShape, KeyListed
  <1>4. new \in Seq(Key) /\ found \in Seq(Key)
    <2>1. PICK n \in 0..ScanBatch : new \in [1..n -> present]
      BY <1>1 DEF K!Batches
    <2>2. n \in Nat /\ new \in [1..n -> Key]
      <3>1. n \in Nat
        BY <2>1, ListingAssumption
      <3>2. \A i \in 1..n : new[i] \in Key
        BY <2>1, <1>3
      <3>3. QED
        BY <2>1, <3>1, <3>2
    <2>3. new \in Seq(Key)
      BY <2>2
    <2>4. QED
      BY <2>3, <1>3
  <1>5. calls' \in 0..Patience
    BY <1>1, <1>3
  <1>6. CASE K!Done(zero, new, found)
    <2>1. /\ K!Cut(found) \in Seq(Key) /\ Len(K!Cut(found)) <= ScanLimit
          /\ Len(found) < ScanLimit => K!Cut(found) = found
          /\ Len(found) >= ScanLimit => Len(K!Cut(found)) = ScanLimit
          /\ Len(found) # 0 => Len(K!Cut(found)) # 0
      BY <1>3, <1>4 DEF K!Cut
    <2>2. keys' \in K!Sorted(K!Cut(found)) /\ kPc' = IF found = <<>> THEN "ok" ELSE "typing"
      BY <1>1, <1>6
    <2>3. /\ keys' \in Seq(Key) /\ Len(keys') = Len(K!Cut(found))
          /\ \A i, j \in 1..Len(keys') : i < j => keys'[i] <= keys'[j]
          /\ \A i \in 1..Len(K!Cut(found)) : \E j \in 1..Len(keys') : keys'[j] = K!Cut(found)[i]
      BY <2>1, <2>2, SortedIsWhole
    <2>4. Len(keys') < ScanLimit => \A k \in steady : \E i \in 1..Len(keys') : keys'[i] = k
      <3>1. SUFFICES ASSUME Len(keys') < ScanLimit, NEW k \in steady
                     PROVE  \E i \in 1..Len(keys') : keys'[i] = k
        OBVIOUS
      <3>2. Len(found) < ScanLimit /\ K!Cut(found) = found
        BY <3>1, <2>1, <2>3, <1>3, <1>4
      <3>3. zero
        BY <3>2, <1>3, <1>4, <1>6 DEF K!Done
      <3>4. k \in {found[i] : i \in DOMAIN found}
        BY <3>1, <3>3, <1>1 DEF K!AllReturned, K!ToSet
      <3>5. PICK i \in 1..Len(found) : found[i] = k
        BY <3>4, <1>4
      <3>6. QED
        BY <3>2, <3>5, <2>3
    <2>5. KeyShape'
      BY <2>2, <2>3, <1>2, <1>3, <1>5 DEF KeyInv, KeyShape
    <2>6. \A k \in steady' :
            Cardinality(Places(kOut', Len(kOut'), k)) = Cardinality(Places(keys', kAt' - 1, k))
      <3>1. Len(kOut') = 0 /\ kAt' - 1 = 0
        BY <1>2, <1>3
      <3>2. \A k : Places(kOut', 0, k) = {} /\ Places(keys', 0, k) = {}
        BY NoPlaces
      <3>3. QED
        BY <3>1, <3>2
    <2>7. found = <<>> <=> Len(keys') = 0
      BY <2>1, <2>3, <1>3, <1>4
    <2>8. KeyListed'
      BY <2>1, <2>2, <2>3, <2>4, <2>6, <2>7, <1>2, <1>3 DEF KeyListed
    <2>9. QED
      BY <2>5, <2>8 DEF KeyInv
  <1>7. CASE ~K!Done(zero, new, found)
    <2>1. keys' = found /\ kPc' = kPc /\ Len(found) < ScanLimit /\ calls' < Patience
      BY <1>1, <1>3, <1>4, <1>7 DEF K!Done
    <2>2. KeyShape'
      BY <2>1, <1>2, <1>3, <1>4, <1>5 DEF KeyInv, KeyShape
    <2>3. KeyListed'
      BY <2>1, <1>2, <1>3 DEF KeyListed
    <2>4. QED
      BY <2>2, <2>3 DEF KeyInv
  <1>8. QED
    BY <1>6, <1>7

\* The TYPE of a key, which is listed if it is still there.
LEMMA KeyTypeStep == KeyInv /\ K!Type => KeyInv'
  <1> SUFFICES ASSUME KeyInv, K!Type PROVE KeyInv'
    OBVIOUS
  <1>1. /\ kPc = "typing" /\ kAt' = kAt + 1
        /\ kOut' = IF keys[kAt] \in present THEN Append(kOut, keys[kAt]) ELSE kOut
        /\ kPc' = IF kAt = Len(keys) THEN "ok" ELSE "typing"
        /\ UNCHANGED <<present, steady, kExpired, calls, keys>>
    BY DEF K!Type
  <1>2. /\ keys \in Seq(Key) /\ kOut \in Seq(Key) /\ kAt \in 1..Len(keys) /\ Key \subseteq Int
        /\ Len(kOut) < kAt /\ Len(keys) <= ScanLimit /\ Len(keys) \in Nat /\ Len(kOut) \in Nat
        /\ keys[kAt] \in Key /\ kAt \in Nat
    BY <1>1, ListingAssumption DEF KeyInv, KeyShape, KeyListed
  <1>3. /\ \A i, j \in 1..Len(keys) : i < j => keys[i] <= keys[j]
        /\ \A i, j \in 1..Len(kOut) : i < j => kOut[i] <= kOut[j]
        /\ \A i \in 1..Len(kOut), j \in kAt..Len(keys) : kOut[i] <= keys[j]
        /\ \A k \in steady :
             Cardinality(Places(kOut, Len(kOut), k)) = Cardinality(Places(keys, kAt - 1, k))
    BY <1>1 DEF KeyInv, KeyListed
  <1>4. /\ kOut' \in Seq(Key) /\ Len(kOut') < kAt'
        /\ \A i \in 1..Len(kOut) : kOut'[i] = kOut[i]
        /\ keys[kAt] \in present => Len(kOut') = Len(kOut) + 1 /\ kOut'[Len(kOut')] = keys[kAt]
        /\ keys[kAt] \notin present => kOut' = kOut
    BY <1>1, <1>2
  <1>5. KeyShape'
    BY <1>1, <1>2, <1>4 DEF KeyInv, KeyShape
  <1>6. /\ \A i, j \in 1..Len(kOut') : i < j => kOut'[i] <= kOut'[j]
        /\ \A i \in 1..Len(kOut'), j \in kAt'..Len(keys') : kOut'[i] <= keys'[j]
    <2>1. CASE keys[kAt] \notin present
      BY <2>1, <1>1, <1>2, <1>3, <1>4
    <2>2. CASE keys[kAt] \in present
      <3>1. \A i \in 1..Len(kOut') : i \in 1..Len(kOut) \/ (i = Len(kOut) + 1 /\ kOut'[i] = keys[kAt])
        BY <2>2, <1>2, <1>4
      <3>2. \A i \in 1..Len(kOut) : kOut'[i] <= keys[kAt]
        BY <1>2, <1>3, <1>4
      <3>3. \A i, j \in 1..Len(kOut') : i < j => kOut'[i] <= kOut'[j]
        BY <3>1, <3>2, <2>2, <1>2, <1>3, <1>4
      <3>4. \A i \in 1..Len(kOut'), j \in kAt'..Len(keys') : kOut'[i] <= keys'[j]
        <4>1. SUFFICES ASSUME NEW i \in 1..Len(kOut'), NEW j \in (kAt + 1)..Len(keys)
                       PROVE  kOut'[i] <= keys[j]
          BY <1>1
        <4>2. CASE i \in 1..Len(kOut)
          BY <4>2, <1>2, <1>3, <1>4
        <4>3. CASE kOut'[i] = keys[kAt]
          BY <4>3, <1>2, <1>3
        <4>4. QED
          BY <4>2, <4>3, <3>1
      <3>5. QED
        BY <3>3, <3>4
    <2>3. QED
      BY <2>1, <2>2
  <1>7. ASSUME NEW k \in steady
        PROVE  Cardinality(Places(kOut', Len(kOut'), k)) = Cardinality(Places(keys, kAt, k))
    <2>1. k \in present /\ kAt - 1 \in Nat /\ (kAt - 1) + 1 = kAt
      BY <1>2 DEF KeyInv, KeyShape
    <2>2. Cardinality(Places(keys, kAt, k)) =
            IF keys[kAt] = k THEN Cardinality(Places(keys, kAt - 1, k)) + 1
            ELSE Cardinality(Places(keys, kAt - 1, k))
      BY <2>1, OneMorePlace
    <2>3. CASE keys[kAt] \in present
      <3>1. Cardinality(Places(kOut', Len(kOut) + 1, k)) =
              IF kOut'[Len(kOut) + 1] = k THEN Cardinality(Places(kOut, Len(kOut), k)) + 1
              ELSE Cardinality(Places(kOut, Len(kOut), k))
        BY <1>2, <1>4, OneMorePlace
      <3>2. QED
        BY <2>2, <2>3, <3>1, <1>3, <1>4
    <2>4. CASE keys[kAt] \notin present
      BY <2>1, <2>2, <2>4, <1>3, <1>4
    <2>5. QED
      BY <2>3, <2>4
  <1>8. KeyListed'
    <2>1. kAt' - 1 = kAt /\ steady' = steady /\ keys' = keys
      BY <1>1, <1>2
    <2>2. \A k \in steady' :
            Cardinality(Places(kOut', Len(kOut'), k)) = Cardinality(Places(keys', kAt' - 1, k))
      BY <1>7, <2>1
    <2>3. Len(keys) < ScanLimit => \A k \in steady : \E i \in 1..Len(keys) : keys[i] = k
      BY <1>1 DEF KeyInv, KeyListed
    <2>4. /\ kPc' = "typing" => kAt' <= Len(keys')
          /\ kPc' = "ok" => kAt' = Len(keys') + 1
          /\ kPc' \in {"typing", "ok"}
      BY <1>1, <1>2
    <2>5. QED
      BY <1>1, <1>2, <1>3, <1>4, <1>6, <2>1, <2>2, <2>3, <2>4 DEF KeyListed
  <1>9. QED
    BY <1>5, <1>8 DEF KeyInv

LEMMA KeyStepInv == KeyInv /\ [K!Next]_(K!vars) => KeyInv'
  <1> SUFFICES ASSUME KeyInv, [K!Next]_(K!vars) PROVE KeyInv'
    OBVIOUS
  <1>1. CASE K!Scan
    BY <1>1, KeyScanStep
  <1>2. CASE K!Type
    BY <1>2, KeyTypeStep
  <1>3. CASE K!Fail \/ K!Expire \/ UNCHANGED K!vars
    <2>1. /\ UNCHANGED <<present, steady, calls, keys, kAt, kOut>>
          /\ kExpired' \in BOOLEAN /\ (kPc' = kPc \/ kPc' = "error")
      BY <1>3 DEF K!Fail, K!Expire, K!vars, KeyInv, KeyShape
    <2>2. KeyShape'
      BY <2>1 DEF KeyInv, KeyShape
    <2>3. ScanLimit \in Nat /\ Len(keys) \in Nat
      BY ListingAssumption DEF KeyInv, KeyShape
    <2>4. KeyListed'
      BY <2>1, <2>3 DEF KeyInv, KeyListed, KeyShape
    <2>5. QED
      BY <2>2, <2>4 DEF KeyInv
  <1>4. ASSUME NEW k \in Key, K!Change(k) PROVE KeyInv'
    <2>1. /\ UNCHANGED <<kExpired, kPc, calls, keys, kAt, kOut>>
          /\ steady' = steady \ {k}
          /\ present' = IF k \in present THEN present \ {k} ELSE present \cup {k}
      BY <1>4 DEF K!Change
    <2>2. steady' \subseteq steady /\ steady' \in SUBSET present' /\ present' \in SUBSET Key
      BY <2>1 DEF KeyInv, KeyShape
    <2>3. KeyShape'
      BY <2>1, <2>2 DEF KeyInv, KeyShape
    <2>4. KeyListed'
      BY <2>1, <2>2 DEF KeyInv, KeyListed
    <2>5. QED
      BY <2>3, <2>4 DEF KeyInv
  <1>5. QED
    BY <1>1, <1>2, <1>3, <1>4 DEF K!Next, K!Proceed

LEMMA KeyInvAlways == K!Spec => []KeyInv
  BY KeyInitInv, KeyStepInv, PTL DEF K!Spec

LEMMA KeyProperties == KeyInv => K!TypeOK /\ K!SteadyKeysListed /\ K!ListedInOrder
  <1> SUFFICES ASSUME KeyInv PROVE K!TypeOK /\ K!SteadyKeysListed /\ K!ListedInOrder
    OBVIOUS
  <1>t. /\ keys \in Seq(Key) /\ kOut \in Seq(Key) /\ Len(keys) \in Nat /\ Len(kOut) \in Nat
        /\ ScanLimit \in Nat
    BY ListingAssumption DEF KeyInv, KeyShape
  <1>1. K!TypeOK
    BY <1>t DEF KeyInv, KeyShape, KeyListed, K!TypeOK
  <1>2. ASSUME kPc = "ok", NEW k \in steady
        PROVE  Cardinality(Places(kOut, Len(kOut), k)) = Cardinality(Places(keys, Len(keys), k))
    <2>1. kAt - 1 = Len(keys)
      BY <1>2, <1>t DEF KeyInv, KeyListed
    <2>2. QED
      BY <1>2, <2>1 DEF KeyInv, KeyListed
  <1>3. K!SteadyKeysListed
    <2>0. kPc = "ok" => Len(keys) <= ScanLimit
      BY DEF KeyInv, KeyListed
    <2>1. SUFFICES ASSUME kPc = "ok", Len(keys) < ScanLimit, NEW k \in steady
                   PROVE  \E i \in 1..Len(kOut) : kOut[i] = k
      BY <1>t, <2>0 DEF K!SteadyKeysListed, K!LimitMet, K!ToSet
    <2>2. PICK i \in 1..Len(keys) : keys[i] = k
      BY <2>1 DEF KeyInv, KeyListed
    <2>3. Places(keys, Len(keys), k) # {} /\ IsFiniteSet(Places(keys, Len(keys), k))
      <3>1. i \in Places(keys, Len(keys), k)
        BY <2>2 DEF Places
      <3>2. QED
        BY <3>1, <1>t, PlacesAreFinite
    <2>4. Cardinality(Places(keys, Len(keys), k)) # 0
      BY <2>3, FS_EmptySet
    <2>5. Places(kOut, Len(kOut), k) # {}
      <3>1. Cardinality(Places(kOut, Len(kOut), k)) = Cardinality(Places(keys, Len(keys), k))
        BY <2>1, <1>2
      <3>2. Cardinality({}) = 0
        BY FS_EmptySet
      <3>3. QED
        BY <2>4, <3>1, <3>2
    <2>6. QED
      BY <2>5 DEF Places
  <1>4. K!ListedInOrder
    <2>1. SUFFICES ASSUME kPc = "ok"
                   PROVE  /\ Len(kOut) <= ScanLimit
                          /\ \A i, j \in 1..Len(kOut) : i < j => kOut[i] <= kOut[j]
                          /\ \A k \in steady :
                               Cardinality({i \in 1..Len(kOut) : kOut[i] = k})
                                 = Cardinality({i \in 1..Len(keys) : keys[i] = k})
      BY KeyCardinality DEF K!ListedInOrder
    <2>2. Len(kOut) <= ScanLimit
      BY <2>1, <1>t DEF KeyInv, KeyListed
    <2>3. \A i, j \in 1..Len(kOut) : i < j => kOut[i] <= kOut[j]
      BY <2>1 DEF KeyInv, KeyListed
    <2>4. QED
      BY <2>1, <2>2, <2>3, <1>2 DEF Places
  <1>5. QED
    BY <1>1, <1>3, <1>4

-----------------------------------------------------------------------------
(* The tables of a connection (SchemaContext). *)

SchemaShape ==
  /\ exists \in SUBSET Table
  /\ hung \in BOOLEAN /\ sExpired \in BOOLEAN
  /\ request \in [wanted : Wanted, max : MaxTables]
  /\ sPc \in {"listing", "columns", "keys", "ok", "error"}
  /\ listed \in Seq(Table) /\ todo \in Seq(Table)
  /\ at \in 1..(Len(todo) + 1)
  /\ out \in Seq([table : Table, keys : BOOLEAN])
  /\ sFailed \subseteq Table \X {"columns", "keys"}

\* What is to be described is what was listed, up to the cap, in its order.
SchemaCut ==
  /\ Len(todo) = IF Len(listed) > T!Cap THEN T!Cap ELSE Len(listed)
  /\ \A i \in 1..Len(todo) : todo[i] = listed[i]
  /\ \A i, j \in 1..Len(listed) : i < j => listed[i] < listed[j]

\* Every table before the next one is described or has failed in time, and those
\* described are among them, in their order; keys are missing without a failure
\* only once time is up, and then for the last.
SchemaDescribed ==
  /\ sPc \in {"columns", "keys"} => at <= Len(todo)
  /\ sPc = "ok" => at = Len(todo) + 1
  /\ sPc = "listing" => at = 1 /\ out = <<>>
  /\ \A i \in 1..(at - 1) :
       (\E j \in 1..Len(out) : out[j].table = todo[i]) \/ <<todo[i], "columns">> \in sFailed
  /\ \A j \in 1..Len(out) : \E i \in 1..(at - 1) : todo[i] = out[j].table
  /\ \A i, j \in 1..Len(out) : i < j => out[i].table < out[j].table
  /\ \A j \in 1..Len(out) :
       ~out[j].keys => \/ <<out[j].table, "keys">> \in sFailed
                       \/ sExpired /\ sPc # "keys" /\ at > 1 /\ out[j].table = todo[at - 1]

\* As many are described as the loop has passed, unless one has failed in time,
\* and none of those ahead has.
SchemaCounted ==
  /\ sPc = "listing" => sFailed = {}
  /\ Len(out) < at
  /\ Len(out) = at - 1 <=> \A i \in 1..(at - 1) : <<todo[i], "columns">> \notin sFailed
  /\ \A i \in at..Len(todo) : <<todo[i], "columns">> \notin sFailed

SchemaInv == SchemaShape /\ SchemaCut /\ SchemaDescribed /\ SchemaCounted

LEMMA SchemaCardinality == ASSUME NEW S PROVE T!Cardinality(S) = Cardinality(S)
  BY DEF T!Cardinality, Cardinality

LEMMA SchemaCap == ASSUME SchemaShape PROVE T!Cap \in Nat /\ T!Cap > 0
  <1>1. request.max \in Int
    BY SchemaAssumption DEF SchemaShape
  <1>2. QED
    BY <1>1, SchemaAssumption DEF T!Cap

LEMMA SchemaInitInv == T!Init => SchemaInv
  <1> SUFFICES ASSUME T!Init PROVE SchemaInv
    OBVIOUS
  <1>1. /\ listed = <<>> /\ todo = <<>> /\ at = 1 /\ out = <<>> /\ sFailed = {}
        /\ listed \in Seq(Table) /\ todo \in Seq(Table)
        /\ out \in Seq([table : Table, keys : BOOLEAN])
        /\ Len(listed) = 0 /\ Len(todo) = 0 /\ Len(out) = 0
    BY DEF T!Init
  <1>2. SchemaShape
    <2>1. at \in 1..(Len(todo) + 1)
      BY <1>1
    <2>2. QED
      BY <1>1, <2>1 DEF T!Init, SchemaShape
  <1>3. SchemaCut
    <2>1. T!Cap \in Nat
      BY <1>2, SchemaCap
    <2>2. QED
      BY <1>1, <2>1 DEF SchemaCut
  <1>4. SchemaDescribed
    BY <1>1 DEF T!Init, SchemaDescribed
  <1>5. SchemaCounted
    BY <1>1 DEF SchemaCounted
  <1>6. QED
    BY <1>2, <1>3, <1>4, <1>5 DEF SchemaInv

LEMMA SchemaListStep == SchemaInv /\ T!List => SchemaInv'
  <1> SUFFICES ASSUME SchemaInv, T!List PROVE SchemaInv'
    OBVIOUS
  <1>1. PICK l \in T!Listings :
          /\ listed' = l
          /\ todo' = SubSeq(l, 1, IF Len(l) > T!Cap THEN T!Cap ELSE Len(l))
          /\ sPc' = IF l = <<>> THEN "ok" ELSE "columns"
    BY DEF T!List
  <1>2. /\ sPc = "listing" /\ UNCHANGED <<exists, hung, sExpired, request, at, out, sFailed>>
    BY DEF T!List
  <1>3. at = 1 /\ Len(out) = 0 /\ out = <<>> /\ T!Cap \in Nat /\ T!Cap > 0 /\ Table \subseteq Int
    BY <1>2, SchemaCap, SchemaAssumption DEF SchemaInv, SchemaDescribed
  <1>4. Cardinality(T!Matching) \in Nat /\ T!Matching \subseteq Table
    <2>1. T!Matching \subseteq Table /\ IsFiniteSet(Table)
      BY SchemaAssumption DEF T!Matching, SchemaInv, SchemaShape
    <2>2. QED
      BY <2>1, FS_Subset, FS_CardinalityType
  <1>5. /\ l \in Seq(Table) /\ Len(l) \in Nat
        /\ \A i, j \in 1..Len(l) : i < j => l[i] < l[j]
    <2>1. l \in [1..Cardinality(T!Matching) -> T!Matching]
      BY SchemaCardinality DEF T!Listings
    <2>2. \A i, j \in DOMAIN l : i < j => l[i] < l[j]
      BY DEF T!Listings
    <2>3. l \in Seq(Table)
      BY <2>1, <1>4
    <2>4. QED
      BY <2>2, <2>3
  <1>6. /\ todo' \in Seq(Table)
        /\ Len(todo') = IF Len(l) > T!Cap THEN T!Cap ELSE Len(l)
        /\ \A i \in 1..Len(todo') : todo'[i] = l[i]
    BY <1>1, <1>3, <1>5
  <1>7. T!Cap' = T!Cap
    BY <1>2 DEF T!Cap
  <1>8. Len(todo') = 0 <=> l = <<>>
    BY <1>3, <1>5, <1>6
  <1>9. SchemaShape'
    BY <1>1, <1>2, <1>3, <1>5, <1>6 DEF SchemaInv, SchemaShape
  <1>10. SchemaCut'
    BY <1>1, <1>5, <1>6, <1>7 DEF SchemaCut
  <1>11. SchemaDescribed'
    BY <1>1, <1>2, <1>3, <1>6, <1>8 DEF SchemaDescribed
  <1>12. SchemaCounted'
    <2>1. sFailed' = {} /\ at' = 1 /\ Len(out') = 0
      BY <1>2, <1>3 DEF SchemaInv, SchemaCounted
    <2>2. QED
      BY <2>1 DEF SchemaCounted
  <1>13. QED
    BY <1>9, <1>10, <1>11, <1>12 DEF SchemaInv

\* No table is described twice.
LEMMA SchemaDistinct ==
  SchemaInv => \A i, j \in 1..Len(todo) : i # j => todo[i] # todo[j]
  <1> SUFFICES ASSUME SchemaInv, NEW i \in 1..Len(todo), NEW j \in 1..Len(todo), i < j
               PROVE  todo[i] # todo[j]
    BY DEF SchemaInv, SchemaShape
  <1>1. /\ i \in 1..Len(listed) /\ j \in 1..Len(listed)
        /\ Table \subseteq Int /\ listed \in Seq(Table)
    BY SchemaCap, SchemaAssumption DEF SchemaInv, SchemaShape, SchemaCut
  <1>2. listed[i] < listed[j] /\ listed[i] \in Int /\ listed[j] \in Int
    <2>1. listed[i] \in Table /\ listed[j] \in Table
      BY <1>1
    <2>2. QED
      BY <1>1, <2>1 DEF SchemaInv, SchemaCut
  <1>3. todo[i] = listed[i] /\ todo[j] = listed[j]
    BY DEF SchemaInv, SchemaCut
  <1>4. QED
    BY <1>2, <1>3

\* The round of a table that cannot be described.
LEMMA SchemaSkipStep == SchemaInv /\ T!Skip => SchemaInv'
  <1> SUFFICES ASSUME SchemaInv, T!Skip PROVE SchemaInv'
    OBVIOUS
  <1> USE DEF SchemaInv
  <1>1. /\ sPc = "columns"
        /\ UNCHANGED <<exists, hung, sExpired, request, listed, todo, out>>
    BY DEF T!Skip
  <1>2. T!Cap' = T!Cap
    BY <1>1 DEF T!Cap
  <1>3. at \in 1..Len(todo) /\ Len(todo) \in Nat /\ at \in Nat /\ todo[at] \in Table
    BY <1>1 DEF SchemaShape, SchemaDescribed
  <1>4. CASE sExpired
    <2>1. sPc' = "error" /\ UNCHANGED <<at, sFailed>>
      BY <1>4 DEF T!Skip
    <2>2. SchemaShape'
      BY <1>1, <2>1 DEF SchemaShape
    <2>3. SchemaCut'
      BY <1>1, <1>2 DEF SchemaCut
    <2>4. SchemaDescribed'
      BY <1>1, <2>1 DEF SchemaDescribed
    <2>5. SchemaCounted'
      BY <1>1, <2>1 DEF SchemaCounted
    <2>6. QED
      BY <2>2, <2>3, <2>4, <2>5
  <1>5. CASE ~sExpired
    <2>1. /\ at' = at + 1 /\ sPc' = IF at = Len(todo) THEN "ok" ELSE "columns"
          /\ sFailed' = sFailed \cup {<<todo[at], "columns">>}
      BY <1>5 DEF T!Skip, T!Continue
    <2>2. SchemaShape'
      BY <1>1, <1>3, <2>1 DEF SchemaShape
    <2>3. SchemaCut'
      BY <1>1, <1>2 DEF SchemaCut
    <2>4. \A i \in 1..(at' - 1) : i \in 1..(at - 1) \/ i = at
      BY <1>3, <2>1
    <2>5. \A i \in 1..(at' - 1) :
            (\E j \in 1..Len(out) : out[j].table = todo[i]) \/ <<todo[i], "columns">> \in sFailed'
      BY <2>1, <2>4 DEF SchemaDescribed
    <2>6. \A j \in 1..Len(out) : \E i \in 1..(at' - 1) : todo[i] = out[j].table
      <3>1. \A i \in 1..(at - 1) : i \in 1..(at' - 1)
        BY <1>3, <2>1
      <3>2. QED
        BY <3>1 DEF SchemaDescribed
    <2>7. SchemaDescribed'
      BY <1>1, <1>3, <1>5, <2>1, <2>5, <2>6 DEF SchemaDescribed
    <2>8. Len(out) \in Nat /\ Len(out) < at /\ Len(out) < at'
      BY <1>3, <2>1 DEF SchemaShape, SchemaCounted
    <2>9. Len(out') = at' - 1 <=> \A i \in 1..(at' - 1) : <<todo'[i], "columns">> \notin sFailed'
      <3>1. at \in 1..(at' - 1) /\ <<todo[at], "columns">> \in sFailed' /\ Len(out) # at' - 1
        BY <1>3, <2>1, <2>8 DEF SchemaShape
      <3>2. QED
        BY <3>1, <1>1
    <2>10. \A i \in at'..Len(todo) : <<todo[i], "columns">> \notin sFailed'
      <3>1. SUFFICES ASSUME NEW i \in at'..Len(todo) PROVE <<todo[i], "columns">> \notin sFailed'
        OBVIOUS
      <3>2. i \in at..Len(todo) /\ i \in 1..Len(todo) /\ i # at
        BY <1>3, <2>1
      <3>3. todo[i] # todo[at] /\ <<todo[i], "columns">> \notin sFailed
        BY <1>3, <3>2, SchemaDistinct DEF SchemaCounted
      <3>4. QED
        BY <2>1, <3>3
    <2>11. SchemaCounted'
      BY <1>1, <2>1, <2>8, <2>9, <2>10 DEF SchemaCounted
    <2>12. QED
      BY <2>2, <2>3, <2>7, <2>11
  <1>6. QED
    BY <1>4, <1>5

\* The round of a table that is described, with its keys or without.
LEMMA SchemaDescribeStep == SchemaInv /\ (T!Keys \/ T!NoKeys) => SchemaInv'
  <1> SUFFICES ASSUME SchemaInv, T!Keys \/ T!NoKeys PROVE SchemaInv'
    OBVIOUS
  <1> USE DEF SchemaInv
  <1>1. PICK k \in BOOLEAN :
          /\ out' = Append(out, [table |-> todo[at], keys |-> k])
          /\ k \/ sExpired \/ <<todo[at], "keys">> \in sFailed'
    BY DEF T!Keys, T!NoKeys, T!Describe
  <1>2. /\ sPc = "keys" /\ at' = at + 1 /\ sPc' = IF at = Len(todo) THEN "ok" ELSE "columns"
        /\ sFailed \subseteq sFailed' /\ sFailed' \subseteq sFailed \cup {<<todo[at], "keys">>}
        /\ UNCHANGED <<exists, hung, sExpired, request, listed, todo>>
    BY DEF T!Keys, T!NoKeys, T!Describe, T!Continue
  <1>3. T!Cap' = T!Cap
    BY <1>2 DEF T!Cap
  <1>4. /\ at \in 1..Len(todo) /\ Len(todo) \in Nat /\ at \in Nat /\ todo[at] \in Table
        /\ Table \subseteq Int /\ todo \in Seq(Table) /\ Len(out) \in Nat
    BY <1>2, SchemaAssumption DEF SchemaShape, SchemaDescribed
  <1>5. /\ out' \in Seq([table : Table, keys : BOOLEAN]) /\ Len(out') = Len(out) + 1
        /\ \A j \in 1..Len(out) : out'[j] = out[j]
        /\ out'[Len(out) + 1].table = todo[at] /\ out'[Len(out) + 1].keys = k
    <2>1. [table |-> todo[at], keys |-> k] \in [table : Table, keys : BOOLEAN]
      BY <1>4
    <2>2. QED
      BY <1>1, <2>1 DEF SchemaShape
  <1>6. SchemaShape'
    BY <1>2, <1>4, <1>5 DEF SchemaShape
  <1>7. SchemaCut'
    BY <1>2, <1>3 DEF SchemaCut
  <1>8. \A i \in 1..(at' - 1) : i \in 1..(at - 1) \/ i = at
    BY <1>2, <1>4
  <1>9. \A j \in 1..Len(out') : j \in 1..Len(out) \/ j = Len(out) + 1
    BY <1>4, <1>5
  <1>10. \A i \in 1..(at' - 1) :
           (\E j \in 1..Len(out') : out'[j].table = todo[i]) \/ <<todo[i], "columns">> \in sFailed'
    <2>1. SUFFICES ASSUME NEW i \in 1..(at' - 1)
                   PROVE  (\E j \in 1..Len(out') : out'[j].table = todo[i]) \/ <<todo[i], "columns">> \in sFailed'
      OBVIOUS
    <2>2. CASE i = at
      BY <2>2, <1>4, <1>5
    <2>3. CASE i \in 1..(at - 1) /\ <<todo[i], "columns">> \in sFailed
      BY <2>3, <1>2
    <2>4. CASE i \in 1..(at - 1) /\ \E j \in 1..Len(out) : out[j].table = todo[i]
      <3>1. PICK j \in 1..Len(out) : out[j].table = todo[i]
        BY <2>4
      <3>2. j \in 1..Len(out') /\ out'[j] = out[j]
        BY <1>4, <1>5
      <3>3. QED
        BY <3>1, <3>2
    <2>5. QED
      BY <2>1, <2>2, <2>3, <2>4, <1>8 DEF SchemaDescribed
  <1>11. \A j \in 1..Len(out') : \E i \in 1..(at' - 1) : todo[i] = out'[j].table
    <2>1. \A i \in 1..(at - 1) : i \in 1..(at' - 1)
      BY <1>2, <1>4
    <2>2. at \in 1..(at' - 1)
      BY <1>2, <1>4
    <2>3. ASSUME NEW j \in 1..Len(out) PROVE \E i \in 1..(at' - 1) : todo[i] = out'[j].table
      <3>1. PICK i \in 1..(at - 1) : todo[i] = out[j].table
        BY DEF SchemaDescribed
      <3>2. QED
        BY <3>1, <2>1, <1>5
    <2>4. QED
      BY <1>5, <1>9, <2>2, <2>3
  <1>12. \A j \in 1..Len(out) : out[j].table < todo[at]
    <2>1. SUFFICES ASSUME NEW j \in 1..Len(out) PROVE out[j].table < todo[at]
      OBVIOUS
    <2>2. PICK i \in 1..(at - 1) : todo[i] = out[j].table
      BY DEF SchemaDescribed
    <2>3. i \in 1..Len(listed) /\ at \in 1..Len(listed) /\ i < at /\ i \in 1..Len(todo)
      BY <1>4, SchemaCap DEF SchemaCut, SchemaShape
    <2>4. todo[i] = listed[i] /\ todo[at] = listed[at] /\ listed[i] < listed[at]
      BY <1>4, <2>3 DEF SchemaCut
    <2>5. QED
      BY <2>2, <2>4
  <1>13. \A i, j \in 1..Len(out') : i < j => out'[i].table < out'[j].table
    <2>1. SUFFICES ASSUME NEW i \in 1..Len(out'), NEW j \in 1..Len(out'), i < j
                   PROVE  out'[i].table < out'[j].table
      OBVIOUS
    <2>2. i \in 1..Len(out) /\ out'[i] = out[i]
      BY <2>1, <1>4, <1>5
    <2>3. CASE j \in 1..Len(out)
      BY <2>1, <2>2, <2>3, <1>5 DEF SchemaDescribed
    <2>4. CASE j = Len(out) + 1
      BY <2>2, <2>4, <1>5, <1>12
    <2>5. QED
      BY <2>3, <2>4, <1>9
  <1>14. \A j \in 1..Len(out') :
           ~out'[j].keys => \/ <<out'[j].table, "keys">> \in sFailed'
                            \/ sExpired /\ at' > 1 /\ out'[j].table = todo[at' - 1]
    <2>1. SUFFICES ASSUME NEW j \in 1..Len(out'), ~out'[j].keys
                   PROVE  \/ <<out'[j].table, "keys">> \in sFailed'
                          \/ sExpired /\ at' > 1 /\ out'[j].table = todo[at' - 1]
      OBVIOUS
    <2>2. CASE j \in 1..Len(out)
      BY <2>1, <2>2, <1>2, <1>5 DEF SchemaDescribed
    <2>3. CASE j = Len(out) + 1
      <3>1. out'[j].table = todo[at] /\ ~k
        BY <2>1, <2>3, <1>5
      <3>2. at' - 1 = at /\ at' > 1
        BY <1>2, <1>4
      <3>3. QED
        BY <3>1, <3>2, <1>1
    <2>4. QED
      BY <2>2, <2>3, <1>9
  <1>15. SchemaDescribed'
    BY <1>2, <1>4, <1>10, <1>11, <1>13, <1>14 DEF SchemaDescribed
  <1>16. \A i \in 1..Len(todo) : <<todo[i], "columns">> \in sFailed' <=> <<todo[i], "columns">> \in sFailed
    BY <1>2
  <1>17. /\ Len(out') < at'
         /\ \A i \in at'..Len(todo) : <<todo[i], "columns">> \notin sFailed'
    <2>1. Len(out) < at /\ \A i \in at'..Len(todo) : i \in at..Len(todo) /\ i \in 1..Len(todo)
      BY <1>2, <1>4 DEF SchemaCounted
    <2>2. QED
      BY <2>1, <1>2, <1>4, <1>5, <1>16 DEF SchemaCounted
  <1>18. Len(out') = at' - 1 <=> \A i \in 1..(at' - 1) : <<todo[i], "columns">> \notin sFailed'
    <2>1. Len(out') = at' - 1 <=> Len(out) = at - 1
      BY <1>2, <1>4, <1>5
    <2>2. <<todo[at], "columns">> \notin sFailed
      BY <1>4 DEF SchemaCounted
    <2>3. /\ \A i \in 1..(at' - 1) : i \in 1..Len(todo)
          /\ \A i \in 1..(at - 1) : i \in 1..(at' - 1)
      BY <1>2, <1>4
    <2>4. QED
      BY <2>1, <2>2, <2>3, <1>8, <1>16 DEF SchemaCounted
  <1>19. SchemaCounted'
    BY <1>2, <1>17, <1>18 DEF SchemaCounted
  <1>20. QED
    BY <1>6, <1>7, <1>15, <1>19

LEMMA SchemaStepInv == SchemaInv /\ [T!Next]_(T!vars) => SchemaInv'
  <1> SUFFICES ASSUME SchemaInv, [T!Next]_(T!vars) PROVE SchemaInv'
    OBVIOUS
  <1>1. CASE T!List
    BY <1>1, SchemaListStep
  <1>2. CASE T!Skip
    BY <1>2, SchemaSkipStep
  <1>3. CASE T!Keys \/ T!NoKeys
    BY <1>3, SchemaDescribeStep
  <1>4. CASE \/ T!ListFails \/ T!Columns \/ T!Expire \/ T!StopAnswering
             \/ (\E t \in Table : T!Change(t)) \/ UNCHANGED T!vars
    <2>1. /\ UNCHANGED <<request, listed, todo, at, out, sFailed>>
          /\ exists' \in SUBSET Table /\ hung' \in BOOLEAN
          /\ sExpired' \in BOOLEAN /\ (sExpired => sExpired')
          /\ \/ sPc' = sPc
             \/ sPc = "listing" /\ sPc' = "error"
             \/ sPc = "columns" /\ sPc' = "keys" /\ ~sExpired
      <3>1. CASE T!ListFails \/ T!Columns
        BY <3>1 DEF T!ListFails, T!Columns, SchemaInv, SchemaShape
      <3>2. CASE T!Expire \/ T!StopAnswering
        BY <3>2 DEF T!Expire, T!StopAnswering, SchemaInv, SchemaShape
      <3>3. ASSUME NEW t \in Table, T!Change(t) PROVE <2>1!:
        BY <3>3 DEF T!Change, SchemaInv, SchemaShape
      <3>4. CASE UNCHANGED T!vars
        BY <3>4 DEF T!vars, SchemaInv, SchemaShape
      <3>5. QED
        BY <1>4, <3>1, <3>2, <3>3, <3>4
    <2>2. T!Cap' = T!Cap
      BY <2>1 DEF T!Cap
    <2>3. SchemaShape'
      BY <2>1 DEF SchemaInv, SchemaShape
    <2>4. SchemaCut'
      BY <2>1, <2>2 DEF SchemaInv, SchemaCut
    <2>5. SchemaDescribed'
      BY <2>1 DEF SchemaInv, SchemaDescribed
    <2>6. SchemaCounted'
      BY <2>1 DEF SchemaInv, SchemaCounted
    <2>7. QED
      BY <2>3, <2>4, <2>5, <2>6 DEF SchemaInv
  <1>5. QED
    BY <1>1, <1>2, <1>3, <1>4 DEF T!Next, T!Proceed

LEMMA SchemaInvAlways == T!Spec => []SchemaInv
  BY SchemaInitInv, SchemaStepInv, PTL DEF T!Spec

LEMMA SchemaProperties ==
  SchemaInv => /\ T!TypeOK /\ T!OnlyFailuresSkipped /\ T!CountTellsSkips /\ T!DescribedInOrder
          /\ T!TruncatedIsTrue /\ T!KeysLostOnlyAtTheEnd
  <1> SUFFICES ASSUME SchemaInv
      PROVE  /\ T!TypeOK /\ T!OnlyFailuresSkipped /\ T!CountTellsSkips /\ T!DescribedInOrder
             /\ T!TruncatedIsTrue /\ T!KeysLostOnlyAtTheEnd
    OBVIOUS
  <1> USE DEF SchemaInv
  <1>t. /\ listed \in Seq(Table) /\ todo \in Seq(Table) /\ Table \subseteq Int
        /\ Len(listed) \in Nat /\ Len(todo) \in Nat /\ Len(out) \in Nat
        /\ T!Cap \in Nat /\ T!Cap > 0 /\ at \in 1..(Len(todo) + 1)
    BY SchemaCap, SchemaAssumption DEF SchemaShape
  <1>1. T!TypeOK
    BY <1>t DEF SchemaShape, SchemaCut, SchemaDescribed, T!TypeOK
  <1>2. T!OnlyFailuresSkipped
    <2>1. SUFFICES ASSUME sPc = "ok", NEW i \in 1..Len(todo)
                   PROVE  todo[i] \in T!Described \/ <<todo[i], "columns">> \in sFailed
      BY DEF T!OnlyFailuresSkipped
    <2>2. i \in 1..(at - 1)
      BY <2>1, <1>t DEF SchemaDescribed
    <2>3. QED
      BY <2>2 DEF SchemaDescribed, T!Described
  <1>7. T!CountTellsSkips
    <2>1. SUFFICES ASSUME sPc = "ok"
                   PROVE  Len(out) = Len(listed) <=>
                            /\ ~(Len(listed) > T!Cap)
                            /\ \A i \in 1..Len(listed) : <<listed[i], "columns">> \notin sFailed
      BY DEF T!CountTellsSkips, T!TableCount, T!Truncated
    <2>2. /\ at - 1 = Len(todo) /\ Len(out) <= Len(todo)
          /\ Len(out) = Len(todo) <=> \A i \in 1..Len(todo) : <<todo[i], "columns">> \notin sFailed
      <3>1. at - 1 = Len(todo) /\ Len(out) < at
        BY <2>1, <1>t DEF SchemaDescribed, SchemaCounted
      <3>2. Len(out) = at - 1 <=> \A i \in 1..(at - 1) : <<todo[i], "columns">> \notin sFailed
        BY DEF SchemaCounted
      <3>3. QED
        BY <3>1, <3>2, <1>t
    <2>3. CASE Len(listed) > T!Cap
      BY <2>2, <2>3, <1>t DEF SchemaCut
    <2>4. CASE ~(Len(listed) > T!Cap)
      <3>1. Len(todo) = Len(listed) /\ \A i \in 1..Len(listed) : todo[i] = listed[i]
        BY <2>4, <1>t DEF SchemaCut
      <3>2. QED
        BY <2>2, <2>4, <3>1
    <2>5. QED
      BY <2>3, <2>4
  <1>3. T!DescribedInOrder
    <2>1. SUFFICES ASSUME NEW i \in 1..Len(out), NEW j \in 1..Len(out), i < j
                   PROVE  \E k, l \in 1..Len(todo) :
                            k < l /\ todo[k] = out[i].table /\ todo[l] = out[j].table
      BY DEF T!DescribedInOrder
    <2>2. PICK k \in 1..(at - 1), l \in 1..(at - 1) : todo[k] = out[i].table /\ todo[l] = out[j].table
      BY DEF SchemaDescribed
    <2>3. k \in 1..Len(todo) /\ l \in 1..Len(todo) /\ k \in 1..Len(listed) /\ l \in 1..Len(listed)
      BY <1>t DEF SchemaCut
    <2>4. todo[k] < todo[l] /\ todo[k] \in Int /\ todo[l] \in Int
      <3>1. out[i].table < out[j].table
        BY <2>1 DEF SchemaDescribed
      <3>2. todo[k] \in Table /\ todo[l] \in Table
        BY <2>3, <1>t
      <3>3. QED
        BY <2>2, <3>1, <3>2, <1>t
    <2>5. ~(l < k) /\ l # k
      <3>1. todo[k] = listed[k] /\ todo[l] = listed[l]
        BY <2>3 DEF SchemaCut
      <3>2. l < k => listed[l] < listed[k]
        BY <2>3 DEF SchemaCut
      <3>3. QED
        BY <2>4, <3>1, <3>2
    <2>6. k < l
      BY <2>3, <2>5
    <2>7. QED
      BY <2>2, <2>3, <2>6
  <1>4. T!TruncatedIsTrue
    <2>1. CASE Len(listed) > T!Cap
      <3>1. T!Cap + 1 \in 1..Len(listed) /\ Len(todo) = T!Cap
        BY <2>1, <1>t DEF SchemaCut
      <3>2. \A k \in 1..Len(todo) : todo[k] = listed[k] /\ listed[k] < listed[T!Cap + 1]
        BY <3>1, <1>t DEF SchemaCut
      <3>3. \A k \in 1..Len(todo) : todo[k] # listed[T!Cap + 1]
        <4>1. SUFFICES ASSUME NEW k \in 1..Len(todo) PROVE todo[k] # listed[T!Cap + 1]
          OBVIOUS
        <4>2. listed[T!Cap + 1] \in Int
          <5>1. \A n \in 1..Len(listed) : listed[n] \in Table
            BY <1>t
          <5>2. QED
            BY <3>1, <5>1, <1>t
        <4>3. QED
          BY <3>2, <4>2
      <3>4. QED
        BY <2>1, <3>1, <3>3 DEF T!TruncatedIsTrue, T!Truncated, T!Contains
    <2>2. CASE ~(Len(listed) > T!Cap)
      <3>1. Len(todo) = Len(listed) /\ \A i \in 1..Len(listed) : todo[i] = listed[i]
        BY <2>2, <1>t DEF SchemaCut
      <3>2. QED
        BY <2>2, <3>1 DEF T!TruncatedIsTrue, T!Truncated, T!Contains
    <2>3. QED
      BY <2>1, <2>2
  <1>5. T!KeysLostOnlyAtTheEnd
    <2>1. SUFFICES ASSUME sPc = "ok", NEW i \in 1..Len(out), ~out[i].keys
                   PROVE  <<out[i].table, "keys">> \in sFailed \/ out[i].table = T!Last(todo)
      BY DEF T!KeysLostOnlyAtTheEnd
    <2>2. at - 1 = Len(todo)
      BY <2>1, <1>t DEF SchemaDescribed
    <2>3. QED
      BY <2>1, <2>2 DEF SchemaDescribed, T!Last
  <1>6. QED
    BY <1>1, <1>2, <1>3, <1>4, <1>5, <1>7

-----------------------------------------------------------------------------
(* Documents as a table (MongoDocuments). *)

Element == [field : Field, type : ValueType]

DocumentShape ==
  /\ docs \in Seq(Seq(Element)) /\ order \in Seq(Field)
  /\ tally \in [Field -> [seen : Nat, null : BOOLEAN, types : SUBSET ValueType]]

\* No field is twice in a document (NewElement), nor in the order.
DocumentDistinct ==
  /\ \A i \in 1..Len(docs) : \A d, e \in 1..Len(docs[i]) :
       docs[i][d].field = docs[i][e].field => d = e
  /\ \A i, j \in 1..Len(order) : order[i] = order[j] => i = j

\* The order holds the fields of all documents, each after those seen before it.
DocumentOrdered ==
  /\ \A i \in 1..Len(order) : \E j \in 1..Len(docs) : order[i] \in D!FieldsOf(docs[j])
  /\ \A j \in 1..Len(docs) : \A d \in 1..Len(docs[j]) :
       \E i \in 1..Len(order) : order[i] = docs[j][d].field
  /\ \A i, j \in 1..Len(order) : i < j => D!FirstSeenBefore(order[i], order[j])

Holders(f) == {d \in 1..Len(docs) : D!ValueOf(docs[d], f) # "missing"}

Values(f) == {D!ValueOf(docs[d], f) : d \in 1..Len(docs)}

\* The account of a field is that of all documents.
DocumentTallied ==
  \A f \in Field :
    /\ tally[f].seen = Cardinality(Holders(f))
    /\ tally[f].null <=> "null" \in Values(f)
    /\ tally[f].types = Values(f) \ {"missing", "null"}

DocumentInv == DocumentShape /\ DocumentDistinct /\ DocumentOrdered /\ DocumentTallied

LEMMA ValueIsOfField ==
  ASSUME NEW doc \in Seq(Element), NEW i \in 1..Len(doc),
         \A d, e \in 1..Len(doc) : doc[d].field = doc[e].field => d = e
  PROVE  D!ValueOf(doc, doc[i].field) = doc[i].type
  <1>1. doc[i].field \in D!FieldsOf(doc)
    BY DEF D!FieldsOf
  <1> DEFINE c == CHOOSE d \in 1..Len(doc) : doc[d].field = doc[i].field
  <1>2. c \in 1..Len(doc) /\ doc[c].field = doc[i].field
    OBVIOUS
  <1>3. c = i
    BY <1>2
  <1>4. QED
    BY <1>1, <1>3 DEF D!ValueOf

LEMMA NoValueIsMissing ==
  ASSUME NEW doc, NEW f, f \notin D!FieldsOf(doc)
  PROVE  D!ValueOf(doc, f) = "missing"
  BY DEF D!ValueOf, D!Missing

LEMMA ValueIsOfType ==
  ASSUME NEW doc \in Seq(Element), NEW f
  PROVE  /\ D!ValueOf(doc, f) # "missing" <=> f \in D!FieldsOf(doc)
         /\ f \in D!FieldsOf(doc) => D!ValueOf(doc, f) \in ValueType
  <1>1. CASE f \notin D!FieldsOf(doc)
    BY <1>1 DEF D!ValueOf, D!Missing
  <1>2. CASE f \in D!FieldsOf(doc)
    <2> DEFINE c == CHOOSE d \in 1..Len(doc) : doc[d].field = f
    <2>1. c \in 1..Len(doc)
      BY <1>2 DEF D!FieldsOf
    <2>2. doc[c].type \in ValueType
      <3>1. \A d \in 1..Len(doc) : doc[d] \in Element
        OBVIOUS
      <3>2. doc[c] \in Element
        BY <2>1, <3>1
      <3>3. QED
        BY <3>2 DEF Element
    <2>3. QED
      BY <1>2, <2>2, DocumentAssumption DEF D!ValueOf
  <1>3. QED
    BY <1>1, <1>2

LEMMA DocumentInitInv == D!Init => DocumentInv
  <1> SUFFICES ASSUME D!Init PROVE DocumentInv
    OBVIOUS
  <1>1. /\ docs = <<>> /\ order = <<>> /\ Len(docs) = 0 /\ Len(order) = 0
        /\ docs \in Seq(Seq(Element)) /\ order \in Seq(Field)
        /\ tally = [f \in Field |-> [seen |-> 0, null |-> FALSE, types |-> {}]]
    BY DEF D!Init, D!NothingSeen
  <1>2. DocumentShape
    BY <1>1 DEF DocumentShape
  <1>3. DocumentDistinct /\ DocumentOrdered
    BY <1>1 DEF DocumentDistinct, DocumentOrdered
  <1>4. DocumentTallied
    <2>1. \A f \in Field : Holders(f) = {} /\ Values(f) = {}
      BY <1>1 DEF Holders, Values
    <2>2. QED
      BY <1>1, <2>1, FS_EmptySet DEF DocumentTallied
  <1>5. QED
    BY <1>2, <1>3, <1>4 DEF DocumentInv

LEMMA HoldersAreFinite == ASSUME DocumentShape, NEW f PROVE IsFiniteSet(Holders(f))
  <1>1. Len(docs) \in Nat
    BY DEF DocumentShape
  <1>2. IsFiniteSet(1..Len(docs)) /\ Holders(f) \subseteq 1..Len(docs)
    BY <1>1, FS_Interval DEF Holders
  <1>3. QED
    BY <1>2, FS_Subset

\* A document of which nothing has been read yet.
LEMMA DocumentStep == DocumentInv /\ D!NewDocument => DocumentInv'
  <1> SUFFICES ASSUME DocumentInv, D!NewDocument PROVE DocumentInv'
    OBVIOUS
  <1>1. docs' = Append(docs, <<>>) /\ order' = order /\ tally' = tally
    BY DEF D!NewDocument
  <1>2. docs \in Seq(Seq(Element)) /\ Len(docs) \in Nat
    BY DEF DocumentInv, DocumentShape
  <1>3. /\ docs' \in Seq(Seq(Element)) /\ Len(docs') = Len(docs) + 1
        /\ \A i \in 1..Len(docs) : docs'[i] = docs[i]
        /\ docs'[Len(docs) + 1] = <<>> /\ Len(docs'[Len(docs) + 1]) = 0
    BY <1>1, <1>2
  <1>4. \A i \in 1..Len(docs') : i \in 1..Len(docs) \/ i = Len(docs) + 1
    BY <1>2, <1>3
  <1>5. DocumentShape'
    BY <1>1, <1>3 DEF DocumentInv, DocumentShape
  <1>6. DocumentDistinct'
    BY <1>1, <1>3, <1>4 DEF DocumentInv, DocumentDistinct
  <1>7. DocumentOrdered'
    <2>1. \A i \in 1..Len(docs) : i \in 1..Len(docs')
      BY <1>2, <1>3
    <2>2. \A i \in 1..Len(order) : \E j \in 1..Len(docs') : order[i] \in D!FieldsOf(docs'[j])
      BY <1>3, <2>1 DEF DocumentInv, DocumentOrdered
    <2>3. \A j \in 1..Len(docs') : \A d \in 1..Len(docs'[j]) :
            \E i \in 1..Len(order) : order[i] = docs'[j][d].field
      <3>1. SUFFICES ASSUME NEW j \in 1..Len(docs'), NEW d \in 1..Len(docs'[j])
                     PROVE  \E i \in 1..Len(order) : order[i] = docs'[j][d].field
        OBVIOUS
      <3>2. j \in 1..Len(docs)
        BY <1>3, <1>4
      <3>3. QED
        BY <1>3, <3>2 DEF DocumentInv, DocumentOrdered
    <2>4. ASSUME NEW f, NEW g, D!FirstSeenBefore(f, g) PROVE D!FirstSeenBefore(f, g)'
      <3>1. PICK i \in 1..Len(docs) : \E d \in 1..Len(docs[i]) :
              /\ docs[i][d].field = f
              /\ \A j \in 1..Len(docs) : \A e \in 1..Len(docs[j]) :
                   docs[j][e].field = g => i < j \/ (i = j /\ d < e)
        BY <2>4 DEF D!FirstSeenBefore
      <3>2. PICK d \in 1..Len(docs[i]) :
              /\ docs[i][d].field = f
              /\ \A j \in 1..Len(docs) : \A e \in 1..Len(docs[j]) :
                   docs[j][e].field = g => i < j \/ (i = j /\ d < e)
        BY <3>1
      <3>3. i \in 1..Len(docs') /\ d \in 1..Len(docs'[i]) /\ docs'[i][d].field = f
        BY <1>3, <2>1, <3>2
      <3>4. ASSUME NEW j \in 1..Len(docs'), NEW e \in 1..Len(docs'[j]), docs'[j][e].field = g
            PROVE  i < j \/ (i = j /\ d < e)
        <4>1. j \in 1..Len(docs)
          <5>1. 1..Len(docs'[Len(docs) + 1]) = {}
            BY <1>3
          <5>2. j # Len(docs) + 1
            BY <5>1
          <5>3. QED
            BY <5>2, <1>4
        <4>2. docs'[j] = docs[j]
          BY <4>1, <1>3
        <4>3. QED
          BY <3>2, <3>4, <4>1, <4>2
      <3>5. QED
        BY <3>3, <3>4 DEF D!FirstSeenBefore
    <2>5. QED
      BY <1>1, <2>2, <2>3, <2>4 DEF DocumentInv, DocumentOrdered
  <1>8. DocumentTallied'
    <2>1. SUFFICES ASSUME NEW f \in Field
                   PROVE  /\ tally[f].seen = Cardinality(Holders(f)')
                          /\ tally[f].null <=> "null" \in Values(f)'
                          /\ tally[f].types = Values(f)' \ {"missing", "null"}
      BY <1>1 DEF DocumentTallied
    <2>2. D!ValueOf(docs'[Len(docs) + 1], f) = "missing"
      BY <1>3 DEF D!ValueOf, D!FieldsOf, D!Missing
    <2>3. Holders(f)' = Holders(f)
      BY <1>2, <1>3, <1>4, <2>2 DEF Holders
    <2>4. Values(f)' = Values(f) \cup {"missing"}
      <3>1. Len(docs) + 1 \in 1..Len(docs') /\ \A d \in 1..Len(docs) : d \in 1..Len(docs')
        BY <1>2, <1>3
      <3>2. \A v \in Values(f)' : v \in Values(f) \cup {"missing"}
        BY <1>3, <1>4, <2>2 DEF Values
      <3>3. \A v \in Values(f) \cup {"missing"} : v \in Values(f)'
        BY <1>3, <2>2, <3>1 DEF Values
      <3>4. QED
        BY <3>2, <3>3
    <2>5. QED
      BY <2>3, <2>4 DEF DocumentInv, DocumentTallied
  <1>9. QED
    BY <1>5, <1>6, <1>7, <1>8 DEF DocumentInv

\* One element more at the end of the last document.
LEMMA ElementStep ==
  ASSUME DocumentInv, NEW field \in Field, NEW type \in ValueType, D!NewElement(field, type)
  PROVE  DocumentInv'
  <1> DEFINE n == Len(docs)
             m == Len(docs[n])
             el == [field |-> field, type |-> type]
  <1>1. /\ docs # <<>> /\ field \notin D!FieldsOf(docs[n])
        /\ docs' = [docs EXCEPT ![n] = Append(docs[n], el)]
        /\ order' = IF field \in D!ToSet(order) THEN order ELSE Append(order, field)
        /\ tally' = [tally EXCEPT ![field] = D!Counted(tally[field], type)]
    BY DEF D!NewElement
  <1>2. /\ docs \in Seq(Seq(Element)) /\ n \in Nat /\ n > 0 /\ n \in 1..n
        /\ order \in Seq(Field) /\ Len(order) \in Nat
    BY <1>1 DEF DocumentInv, DocumentShape
  <1>3. docs[n] \in Seq(Element) /\ m \in Nat /\ el \in Element
    <2>1. \A i \in 1..n : docs[i] \in Seq(Element)
      BY <1>2
    <2>2. QED
      BY <1>2, <2>1 DEF Element
  <1>4. /\ docs' \in Seq(Seq(Element)) /\ Len(docs') = n
        /\ \A i \in 1..n : i # n => docs'[i] = docs[i]
        /\ docs'[n] = Append(docs[n], el)
    <2>1. Append(docs[n], el) \in Seq(Element)
      BY <1>3
    <2>2. QED
      BY <1>1, <1>2, <2>1
  <1>5. /\ docs'[n] \in Seq(Element) /\ Len(docs'[n]) = m + 1
        /\ \A d \in 1..m : docs'[n][d] = docs[n][d]
        /\ docs'[n][m + 1] = el /\ el.field = field /\ el.type = type
    BY <1>3, <1>4
  <1>6. \A d \in 1..(m + 1) : d \in 1..m \/ d = m + 1
    BY <1>3
  <1>7. \A d \in 1..m : docs[n][d].field # field
    BY <1>1 DEF D!FieldsOf
  \* every place of the documents is an old one or the new one
  <1>8. ASSUME NEW j \in 1..n, NEW e \in 1..Len(docs'[j])
        PROVE  \/ e \in 1..Len(docs[j]) /\ docs'[j][e] = docs[j][e]
               \/ j = n /\ e = m + 1 /\ docs'[j][e] = el
    <2>1. CASE j # n
      BY <2>1, <1>4
    <2>2. CASE j = n
      BY <2>2, <1>5, <1>6
    <2>3. QED
      BY <2>1, <2>2
  <1>9. ASSUME NEW j \in 1..n, NEW e \in 1..Len(docs[j])
        PROVE  e \in 1..Len(docs'[j]) /\ docs'[j][e] = docs[j][e]
    <2>1. CASE j # n
      BY <2>1, <1>4
    <2>2. CASE j = n
      BY <2>2, <1>3, <1>5
    <2>3. QED
      BY <2>1, <2>2
  <1>o. /\ \A i \in 1..Len(order') :
               \/ i \in 1..Len(order) /\ order'[i] = order[i]
               \/ i = Len(order) + 1 /\ order'[i] = field /\ field \notin D!ToSet(order)
        /\ \A i \in 1..Len(order) : i \in 1..Len(order') /\ order'[i] = order[i]
        /\ \E i \in 1..Len(order') : order'[i] = field
    <2>1. CASE field \in D!ToSet(order)
      BY <2>1, <1>1, <1>2 DEF D!ToSet
    <2>2. CASE field \notin D!ToSet(order)
      <3>1. /\ Len(order') = Len(order) + 1 /\ order'[Len(order) + 1] = field
            /\ \A i \in 1..Len(order) : order'[i] = order[i]
        BY <2>2, <1>1, <1>2
      <3>2. Len(order) + 1 \in 1..Len(order')
        BY <3>1, <1>2
      <3>3. \A i \in 1..Len(order') : i \in 1..Len(order) \/ i = Len(order) + 1
        BY <3>1, <1>2
      <3>4. \A i \in 1..Len(order) : i \in 1..Len(order')
        BY <3>1, <1>2
      <3>5. QED
        BY <2>2, <3>1, <3>2, <3>3, <3>4
    <2>3. QED
      BY <2>1, <2>2
  <1>10. DocumentShape'
    <2>1. order' \in Seq(Field)
      BY <1>1, <1>2
    <2>2. D!Counted(tally[field], type) \in [seen : Nat, null : BOOLEAN, types : SUBSET ValueType]
      BY DEF DocumentInv, DocumentShape, D!Counted, D!Null
    <2>3. tally' \in [Field -> [seen : Nat, null : BOOLEAN, types : SUBSET ValueType]]
      BY <1>1, <2>2 DEF DocumentInv, DocumentShape
    <2>4. QED
      BY <1>4, <2>1, <2>3 DEF DocumentShape
  <1>11. DocumentDistinct'
    <2>1. ASSUME NEW i \in 1..n, NEW d \in 1..Len(docs'[i]), NEW e \in 1..Len(docs'[i]),
                 docs'[i][d].field = docs'[i][e].field
          PROVE  d = e
      <3>1. CASE d \in 1..Len(docs[i]) /\ e \in 1..Len(docs[i])
        BY <2>1, <3>1, <1>9 DEF DocumentInv, DocumentDistinct
      <3>2. CASE i = n /\ d = m + 1
        BY <2>1, <3>2, <1>5, <1>7, <1>8
      <3>3. CASE i = n /\ e = m + 1
        BY <2>1, <3>3, <1>5, <1>7, <1>8
      <3>4. QED
        BY <3>1, <3>2, <3>3, <1>8
    <2>2. \A i, j \in 1..Len(order') : order'[i] = order'[j] => i = j
      <3>1. \A i \in 1..Len(order) : field \notin D!ToSet(order) => order[i] # field
        BY <1>2 DEF D!ToSet
      <3>2. QED
        BY <1>o, <3>1 DEF DocumentInv, DocumentDistinct
    <2>3. QED
      BY <2>1, <2>2, <1>4 DEF DocumentDistinct
  <1>12. DocumentOrdered'
    <2>1. ASSUME NEW i \in 1..Len(order') PROVE \E j \in 1..n : order'[i] \in D!FieldsOf(docs'[j])
      <3>1. CASE i \in 1..Len(order) /\ order'[i] = order[i]
        <4>1. PICK j \in 1..n : order[i] \in D!FieldsOf(docs[j])
          BY <3>1 DEF DocumentInv, DocumentOrdered
        <4>2. PICK d \in 1..Len(docs[j]) : order[i] = docs[j][d].field
          BY <4>1 DEF D!FieldsOf
        <4>3. order'[i] \in D!FieldsOf(docs'[j])
          BY <3>1, <4>2, <1>9 DEF D!FieldsOf
        <4>4. QED
          BY <4>3
      <3>2. CASE order'[i] = field
        <4>1. m + 1 \in 1..Len(docs'[n])
          BY <1>3, <1>5
        <4>2. field \in D!FieldsOf(docs'[n])
          BY <4>1, <1>5 DEF D!FieldsOf
        <4>3. QED
          BY <3>2, <4>2, <1>2
      <3>3. QED
        BY <3>1, <3>2, <1>o
    <2>2. ASSUME NEW j \in 1..n, NEW d \in 1..Len(docs'[j])
          PROVE  \E i \in 1..Len(order') : order'[i] = docs'[j][d].field
      <3>1. CASE d \in 1..Len(docs[j]) /\ docs'[j][d] = docs[j][d]
        <4>1. PICK i \in 1..Len(order) : order[i] = docs[j][d].field
          BY <3>1 DEF DocumentInv, DocumentOrdered
        <4>2. QED
          BY <3>1, <4>1, <1>o
      <3>2. CASE docs'[j][d] = el
        BY <3>2, <1>o
      <3>3. QED
        BY <3>1, <3>2, <1>8
    <2>3. ASSUME NEW k \in 1..Len(order'), NEW l \in 1..Len(order'), k < l
          PROVE  \E i \in 1..n : \E d \in 1..Len(docs'[i]) :
                   /\ docs'[i][d].field = order'[k]
                   /\ \A j \in 1..n : \A e \in 1..Len(docs'[j]) :
                        docs'[j][e].field = order'[l] => i < j \/ (i = j /\ d < e)
      <3> DEFINE f == order'[k]
                 g == order'[l]
      <3>1. k \in 1..Len(order) /\ f = order[k]
        <4>1. k # Len(order) + 1
          <5>1. l <= Len(order) + 1
            <6>1. l \in 1..Len(order) \/ l = Len(order) + 1
              BY <1>o
            <6>2. QED
              BY <6>1, <1>2
          <5>2. QED
            BY <2>3, <5>1, <1>2
        <4>2. QED
          BY <2>3, <4>1, <1>o
      <3>2. PICK i \in 1..n : \E d \in 1..Len(docs[i]) :
              /\ docs[i][d].field = f
              /\ \A j \in 1..n : \A e \in 1..Len(docs[j]) :
                   docs[j][e].field = g => i < j \/ (i = j /\ d < e)
        <4>1. CASE l \in 1..Len(order) /\ g = order[l]
          <5>1. D!FirstSeenBefore(order[k], order[l])
            BY <2>3, <3>1, <4>1 DEF DocumentInv, DocumentOrdered
          <5>2. D!FirstSeenBefore(f, g)
            BY <3>1, <4>1, <5>1
          <5>3. QED
            BY <5>2 DEF D!FirstSeenBefore
        <4>2. CASE g = field /\ field \notin D!ToSet(order)
          <5>1. PICK i \in 1..n : order[k] \in D!FieldsOf(docs[i])
            BY <3>1 DEF DocumentInv, DocumentOrdered
          <5>2. PICK d \in 1..Len(docs[i]) : docs[i][d].field = f
            BY <3>1, <5>1 DEF D!FieldsOf
          <5>3. \A j \in 1..n : \A e \in 1..Len(docs[j]) : docs[j][e].field # g
            <6>1. \A j \in 1..Len(order) : order[j] # field
              BY <4>2, <1>2 DEF D!ToSet
            <6>2. QED
              BY <4>2, <6>1 DEF DocumentInv, DocumentOrdered
          <5>4. /\ docs[i][d].field = f
                /\ \A j \in 1..n : \A e \in 1..Len(docs[j]) :
                     docs[j][e].field = g => i < j \/ (i = j /\ d < e)
            <6>1. \A j \in 1..n : \A e \in 1..Len(docs[j]) :
                     docs[j][e].field = g => i < j \/ (i = j /\ d < e)
              BY <5>3, Zenon
            <6>2. QED
              BY <5>2, <6>1
          <5>5. QED
            BY <5>4, Zenon
        <4>3. QED
          BY <2>3, <4>1, <4>2, <1>o
      <3>3. PICK d \in 1..Len(docs[i]) :
              /\ docs[i][d].field = f
              /\ \A j \in 1..n : \A e \in 1..Len(docs[j]) :
                   docs[j][e].field = g => i < j \/ (i = j /\ d < e)
        BY <3>2
      <3>4. d \in 1..Len(docs'[i]) /\ docs'[i][d].field = f
        BY <3>3, <1>9
      <3>5. ASSUME NEW j \in 1..n, NEW e \in 1..Len(docs'[j]), docs'[j][e].field = g
            PROVE  i < j \/ (i = j /\ d < e)
        <4>1. CASE e \in 1..Len(docs[j]) /\ docs'[j][e] = docs[j][e]
          BY <3>3, <3>5, <4>1
        <4>2. CASE j = n /\ e = m + 1
          BY <4>2, <1>2, <1>3
        <4>3. QED
          BY <4>1, <4>2, <1>8
      <3>6. QED
        BY <3>4, <3>5
    <2>4. \A i, j \in 1..Len(order') : i < j => D!FirstSeenBefore(order[i], order[j])'
      <3>1. SUFFICES ASSUME NEW k \in 1..Len(order'), NEW l \in 1..Len(order'), k < l
                     PROVE  D!FirstSeenBefore(order[k], order[l])'
        OBVIOUS
      <3>2. \E i \in 1..n : \E d \in 1..Len(docs'[i]) :
              /\ docs'[i][d].field = order'[k]
              /\ \A j \in 1..n : \A e \in 1..Len(docs'[j]) :
                   docs'[j][e].field = order'[l] => i < j \/ (i = j /\ d < e)
        BY <2>3, <3>1
      <3>3. QED
        BY <3>2, <1>4 DEF D!FirstSeenBefore
    <2>5. QED
      BY <2>1, <2>2, <2>4, <1>4 DEF DocumentOrdered
  <1>13. DocumentTallied'
    <2>1. SUFFICES ASSUME NEW f \in Field
                   PROVE  /\ tally'[f].seen = Cardinality(Holders(f)')
                          /\ tally'[f].null <=> "null" \in Values(f)'
                          /\ tally'[f].types = Values(f)' \ {"missing", "null"}
      BY DEF DocumentTallied
    <2>2. \A j \in 1..n : j # n => D!ValueOf(docs'[j], f) = D!ValueOf(docs[j], f)
      BY <1>4
    <2>3. CASE f # field
      <3>1. D!ValueOf(docs'[n], f) = D!ValueOf(docs[n], f)
        <4>1. CASE f \notin D!FieldsOf(docs[n])
          <5>1. f \notin D!FieldsOf(docs'[n])
            BY <2>3, <4>1, <1>2, <1>5, <1>8 DEF D!FieldsOf
          <5>2. QED
            BY <4>1, <5>1, NoValueIsMissing
        <4>2. CASE f \in D!FieldsOf(docs[n])
          <5>1. PICK d \in 1..m : docs[n][d].field = f
            BY <4>2 DEF D!FieldsOf
          <5>2. D!ValueOf(docs[n], f) = docs[n][d].type
            BY <5>1, <1>2, <1>3, ValueIsOfField DEF DocumentInv, DocumentDistinct
          <5>3. d \in 1..Len(docs'[n]) /\ docs'[n][d] = docs[n][d]
            BY <1>2, <1>9
          <5>4. \A i, e \in 1..Len(docs'[n]) : docs'[n][i].field = docs'[n][e].field => i = e
            BY <1>2, <1>4, <1>11 DEF DocumentDistinct
          <5>5. D!ValueOf(docs'[n], docs'[n][d].field) = docs'[n][d].type
            BY <1>5, <5>3, <5>4, ValueIsOfField
          <5>6. QED
            BY <5>1, <5>2, <5>3, <5>5
        <4>3. QED
          BY <4>1, <4>2
      <3>2. \A j \in 1..n : D!ValueOf(docs'[j], f) = D!ValueOf(docs[j], f)
        BY <2>2, <3>1
      <3>3. Holders(f)' = Holders(f) /\ Values(f)' = Values(f)
        BY <3>2, <1>4 DEF Holders, Values
      <3>4. tally'[f] = tally[f]
        BY <2>3, <1>1 DEF DocumentInv, DocumentShape
      <3>5. QED
        BY <3>3, <3>4 DEF DocumentInv, DocumentTallied
    <2>4. CASE f = field
      <3>1. D!ValueOf(docs[n], f) = "missing"
        BY <2>4, <1>1, NoValueIsMissing
      <3>2. D!ValueOf(docs'[n], f) = type
        <4>1. \A i, e \in 1..Len(docs'[n]) : docs'[n][i].field = docs'[n][e].field => i = e
          BY <1>2, <1>4, <1>11 DEF DocumentDistinct
        <4>2. m + 1 \in 1..Len(docs'[n])
          BY <1>3, <1>5
        <4>3. D!ValueOf(docs'[n], docs'[n][m + 1].field) = docs'[n][m + 1].type
          BY <1>5, <4>1, <4>2, ValueIsOfField
        <4>4. QED
          BY <2>4, <4>3, <1>5
      <3>3. type # "missing"
        BY DocumentAssumption
      <3>4. Holders(f)' = Holders(f) \cup {n} /\ n \notin Holders(f)
        BY <2>2, <3>1, <3>2, <3>3, <1>2, <1>4 DEF Holders
      <3>5. Cardinality(Holders(f)') = Cardinality(Holders(f)) + 1
        BY <3>4, HoldersAreFinite, FS_AddElement DEF DocumentInv
      <3>6. Values(f)' \ {"missing"} = (Values(f) \ {"missing"}) \cup {type}
        <4>1. ASSUME NEW v \in Values(f)', v # "missing"
              PROVE  v \in (Values(f) \ {"missing"}) \cup {type}
          BY <4>1, <2>2, <3>2, <1>4 DEF Values
        <4>2. type \in Values(f)'
          BY <3>2, <1>2, <1>4 DEF Values
        <4>3. ASSUME NEW v \in Values(f), v # "missing" PROVE v \in Values(f)'
          <5>1. PICK j \in 1..n : v = D!ValueOf(docs[j], f)
            BY DEF Values
          <5>2. j # n
            BY <4>3, <5>1, <3>1
          <5>3. QED
            BY <5>1, <5>2, <2>2, <1>4 DEF Values
        <4>4. QED
          BY <4>1, <4>2, <4>3, <3>3
      <3>7. tally'[f] = D!Counted(tally[f], type)
        BY <2>4, <1>1 DEF DocumentInv, DocumentShape
      <3>8. /\ tally[f].seen = Cardinality(Holders(f))
            /\ tally[f].null <=> "null" \in Values(f)
            /\ tally[f].types = Values(f) \ {"missing", "null"}
            /\ tally[f].null \in BOOLEAN
        BY DEF DocumentInv, DocumentTallied, DocumentShape
      <3>9. tally'[f].seen = Cardinality(Holders(f)')
        BY <3>5, <3>7, <3>8 DEF D!Counted
      <3>10. tally'[f].null <=> "null" \in Values(f)'
        <4>1. tally'[f].null = (tally[f].null \/ type = "null")
          BY <3>7 DEF D!Counted, D!Null
        <4>2. "null" \in Values(f)' <=> "null" \in Values(f) \/ type = "null"
          BY <3>6
        <4>3. QED
          BY <3>8, <4>1, <4>2
      <3>11. tally'[f].types = Values(f)' \ {"missing", "null"}
        BY <3>6, <3>7, <3>8 DEF D!Counted, D!Null
      <3>12. QED
        BY <3>9, <3>10, <3>11
    <2>5. QED
      BY <2>3, <2>4
  <1>14. QED
    BY <1>10, <1>11, <1>12, <1>13 DEF DocumentInv

LEMMA DocumentStepInv == DocumentInv /\ [D!Next]_(D!vars) => DocumentInv'
  <1> SUFFICES ASSUME DocumentInv, [D!Next]_(D!vars) PROVE DocumentInv'
    OBVIOUS
  <1>1. CASE D!NewDocument
    BY <1>1, DocumentStep
  <1>2. ASSUME NEW field \in Field, NEW type \in ValueType, D!NewElement(field, type) PROVE DocumentInv'
    BY <1>2, ElementStep
  <1>3. CASE UNCHANGED D!vars
    <2>1. docs' = docs /\ order' = order /\ tally' = tally
      BY <1>3 DEF D!vars
    <2>2. DocumentShape' /\ DocumentDistinct'
      BY <2>1 DEF DocumentInv, DocumentShape, DocumentDistinct
    <2>3. DocumentOrdered'
      <3>1. \A i, j \in 1..Len(order') : i < j => D!FirstSeenBefore(order[i], order[j])'
        <4>1. SUFFICES ASSUME NEW i \in 1..Len(order), NEW j \in 1..Len(order), i < j
                       PROVE  D!FirstSeenBefore(order[i], order[j])'
          BY <2>1
        <4>2. D!FirstSeenBefore(order[i], order[j])
          BY <4>1 DEF DocumentInv, DocumentOrdered
        <4>3. QED
          BY <2>1, <4>2 DEF D!FirstSeenBefore
      <3>2. QED
        BY <2>1, <3>1 DEF DocumentInv, DocumentOrdered
    <2>4. DocumentTallied'
      BY <2>1 DEF DocumentInv, DocumentTallied, Holders, Values
    <2>5. QED
      BY <2>2, <2>3, <2>4 DEF DocumentInv
  <1>4. QED
    BY <1>1, <1>2, <1>3 DEF D!Next

LEMMA DocumentInvAlways == D!Spec => []DocumentInv
  BY DocumentInitInv, DocumentStepInv, PTL DEF D!Spec

\* The columns are the fields in their order, _id before the others.
LEMMA ColumnsReorder ==
  ASSUME DocumentInv
  PROVE  /\ Len(D!Columns) = Len(order) /\ DOMAIN D!Columns = 1..Len(order)
         /\ \E s \in [1..Len(order) -> 1..Len(order)] :
              /\ \A i \in 1..Len(order) : D!Columns[i] = order[s[i]]
              /\ \A i, j \in 1..Len(order) : s[i] = s[j] => i = j
              /\ \A j \in 1..Len(order) : \E i \in 1..Len(order) : s[i] = j
              /\ \A i \in 1..Len(order) : D!Columns[i] = "_id" => i = 1
              /\ \A i, j \in 1..Len(order) : i < j /\ D!Columns[i] # "_id" => s[i] < s[j]
  <1> DEFINE n == Len(order)
  <1>1. n \in Nat /\ \A i, j \in 1..n : order[i] = order[j] => i = j
    BY DEF DocumentInv, DocumentShape, DocumentDistinct
  <1>2. /\ Len(D!Columns) = n /\ DOMAIN D!Columns = 1..n
        /\ \A i \in 1..n : D!Columns[i] =
             IF ~\E k \in i..n : order[k] = "_id" THEN order[i]
             ELSE IF i = 1 THEN "_id" ELSE order[i - 1]
    BY <1>1 DEF D!Columns
  <1>3. CASE ~\E k \in 1..n : order[k] = "_id"
    <2> DEFINE s == [i \in 1..n |-> i]
    <2>1. s \in [1..n -> 1..n]
      OBVIOUS
    <2>2. \A i \in 1..n : ~\E k \in i..n : order[k] = "_id"
      BY <1>1, <1>3
    <2>3. \A i \in 1..n : D!Columns[i] = order[s[i]] /\ D!Columns[i] # "_id"
      BY <1>2, <1>3, <2>2
    <2>4. QED
      BY <1>2, <2>1, <2>3
  <1>4. ASSUME NEW p \in 1..n, order[p] = "_id"
        PROVE  \E s \in [1..n -> 1..n] :
                 /\ \A i \in 1..n : D!Columns[i] = order[s[i]]
                 /\ \A i, j \in 1..n : s[i] = s[j] => i = j
                 /\ \A j \in 1..n : \E i \in 1..n : s[i] = j
                 /\ \A i \in 1..n : D!Columns[i] = "_id" => i = 1
                 /\ \A i, j \in 1..n : i < j /\ D!Columns[i] # "_id" => s[i] < s[j]
    <2> DEFINE s == [i \in 1..n |-> IF i > p THEN i ELSE IF i = 1 THEN p ELSE i - 1]
    <2>1. s \in [1..n -> 1..n]
      BY <1>1
    <2>2. \A i \in 1..n : (\E k \in i..n : order[k] = "_id") <=> i <= p
      <3>1. ASSUME NEW i \in 1..n, NEW k \in i..n, order[k] = "_id" PROVE i <= p
        <4>1. k \in 1..n
          BY <1>1
        <4>2. k = p
          BY <1>1, <1>4, <3>1, <4>1
        <4>3. QED
          BY <4>2
      <3>2. ASSUME NEW i \in 1..n, i <= p PROVE \E k \in i..n : order[k] = "_id"
        <4>1. p \in i..n
          BY <1>1, <3>2
        <4>2. QED
          BY <4>1, <1>4
      <3>3. QED
        BY <3>1, <3>2
    <2>3. \A i \in 1..n : D!Columns[i] = order[s[i]]
      <3>1. SUFFICES ASSUME NEW i \in 1..n PROVE D!Columns[i] = order[s[i]]
        OBVIOUS
      <3>2. CASE i > p
        BY <3>2, <1>2, <2>2
      <3>3. CASE i <= p
        BY <3>3, <1>2, <1>4, <2>2
      <3>4. QED
        BY <3>2, <3>3
    <2>4. \A i, j \in 1..n : s[i] = s[j] => i = j
      BY <1>1
    <2>5. ASSUME NEW j \in 1..n PROVE \E i \in 1..n : s[i] = j
      <3>1. CASE j = p
        <4>1. 1 \in 1..n /\ s[1] = p
          BY <1>1
        <4>2. QED
          BY <3>1, <4>1
      <3>2. CASE j < p
        <4>1. j + 1 \in 1..n /\ s[j + 1] = j
          BY <1>1, <3>2
        <4>2. QED
          BY <4>1
      <3>3. CASE j > p
        BY <3>3
      <3>4. QED
        BY <3>1, <3>2, <3>3
    <2>6. \A i \in 1..n : D!Columns[i] = "_id" => i = 1
      <3>1. SUFFICES ASSUME NEW i \in 1..n, D!Columns[i] = "_id" PROVE i = 1
        OBVIOUS
      <3>2. s[i] = p
        BY <3>1, <2>1, <2>3, <1>1, <1>4
      <3>3. QED
        BY <3>2, <1>1
    <2>7. \A i, j \in 1..n : i < j /\ D!Columns[i] # "_id" => s[i] < s[j]
      <3>1. SUFFICES ASSUME NEW i \in 1..n, NEW j \in 1..n, i < j, D!Columns[i] # "_id" PROVE s[i] < s[j]
        OBVIOUS
      <3>2. i # 1
        <4>1. SUFFICES ASSUME i = 1 PROVE FALSE
          OBVIOUS
        <4>2. s[i] = p
          BY <4>1, <1>1
        <4>3. QED
          BY <4>2, <2>3, <3>1, <1>4
      <3>3. QED
        BY <3>1, <3>2, <1>1
    <2>8. QED
      BY <2>1, <2>3, <2>4, <2>5, <2>6, <2>7
  <1>5. QED
    BY <1>2, <1>3, <1>4

LEMMA DocumentsLaidOut == DocumentInv => D!LaidOutAsStored
  <1> SUFFICES ASSUME DocumentInv PROVE D!LaidOutAsStored
    OBVIOUS
  <1> DEFINE n == Len(order)
  <1>1. /\ docs \in Seq(Seq(Element)) /\ Len(docs) \in Nat /\ n \in Nat
        /\ Len(D!Columns) = n
    BY ColumnsReorder DEF DocumentInv, DocumentShape
  <1>2. Len(D!DocumentsToResult.rows) = Len(docs)
    BY <1>1 DEF D!DocumentsToResult
  <1>3. ASSUME NEW i \in 1..Len(docs)
        PROVE  /\ Len(D!Row(docs[i])) = Len(D!Columns)
               /\ \A e \in 1..Len(docs[i]) :
                    \E c \in 1..Len(D!Columns) :
                      D!Columns[c] = docs[i][e].field /\ D!Row(docs[i])[c] = docs[i][e].type
               /\ \A c \in 1..Len(D!Columns) :
                    D!Columns[c] \notin D!FieldsOf(docs[i]) => D!Row(docs[i])[c] = D!Null
    <2>1. docs[i] \in Seq(Element)
      BY <1>1
    <2>2. /\ Len(D!Row(docs[i])) = n
          /\ \A c \in 1..n : D!Row(docs[i])[c] =
               IF D!ValueOf(docs[i], D!Columns[c]) = "missing" THEN "null"
               ELSE D!ValueOf(docs[i], D!Columns[c])
      BY <1>1 DEF D!Row, D!Missing, D!Null
    <2>3. ASSUME NEW e \in 1..Len(docs[i])
          PROVE  \E c \in 1..n :
                   D!Columns[c] = docs[i][e].field /\ D!Row(docs[i])[c] = docs[i][e].type
      <3>1. PICK j \in 1..n : order[j] = docs[i][e].field
        BY DEF DocumentInv, DocumentOrdered
      <3>2. PICK c \in 1..n : D!Columns[c] = docs[i][e].field
        <4>1. PICK s \in [1..n -> 1..n] :
                /\ \A k \in 1..n : D!Columns[k] = order[s[k]]
                /\ \A l \in 1..n : \E k \in 1..n : s[k] = l
          BY ColumnsReorder
        <4>2. PICK k \in 1..n : s[k] = j
          BY <4>1
        <4>3. D!Columns[k] = docs[i][e].field
          BY <3>1, <4>1, <4>2
        <4>4. QED
          BY <4>3
      <3>3. D!ValueOf(docs[i], docs[i][e].field) = docs[i][e].type
        BY <2>1, ValueIsOfField DEF DocumentInv, DocumentDistinct
      <3>4. docs[i][e].type # "missing"
        <4>1. \A d \in 1..Len(docs[i]) : docs[i][d] \in Element
          BY <2>1
        <4>2. docs[i][e].type \in ValueType
          BY <4>1 DEF Element
        <4>3. QED
          BY <4>2, DocumentAssumption
      <3>5. QED
        BY <2>2, <3>2, <3>3, <3>4
    <2>4. ASSUME NEW c \in 1..n, D!Columns[c] \notin D!FieldsOf(docs[i])
          PROVE  D!Row(docs[i])[c] = D!Null
      BY <2>2, <2>4, NoValueIsMissing DEF D!Null
    <2>5. QED
      BY <1>1, <2>2, <2>3, <2>4
  <1>4. QED
    BY <1>2, <1>3 DEF D!LaidOutAsStored

LEMMA ColumnsInOrder == DocumentInv => D!IdFirst
  <1> SUFFICES ASSUME DocumentInv PROVE D!IdFirst
    OBVIOUS
  <1> DEFINE n == Len(order)
  <1>1. n \in Nat /\ Len(D!Columns) = n /\ DOMAIN D!Columns = 1..n
    BY ColumnsReorder DEF DocumentInv, DocumentShape
  <1>2. PICK s \in [1..n -> 1..n] :
          /\ \A i \in 1..n : D!Columns[i] = order[s[i]]
          /\ \A i, j \in 1..n : s[i] = s[j] => i = j
          /\ \A j \in 1..n : \E i \in 1..n : s[i] = j
          /\ \A i \in 1..n : D!Columns[i] = "_id" => i = 1
          /\ \A i, j \in 1..n : i < j /\ D!Columns[i] # "_id" => s[i] < s[j]
    BY ColumnsReorder
  <1>3. \A i, j \in 1..n : D!Columns[i] = D!Columns[j] => i = j
    <2>1. SUFFICES ASSUME NEW i \in 1..n, NEW j \in 1..n, D!Columns[i] = D!Columns[j] PROVE i = j
      OBVIOUS
    <2>2. order[s[i]] = order[s[j]] /\ s[i] \in 1..n /\ s[j] \in 1..n
      BY <1>2, <2>1
    <2>3. s[i] = s[j]
      BY <2>2 DEF DocumentInv, DocumentDistinct
    <2>4. QED
      BY <1>2, <2>3
  <1>4. D!ToSet(D!Columns) = UNION {D!FieldsOf(docs[i]) : i \in 1..Len(docs)}
    <2>1. ASSUME NEW f \in D!ToSet(D!Columns) PROVE \E i \in 1..Len(docs) : f \in D!FieldsOf(docs[i])
      <3>1. PICK c \in 1..n : f = D!Columns[c]
        BY <1>1 DEF D!ToSet
      <3>2. f = order[s[c]] /\ s[c] \in 1..n
        BY <1>2, <3>1
      <3>3. QED
        BY <3>2 DEF DocumentInv, DocumentOrdered
    <2>2. ASSUME NEW i \in 1..Len(docs), NEW f \in D!FieldsOf(docs[i]) PROVE f \in D!ToSet(D!Columns)
      <3>1. PICK d \in 1..Len(docs[i]) : f = docs[i][d].field
        BY DEF D!FieldsOf
      <3>2. PICK j \in 1..n : order[j] = f
        BY <3>1 DEF DocumentInv, DocumentOrdered
      <3>3. PICK c \in 1..n : D!Columns[c] = f
        <4>1. PICK c \in 1..n : s[c] = j
          BY <1>2
        <4>2. D!Columns[c] = f
          BY <1>2, <3>2, <4>1
        <4>3. QED
          BY <4>2
      <3>4. QED
        BY <1>1, <3>3 DEF D!ToSet
    <2>3. QED
      BY <2>1, <2>2
  <1>5. ASSUME NEW i \in 1..n, NEW j \in 1..n, i < j, D!Columns[i] # "_id"
        PROVE  D!FirstSeenBefore(D!Columns[i], D!Columns[j])
    <2>1. s[i] \in 1..n /\ s[j] \in 1..n /\ s[i] < s[j]
      BY <1>2, <1>5
    <2>2. D!FirstSeenBefore(order[s[i]], order[s[j]])
      BY <2>1 DEF DocumentInv, DocumentOrdered
    <2>3. QED
      BY <1>2, <2>2
  <1>6. QED
    BY <1>1, <1>2, <1>3, <1>4, <1>5 DEF D!IdFirst

LEMMA DescribedFromAll == DocumentInv => D!InferredFromAll
  <1> SUFFICES ASSUME DocumentInv PROVE D!InferredFromAll
    OBVIOUS
  <1> DEFINE n == Len(order)
  <1>1. n \in Nat /\ Len(D!Columns) = n /\ Len(docs) \in Nat
    BY ColumnsReorder DEF DocumentInv, DocumentShape
  <1>2. Len(D!DescribeSample) = n
    BY <1>1 DEF D!DescribeSample
  <1>3. ASSUME NEW i \in 1..n
        PROVE  /\ D!DescribeSample[i].nullable
                    <=> "missing" \in Values(D!DescribeSample[i].field)
                          \/ "null" \in Values(D!DescribeSample[i].field)
               /\ D!DescribeSample[i].types = Values(D!DescribeSample[i].field) \ {"missing", "null"}
    <2> DEFINE f == D!Columns[i]
    <2>1. /\ D!DescribeSample[i].field = f
          /\ D!DescribeSample[i].types = tally[f].types
          /\ D!DescribeSample[i].nullable = D!Nullable(tally[f])
      BY <1>1 DEF D!DescribeSample
    <2>2. f \in Field
      <3>1. PICK j \in 1..n : f = order[j]
        BY ColumnsReorder
      <3>2. QED
        BY <3>1 DEF DocumentInv, DocumentShape
    <2>3. /\ tally[f].seen = Cardinality(Holders(f))
          /\ tally[f].null <=> "null" \in Values(f)
          /\ tally[f].types = Values(f) \ {"missing", "null"}
      BY <2>2 DEF DocumentInv, DocumentTallied
    <2>4. Cardinality(Holders(f)) < Len(docs) <=> "missing" \in Values(f)
      <3>1. /\ IsFiniteSet(1..Len(docs)) /\ Cardinality(1..Len(docs)) = Len(docs)
            /\ Holders(f) \subseteq 1..Len(docs)
        <4>1. IsFiniteSet(1..Len(docs)) /\ Cardinality(1..Len(docs)) = IF 1 > Len(docs) THEN 0 ELSE Len(docs) - 1 + 1
          <5>1. 1 \in Int /\ Len(docs) \in Int
            BY <1>1
          <5>2. QED
            BY <5>1, FS_Interval
        <4>2. Holders(f) \subseteq 1..Len(docs)
          BY DEF Holders
        <4>3. QED
          BY <4>1, <4>2, <1>1
      <3>2. /\ Cardinality(Holders(f)) \in Nat /\ Cardinality(Holders(f)) <= Len(docs)
            /\ (Cardinality(Holders(f)) = Len(docs) => Holders(f) = 1..Len(docs))
        BY <3>1, FS_Subset, FS_CardinalityType
      <3>3. Holders(f) = 1..Len(docs) <=> "missing" \notin Values(f)
        BY DEF Holders, Values
      <3>4. QED
        BY <3>1, <3>2, <3>3, <1>1
    <2>5. D!Nullable(tally[f]) <=> tally[f].null \/ tally[f].seen < Len(docs)
      BY DEF D!Nullable
    <2>6. D!Nullable(tally[f]) <=> "missing" \in Values(f) \/ "null" \in Values(f)
      BY <2>3, <2>4, <2>5
    <2>7. QED
      BY <2>1, <2>3, <2>6
  <1>4. QED
    BY <1>2, <1>3 DEF D!InferredFromAll, Values, D!Missing, D!Null

-----------------------------------------------------------------------------
(* The promises of all parts. *)

\* Whatever the size of a result, the limit, the batches and the failures, a
\* MongoDB and a Cassandra answer with all of it, or with as much as the limit
\* allows and the word that there is more; a first batch is no larger than needed
\* and no value of a row shows in another.
THEOREM AnswersAlwaysWhole == M!Spec /\ C!Spec => AnswersAreWhole
  BY MongoKeepsAnswer, CassandraKeepsAnswer, MongoInvAlways, CassandraInvAlways,
     MongoProperties, CassandraProperties, PTL DEF AnswersAreWhole

\* However a keyspace changes during a scan and whatever the scan repeats, a key
\* that stays is listed unless the limit was met.  However a database changes
\* and wherever its deadline falls, a schema lacks a table only past the cap or
\* after a failure in time, and then its count exceeds what it describes; foreign
\* keys that failed in time, and those of the last table at a deadline, are
\* missing without a word.
THEOREM ListingsAlwaysWhole == K!Spec /\ T!Spec => []ListingsAreWhole
  <1>1. KeyInv /\ SchemaInv => ListingsAreWhole
    BY KeyProperties, SchemaProperties DEF ListingsAreWhole
  <1>2. QED
    BY <1>1, KeyInvAlways, SchemaInvAlways, PTL

\* Of every sample of documents: each value stands under its field, the columns
\* are the fields in the order they were first seen with _id in front, and each
\* field is described from all documents.
THEOREM DocumentsAlwaysRows == D!Spec => []DocumentsAsRows
  <1>1. DocumentInv => DocumentsAsRows
    BY DocumentsLaidOut, ColumnsInOrder, DescribedFromAll DEF DocumentsAsRows
  <1>2. QED
    BY <1>1, DocumentInvAlways, PTL
=============================================================================
