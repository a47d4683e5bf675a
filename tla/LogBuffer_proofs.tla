-------------------------- MODULE LogBuffer_proofs --------------------------
(***************************************************************************)
(* Proofs about LogBuffer, for a ring of any size, any writers and any     *)
(* number of messages: the cursor is right, and a message that is still in *)
(* the ring is found and returned as it was written.                       *)
(*                                                                         *)
(* First what & LOG_BUFFER_MASK does to positions: two of them less than a *)
(* lap apart never fall on the same cell.  Then, on the line that messages *)
(* would make had the ring no end, no two places overlap, so a write that  *)
(* falls on a cell that counts falls there from a lap before, which        *)
(* "clean" excludes, or from a lap after, which "kept" excludes.           *)
(***************************************************************************)
EXTENDS LogBuffer, FiniteSetTheorems, SequenceTheorems, TLAPS

LEMMA RingSize == LOG_BUFFER_SIZE \in Nat /\ LOG_BUFFER_SIZE > 0
BY LogBufferAssumption

\* The mask leaves a position of the ring.
LEMMA AroundInRing == ASSUME NEW p \in Int PROVE Around(p) \in Positions
BY RingSize DEF Around, Positions

\* It takes a whole number of laps away.
LEMMA Laps ==
    ASSUME NEW p \in Int
    PROVE  \E k \in Int : /\ LOG_BUFFER_SIZE * k \in Int
                          /\ p = LOG_BUFFER_SIZE * k + Around(p)
<1>1. /\ p = LOG_BUFFER_SIZE * (p \div LOG_BUFFER_SIZE) + (p % LOG_BUFFER_SIZE)
      /\ p \div LOG_BUFFER_SIZE \in Int
  BY RingSize
<1>2. LOG_BUFFER_SIZE * (p \div LOG_BUFFER_SIZE) \in Int
  BY <1>1, RingSize
<1> QED BY <1>1, <1>2 DEF Around

\* Laps add up (the provers need to be told).
LEMMA LapsAdd ==
    ASSUME NEW a \in Int, NEW b \in Int
    PROVE  /\ LOG_BUFFER_SIZE * a + LOG_BUFFER_SIZE * b = LOG_BUFFER_SIZE * (a + b)
           /\ LOG_BUFFER_SIZE * a - LOG_BUFFER_SIZE * b = LOG_BUFFER_SIZE * (a - b)
           /\ LOG_BUFFER_SIZE * a \in Int /\ LOG_BUFFER_SIZE * b \in Int
BY RingSize

\* Less than a lap is no lap ...
LEMMA LapTooLong ==
    ASSUME NEW d \in Int, LOG_BUFFER_SIZE * d < LOG_BUFFER_SIZE,
           LOG_BUFFER_SIZE * d > 0 - LOG_BUFFER_SIZE
    PROVE  LOG_BUFFER_SIZE * d = 0
BY RingSize

\* ... so between laps there is nothing but laps.
LEMMA LapsApart ==
    ASSUME NEW j \in Int, NEW k \in Int, NEW e \in Int,
           LOG_BUFFER_SIZE * j = LOG_BUFFER_SIZE * k + e,
           e < LOG_BUFFER_SIZE, e > 0 - LOG_BUFFER_SIZE
    PROVE  e = 0
<1> DEFINE d == j - k
<1>1. d \in Int /\ LOG_BUFFER_SIZE * d = LOG_BUFFER_SIZE * j - LOG_BUFFER_SIZE * k
  BY LapsAdd
<1>2. LOG_BUFFER_SIZE * j \in Int /\ LOG_BUFFER_SIZE * k \in Int
  BY LapsAdd
<1> HIDE DEF d
<1>3. LOG_BUFFER_SIZE * d = e
  BY <1>1, <1>2
<1> QED BY <1>1, <1>3, LapTooLong

\* A position that differs by whole laps is the one the mask leaves.
LEMMA AroundIs ==
    ASSUME NEW p \in Int, NEW r \in Positions, NEW k \in Int, p = LOG_BUFFER_SIZE * k + r
    PROVE  Around(p) = r
<1>1. PICK j \in Int : LOG_BUFFER_SIZE * j \in Int /\ p = LOG_BUFFER_SIZE * j + Around(p)
  BY Laps
<1> DEFINE e == r - Around(p)
<1>2. Around(p) \in Int /\ Around(p) >= 0 /\ Around(p) < LOG_BUFFER_SIZE
  BY AroundInRing, RingSize DEF Positions
<1>3. r \in Int /\ r >= 0 /\ r < LOG_BUFFER_SIZE
  BY RingSize DEF Positions
<1>4. e \in Int /\ e < LOG_BUFFER_SIZE /\ e > 0 - LOG_BUFFER_SIZE
  BY <1>2, <1>3, RingSize
<1>5. LOG_BUFFER_SIZE * j = LOG_BUFFER_SIZE * k + e
  <2> DEFINE x == LOG_BUFFER_SIZE * j
             y == LOG_BUFFER_SIZE * k
             a == Around(p)
  <2>1. x \in Int /\ y \in Int /\ p = x + a /\ p = y + r
    BY <1>1, LapsAdd
  <2>2. a \in Int /\ r \in Int /\ e = r - a
    BY <1>2, <1>3
  <2> HIDE DEF x, y, a, e
  <2>3. x = y + e
    BY <2>1, <2>2
  <2> QED BY <2>3 DEF x, y
<1> HIDE DEF e
<1>6. e = 0
  BY <1>4, <1>5, LapsApart
<1> QED BY <1>2, <1>3, <1>6 DEF e

\* The code masks at each step, and comes to the same place as one that masks at the end.
LEMMA AroundAdds ==
    ASSUME NEW a \in Int, NEW b \in Int
    PROVE  Around(Around(a) + b) = Around(a + b)
<1>1. PICK j \in Int : LOG_BUFFER_SIZE * j \in Int /\ a = LOG_BUFFER_SIZE * j + Around(a)
  BY Laps
<1>2. Around(a) \in Int
  BY AroundInRing, RingSize DEF Positions
<1>3. PICK k \in Int : /\ LOG_BUFFER_SIZE * k \in Int
                       /\ Around(a) + b = LOG_BUFFER_SIZE * k + Around(Around(a) + b)
  BY <1>2, Laps
<1>4. Around(Around(a) + b) \in Positions /\ Around(Around(a) + b) \in Int
  BY <1>2, AroundInRing, RingSize DEF Positions
<1>5. a + b = LOG_BUFFER_SIZE * (j + k) + Around(Around(a) + b)
  <2> DEFINE x == LOG_BUFFER_SIZE * j
             y == LOG_BUFFER_SIZE * k
             z == LOG_BUFFER_SIZE * (j + k)
             r == Around(a)
             s == Around(r + b)
  <2>1. x \in Int /\ y \in Int /\ r \in Int /\ s \in Int /\ x + y = z
    BY <1>2, <1>4, LapsAdd
  <2>2. a = x + r /\ r + b = y + s
    BY <1>1, <1>3
  <2> HIDE DEF x, y, z, r, s
  <2>3. a + b = z + s
    BY <2>1, <2>2
  <2> QED BY <2>3 DEF z, s, r
<1> QED BY <1>4, <1>5, AroundIs

\* Two positions less than a lap apart are not the same cell.
LEMMA AroundApart ==
    ASSUME NEW a \in Int, NEW b \in Int, a < b, b < a + LOG_BUFFER_SIZE
    PROVE  Around(a) # Around(b)
<1> SUFFICES ASSUME Around(a) = Around(b) PROVE FALSE
  OBVIOUS
<1>1. PICK j \in Int : LOG_BUFFER_SIZE * j \in Int /\ a = LOG_BUFFER_SIZE * j + Around(a)
  BY Laps
<1>2. PICK k \in Int : LOG_BUFFER_SIZE * k \in Int /\ b = LOG_BUFFER_SIZE * k + Around(b)
  BY Laps
<1>3. Around(a) \in Int
  BY AroundInRing, RingSize DEF Positions
<1> DEFINE e == b - a
<1>4. e \in Int /\ e < LOG_BUFFER_SIZE /\ e > 0 - LOG_BUFFER_SIZE /\ e # 0
  BY RingSize
<1>5. LOG_BUFFER_SIZE * k = LOG_BUFFER_SIZE * j + e
  BY <1>1, <1>2, <1>3
<1> HIDE DEF e
<1> QED BY <1>4, <1>5, LapsApart

----------------------------------------------------------------------------

Messages == [start : Nat, size : Sizes, done : BOOLEAN, clean : BOOLEAN]
\* The writers that have a message to come.
Pending == {v \in Writers : writer[v] \in {"load", "swap"}}
\* The writers that are in the ring.
Busy(w) == writer[w] \in {"body", "tail"}
\* The messages since ResetLogCount().
Reserved == first..Len(sent)

\* What TypeOK does not say of the two sequences.
Sequences ==
    /\ sent \in Seq(Messages)
    /\ buf \in Seq((0..MaxMessages) \X (0..LOG_BUFFER_SIZE))

\* The bound on messages counts those to come.
Bounded ==
    /\ IsFiniteSet(Pending)
    /\ Len(sent) + Cardinality(Pending) <= MaxMessages
    /\ first <= Len(sent) + 1

\* The messages follow each other from 0 on, without a hole, up to the cursor.
Placed ==
    /\ CursorRight
    /\ first \in Reserved => sent[first].start = 0
    /\ \A m, n \in Reserved : m < n => End(m) <= sent[n].start
    /\ \A m, n \in Reserved : n = m + 1 => End(m) = sent[n].start

\* A writer in the ring has a message of its own, and its locals say where it is, unless the
\* ring was reset.
Places ==
    \A w \in Writers :
        /\ writer[w] # "idle" => size[w] \in Sizes
        /\ writer[w] \in {"idle", "load", "swap"} => copied[w] = 0
        /\ Busy(w) =>
            /\ msg[w] \in 1..Len(sent)
            /\ size[w] = sent[msg[w]].size
            /\ ~sent[msg[w]].done
            /\ writer[w] = "body" => copied[w] < size[w]
            /\ writer[w] = "tail" => copied[w] = size[w]
            /\ msg[w] \in Reserved =>
                /\ old_cursor[w].pos = Around(sent[msg[w]].start)
                /\ old_cursor[w].count = msg[w] - first
        /\ \A v \in Writers : Busy(w) /\ Busy(v) /\ msg[w] = msg[v] => w = v

\* "clean" stays true of what it was said of: whoever is still busy in an earlier message is
\* less than a lap before the end of this one.
CleanKept ==
    \A n \in Reserved : sent[n].clean =>
        \A w \in Writers : Busy(w) /\ msg[w] < n =>
            msg[w] \in Reserved /\ sent[msg[w]].start + LOG_BUFFER_SIZE >= End(n)

\* The cell for byte k of message n, or for its tail when k is one more than its size, ...
Place(n, k) == Around(sent[n].start + k - 1)
\* ... what is there once it is written ...
Cell(n, k) == IF k <= sent[n].size THEN BodyCell(n, k) ELSE TailCell(n - first, sent[n].size)
\* ... and the first ones are.
Intact(n, len) == \A k \in 1..len : LogBuff[Place(n, k)] = Cell(n, k)

\* The ring has the whole of a message that is done, and what was copied of one that is not.
Content ==
    \A n \in Reserved : sent[n].clean /\ Kept(n) =>
        /\ sent[n].done => Intact(n, sent[n].size + 1)
        /\ \A w \in Writers : Busy(w) /\ msg[w] = n => Intact(n, copied[w])

\* A message that can be relied on.
Sound(m) == m \in Reserved /\ sent[m].done /\ sent[m].clean

ReaderTyped ==
    /\ reader = "idle" => ~sure
    /\ reader = "copy" => Len(buf) < tail.msgsize
    /\ reader = "search" => buf = << >>

\* The message that the reader was asked for.
Sought == Indexed(msgidx)

\* The search is at the tail of a message not before it, and all those between are sound.
Searching ==
    /\ tail.msgidx \in msgidx + 1..LogCursor.count
    /\ Around(stailpos - tail.msgsize) = Around(End(Indexed(tail.msgidx) - 1))
    /\ \A m \in Sought..Indexed(tail.msgidx) - 1 : Sound(m)

\* The search has found it, and buf has the beginning of it.
Copied ==
    /\ tail = [msgidx |-> msgidx, msgsize |-> sent[Sought].size]
    /\ Around(stailpos - tail.msgsize) = Around(sent[Sought].start)
    /\ \A k \in 1..Len(buf) : buf[k] = <<Sought, k>>

\* Where a reader that may count on its message stands.
Reading ==
    sure =>
        /\ Sound(Sought)
        /\ Kept(Sought) =>
            /\ reader # "nothing"
            /\ reader = "search" => Searching
            /\ reader = "copy" => Copied
            /\ reader = "found" => Whole(Sought)

\* All of it is inductive only together: what a reader finds rests on Content, Content on who
\* was busy where (CleanKept), and that on where messages are (Placed, Places).
IInv == /\ TypeOK /\ Sequences /\ Bounded /\ Placed /\ Places
        /\ CleanKept /\ Content /\ ReaderTyped /\ Reading

----------------------------------------------------------------------------

\* A message and its tail are shorter than the ring.
LEMMA SizeTypes ==
    \A s \in Sizes : s \in Nat /\ s > 0 /\ s + 1 < LOG_BUFFER_SIZE
BY LogBufferAssumption

LEMMA ZeroTypes ==
    0 \in Positions /\ 0 \in 0..MaxMessages /\ NoTail \in Tails
BY LogBufferAssumption DEF Positions, Tails, NoTail

LEMMA EmptyTypes ==
    /\ ToSet(<< >>) = {} /\ Len(<< >>) = 0
    /\ << >> \in Seq((0..MaxMessages) \X (0..LOG_BUFFER_SIZE))
BY DEF ToSet

LEMMA MessageTypes ==
    ASSUME Sequences
    PROVE  \A m \in 1..Len(sent) :
               /\ sent[m] \in Messages
               /\ sent[m].start \in Nat /\ sent[m].size \in Sizes /\ sent[m].size \in Nat
               /\ sent[m].size > 0 /\ sent[m].size + 1 < LOG_BUFFER_SIZE
               /\ sent[m].done \in BOOLEAN /\ sent[m].clean \in BOOLEAN
               /\ End(m) \in Nat /\ End(m) = sent[m].start + sent[m].size + 1
<1> SUFFICES ASSUME NEW m \in 1..Len(sent)
             PROVE  /\ sent[m] \in Messages
                    /\ sent[m].start \in Nat /\ sent[m].size \in Sizes /\ sent[m].size \in Nat
                    /\ sent[m].size > 0 /\ sent[m].size + 1 < LOG_BUFFER_SIZE
                    /\ sent[m].done \in BOOLEAN /\ sent[m].clean \in BOOLEAN
                    /\ End(m) \in Nat /\ End(m) = sent[m].start + sent[m].size + 1
  OBVIOUS
<1>1. sent[m] \in Messages
  BY DEF Sequences
<1>2. /\ sent[m].start \in Nat /\ sent[m].size \in Sizes
      /\ sent[m].done \in BOOLEAN /\ sent[m].clean \in BOOLEAN
  BY <1>1 DEF Messages
<1>3. sent[m].size \in Nat /\ sent[m].size > 0 /\ sent[m].size + 1 < LOG_BUFFER_SIZE
  BY <1>2, SizeTypes
<1>4. End(m) = sent[m].start + sent[m].size + 1
  BY DEF End
<1>5. End(m) \in Nat
  BY <1>2, <1>3, <1>4
<1> QED BY <1>1, <1>2, <1>3, <1>4, <1>5

\* There is room in the bound for a message to come.
LEMMA PendingTypes ==
    ASSUME Bounded, Sequences
    PROVE  /\ Cardinality(Pending) \in Nat /\ IsFiniteSet(Pending)
           /\ \A w \in Writers : writer[w] \in {"load", "swap"} => Len(sent) + 1 <= MaxMessages
<1>1. Cardinality(Pending) \in Nat /\ IsFiniteSet(Pending)
  BY FS_CardinalityType DEF Bounded
<1>2. ASSUME NEW w \in Writers, writer[w] \in {"load", "swap"}
      PROVE  Len(sent) + 1 <= MaxMessages
  <2>1. Cardinality(Pending) # 0
    BY <1>1, <1>2, FS_EmptySet DEF Pending
  <2>2. Len(sent) \in Nat
    BY DEF Sequences
  <2> QED BY <1>1, <2>1, <2>2, LogBufferAssumption DEF Bounded
<1> QED BY <1>1, <1>2

\* Total is where the last message ends, and no other ends later.
LEMMA TotalTypes ==
    ASSUME Sequences, TypeOK, Bounded, Placed
    PROVE  /\ Total \in Nat
           /\ Reserved # {} => Len(sent) \in Reserved /\ Total = End(Len(sent))
           /\ Reserved = {} => Total = 0 /\ first = Len(sent) + 1
           /\ \A m \in Reserved : m \in 1..Len(sent) /\ m \in Nat /\ End(m) <= Total
           /\ Len(sent) \in Nat /\ first \in Nat /\ first > 0
<1>1. /\ Len(sent) \in Nat /\ first \in Nat /\ first > 0
      /\ \A m \in Reserved : m \in 1..Len(sent) /\ m \in Nat
  BY DEF Sequences, TypeOK, Reserved
<1>2. CASE Reserved = {}
  BY <1>1, <1>2 DEF Reserved, Total, Bounded
<1>3. CASE Reserved # {}
  <2>1. Len(sent) \in Reserved /\ Total = End(Len(sent))
    BY <1>1, <1>3 DEF Reserved, Total
  <2>2. Total \in Nat
    BY <1>1, <2>1, MessageTypes
  <2>3. ASSUME NEW m \in Reserved PROVE End(m) <= Total
    <3>1. CASE m = Len(sent)
      BY <2>1, <2>2, <3>1
    <3>2. CASE m # Len(sent)
      <4>1. m < Len(sent)
        BY <1>1, <3>2
      <4>2. End(m) <= sent[Len(sent)].start
        BY <2>1, <4>1 DEF Placed
      <4> QED BY <1>1, <2>1, <4>2, MessageTypes
    <3> QED BY <3>1, <3>2
  <2> QED BY <1>1, <1>3, <2>1, <2>2, <2>3
<1> QED BY <1>2, <1>3

----------------------------------------------------------------------------

LEMMA TypesInit ==
    ASSUME Init
    PROVE  TypeOK /\ Sequences
<1>1. Zero \in Cells
  BY LogBufferAssumption DEF Zero, Cells, NoBody, Tails
<1>2. /\ LogBuff \in [Positions -> Cells] /\ LogCursor \in Cursors
      /\ writer \in [Writers -> {"idle", "load", "swap", "body", "tail"}]
      /\ old_cursor \in [Writers -> Cursors]
  BY <1>1, ZeroTypes DEF Init, Cursors
<1>3. /\ size \in [Writers -> Sizes \cup {0}] /\ msg \in [Writers -> 0..MaxMessages]
      /\ copied \in [Writers -> 0..LOG_BUFFER_SIZE]
  BY LogBufferAssumption DEF Init
<1>4. /\ reader \in {"idle", "search", "copy", "found", "nothing"}
      /\ msgidx \in 0..MaxMessages /\ stailpos \in Positions /\ tail \in Tails
      /\ sure \in BOOLEAN
  BY ZeroTypes DEF Init
<1>5. /\ buf = << >> /\ sent = << >> /\ Len(buf) = 0 /\ Len(sent) = 0
      /\ first \in 1..MaxMessages + 1
  BY LogBufferAssumption DEF Init
<1>6. Sequences
  BY <1>5 DEF Sequences
<1>7. ToSet(buf) \subseteq (0..MaxMessages) \X (0..LOG_BUFFER_SIZE)
  BY <1>5, EmptyTypes
<1>8. Len(buf) <= LOG_BUFFER_SIZE /\ Len(sent) <= MaxMessages
  BY <1>5, LogBufferAssumption
<1> QED BY <1>2, <1>3, <1>4, <1>5, <1>6, <1>7, <1>8 DEF TypeOK

\* Every step keeps the types.
LEMMA TypesStep ==
    ASSUME TypeOK, Sequences, Bounded, Placed, Places, ReaderTyped, Next
    PROVE  TypeOK' /\ Sequences'
<1>a. CASE \E w \in Writers : \E s \in Sizes : LogMessage(w, s)
  BY <1>a DEF LogMessage, Writer, TypeOK, Sequences, readerVars
<1>b. CASE \E w \in Writers : LoadCursor(w)
  BY <1>b DEF LoadCursor, Writer, TypeOK, Sequences, readerVars
<1>c. CASE \E w \in Writers : SwapCursor(w)
  <2> SUFFICES ASSUME NEW w \in Writers, SwapCursor(w) PROVE TypeOK' /\ Sequences'
    BY <1>c
  <2>1. CASE LogCursor # old_cursor[w]
    BY <2>1 DEF SwapCursor, Writer, TypeOK, Sequences, readerVars
  <2>2. CASE LogCursor = old_cursor[w]
    <3>1. writer[w] = "swap" /\ Reserve(w) /\ writer' = [writer EXCEPT ![w] = "body"]
      BY <2>2 DEF SwapCursor, Writer
    <3>2. /\ Len(sent) \in Nat /\ Len(sent) + 1 <= MaxMessages
          /\ first \in 1..MaxMessages + 1 /\ first <= Len(sent) + 1
          /\ Total \in Nat /\ size[w] \in Sizes
      BY <3>1, TotalTypes, PendingTypes DEF TypeOK, Places, Bounded
    <3>3. LogCursor' \in Cursors
      <4>1. old_cursor[w].count + 1 \in 0..MaxMessages
        <5>1. old_cursor[w].count = Len(sent) + 1 - first
          BY <2>2 DEF Placed, CursorRight
        <5> QED BY <3>2, <5>1, LogBufferAssumption
      <4>2. Around(old_cursor[w].pos + size[w] + 1) \in Positions
        <5>1. old_cursor[w].pos \in Int
          BY LogBufferAssumption DEF TypeOK, Cursors, Positions
        <5>2. old_cursor[w].pos + size[w] + 1 \in Int
          BY <3>2, <5>1, SizeTypes
        <5> QED BY <5>2, AroundInRing
      <4> QED BY <3>1, <4>1, <4>2 DEF Reserve, Cursors
    <3>4. sent' \in Seq(Messages) /\ Len(sent') <= MaxMessages
      <4> DEFINE c == Clean(Total, Total + size[w] + 1)
                 m == [start |-> Total, size |-> size[w], done |-> FALSE, clean |-> c]
      <4>1. c \in BOOLEAN
        BY DEF Clean
      <4>2. m \in Messages
        <5> HIDE DEF c
        <5> QED BY <3>2, <4>1 DEF Messages
      <4>3. sent' = Append(sent, m)
        BY <3>1 DEF Reserve
      <4> HIDE DEF m
      <4> QED BY <3>2, <4>2, <4>3, AppendProperties DEF Sequences
    <3>5. msg' \in [Writers -> 0..MaxMessages]
      BY <3>1, <3>2, LogBufferAssumption DEF Reserve, TypeOK
    <3> QED BY <3>1, <3>3, <3>4, <3>5 DEF SwapCursor, TypeOK, Sequences, readerVars
  <2> QED BY <2>1, <2>2
<1>d. CASE \E w \in Writers : CopyBody(w)
  <2> SUFFICES ASSUME NEW w \in Writers, CopyBody(w) PROVE TypeOK' /\ Sequences'
    BY <1>d
  <2>1. /\ writer[w] = "body" /\ msg[w] \in 0..MaxMessages
        /\ copied[w] + 1 \in 0..LOG_BUFFER_SIZE
        /\ old_cursor[w].pos + copied[w] \in Int
    <3>1. writer[w] = "body" /\ copied[w] < size[w] /\ size[w] \in Sizes
      BY DEF CopyBody, Writer, Places, Busy
    <3>2. /\ msg[w] \in 0..MaxMessages /\ copied[w] \in 0..LOG_BUFFER_SIZE
          /\ old_cursor[w].pos \in 0..LOG_BUFFER_SIZE - 1
      BY DEF TypeOK, Cursors, Positions
    <3> QED BY <3>1, <3>2, SizeTypes, LogBufferAssumption
  <2>2. BodyCell(msg[w], copied[w] + 1) \in Cells
    BY <2>1, LogBufferAssumption DEF BodyCell, Cells, Tails, NoTail
  <2>3. Around(old_cursor[w].pos + copied[w]) \in Positions
    BY <2>1, AroundInRing
  <2>4. LogBuff' \in [Positions -> Cells]
    BY <2>2, <2>3 DEF CopyBody, TypeOK
  <2>5. copied' \in [Writers -> 0..LOG_BUFFER_SIZE]
    BY <2>1 DEF CopyBody, TypeOK
  <2>6. writer' \in [Writers -> {"idle", "load", "swap", "body", "tail"}]
    BY DEF CopyBody, Writer, TypeOK
  <2> QED BY <2>4, <2>5, <2>6 DEF CopyBody, TypeOK, Sequences, readerVars
<1>e. CASE \E w \in Writers : CopyTail(w)
  <2> SUFFICES ASSUME NEW w \in Writers, CopyTail(w) PROVE TypeOK' /\ Sequences'
    BY <1>e
  <2>1. /\ old_cursor[w].count \in 0..MaxMessages
        /\ old_cursor[w].pos + size[w] \in Int
        /\ size[w] \in 0..LOG_BUFFER_SIZE /\ msg[w] \in 1..Len(sent)
    BY SizeTypes, LogBufferAssumption
       DEF CopyTail, TypeOK, Places, Busy, Cursors, Positions
  <2>2. TailCell(old_cursor[w].count, size[w]) \in Cells
    BY <2>1, LogBufferAssumption DEF TailCell, Cells, Tails, NoBody
  <2>3. LogBuff' \in [Positions -> Cells]
    BY <2>1, <2>2, AroundInRing DEF CopyTail, TypeOK, TailPlace
  <2>4. sent' \in Seq(Messages) /\ Len(sent') = Len(sent)
    <3>1. [sent[msg[w]] EXCEPT !.done = TRUE] \in Messages
      BY <2>1, MessageTypes DEF Messages
    <3> QED BY <2>1, <3>1 DEF CopyTail, Sequences
  <2>5. Around(0) = 0 /\ 0 \in Positions
    BY LogBufferAssumption DEF Around, Positions
  <2> QED BY <2>3, <2>4, <2>5, LogBufferAssumption
          DEF CopyTail, Leave, TypeOK, Sequences, Cursors, readerVars
<1>f. CASE \E w \in Writers : EndThread(w)
  <2>1. 0 \in Positions
    BY LogBufferAssumption DEF Positions
  <2> QED BY <1>f, <2>1, LogBufferAssumption
          DEF EndThread, Leave, TypeOK, Sequences, Cursors, readerVars
<1>g. CASE \E idx \in 0..MaxMessages - 1 : GetLogMessage(idx)
  BY <1>g, LogBufferAssumption
     DEF GetLogMessage, TypeOK, Sequences, Cursors, Tails, writerVars, ToSet
<1>h. CASE SearchTail
  <2>1. stailpos - 1 - tail.msgsize \in Int
    BY LogBufferAssumption DEF TypeOK, Positions, Tails
  <2>2. stailpos' \in Positions
    BY <1>h, <2>1, AroundInRing DEF SearchTail
  <2>3. tail' \in Tails
    BY <1>h, <2>2 DEF SearchTail, TypeOK, Cells
  <2> QED BY <1>h, <2>2, <2>3 DEF SearchTail, TypeOK, Sequences, writerVars
<1>i. CASE CopyMessage
  <2>1. stailpos - tail.msgsize + Len(buf) \in Int /\ tail.msgsize \in 0..LOG_BUFFER_SIZE
    BY LogBufferAssumption DEF TypeOK, Positions, Tails, Sequences
  <2> DEFINE b == LogBuff[Around(stailpos - tail.msgsize + Len(buf))].body
             Pair == (0..MaxMessages) \X (0..LOG_BUFFER_SIZE)
  <2>2. b \in Pair
    BY <2>1, AroundInRing DEF TypeOK, Cells
  <2>3. buf' = Append(buf, b) /\ buf \in Seq(Pair)
    BY <1>i DEF CopyMessage, Sequences
  <2> HIDE DEF b, Pair
  <2>4. buf' \in Seq(Pair) /\ Len(buf') = Len(buf) + 1
    BY <2>2, <2>3, AppendProperties
  <2>5. Len(buf') <= LOG_BUFFER_SIZE
    BY <1>i, <2>1, <2>3, <2>4, LogBufferAssumption DEF CopyMessage, ReaderTyped
  <2>6. ToSet(buf') \subseteq Pair
    BY <2>4 DEF ToSet
  <2> QED BY <1>i, <2>4, <2>5, <2>6 DEF CopyMessage, TypeOK, Sequences, writerVars, Pair
<1>j. CASE ReturnMessage
  <2>1. /\ buf' = << >> /\ Len(buf') <= LOG_BUFFER_SIZE
        /\ buf' \in Seq((0..MaxMessages) \X (0..LOG_BUFFER_SIZE))
        /\ ToSet(buf') \subseteq (0..MaxMessages) \X (0..LOG_BUFFER_SIZE)
    BY <1>j, EmptyTypes, LogBufferAssumption DEF ReturnMessage
  <2>2. /\ reader' = "idle" /\ msgidx' \in 0..MaxMessages /\ stailpos' \in Positions
        /\ tail' \in Tails /\ sure' \in BOOLEAN
    BY <1>j, ZeroTypes DEF ReturnMessage
  <2> QED BY <1>j, <2>1, <2>2 DEF ReturnMessage, TypeOK, Sequences, writerVars
<1>k. CASE ResetLogCount
  <2>1. first' \in 1..MaxMessages + 1
    BY <1>k, LogBufferAssumption DEF ResetLogCount, TypeOK, Sequences
  <2>2. LogCursor' \in Cursors
    BY <1>k, LogBufferAssumption DEF ResetLogCount, Cursors, Positions
  <2> QED BY <1>k, <2>1, <2>2 DEF ResetLogCount, TypeOK, Sequences, readerVars, writerVars
<1> QED BY <1>a, <1>b, <1>c, <1>d, <1>e, <1>f, <1>g, <1>h, <1>i, <1>j, <1>k DEF Next

----------------------------------------------------------------------------

Typed == TypeOK /\ Sequences /\ Bounded /\ Placed

\* Writers in the ring stay as they are, or leave.
Fewer ==
    \A w \in Writers : Busy(w)' =>
        /\ Busy(w)
        /\ writer'[w] = writer[w] /\ old_cursor'[w] = old_cursor[w]
        /\ size'[w] = size[w] /\ msg'[w] = msg[w] /\ copied'[w] = copied[w]

Begun ==
    \A w \in Writers :
        /\ writer'[w] # "idle" => size'[w] \in Sizes
        /\ writer'[w] \in {"idle", "load", "swap"} => copied'[w] = 0

\* A writer that leaves, or has not entered, changes nothing for the others.
LEMMA FewerKeeps ==
    ASSUME Places, CleanKept, Content, Fewer, Begun, UNCHANGED <<LogBuff, sent, first>>
    PROVE  Places' /\ CleanKept' /\ Content'
<1>1. /\ Reserved' = Reserved /\ Total' = Total
      /\ \A m : End(m)' = End(m) /\ Kept(m)' = Kept(m)
      /\ \A n, k : Intact(n, k)' = Intact(n, k)
  BY DEF Reserved, End, Total, Kept, Intact, Place, Cell
<1>2. Places'
  <2> SUFFICES ASSUME NEW w \in Writers
               PROVE  /\ Busy(w)' =>
                          /\ msg'[w] \in 1..Len(sent)
                          /\ size'[w] = sent[msg'[w]].size
                          /\ ~sent[msg'[w]].done
                          /\ writer'[w] = "body" => copied'[w] < size'[w]
                          /\ writer'[w] = "tail" => copied'[w] = size'[w]
                          /\ msg'[w] \in Reserved =>
                              /\ old_cursor'[w].pos = Around(sent[msg'[w]].start)
                              /\ old_cursor'[w].count = msg'[w] - first
                      /\ \A v \in Writers : Busy(w)' /\ Busy(v)' /\ msg'[w] = msg'[v] => w = v
    BY <1>1 DEF Places, Begun
  <2> QED BY DEF Places, Fewer
<1>3. CleanKept'
  BY <1>1 DEF CleanKept, Fewer
<1>4. Content'
  BY <1>1 DEF Content, Fewer
<1> QED BY <1>2, <1>3, <1>4

\* What writers do to the messages, as a reader sees it: there are more, and more are done.
Growing ==
    /\ first' = first
    /\ Len(sent) <= Len(sent') /\ LogCursor.count <= LogCursor'.count
    /\ Total' \in Nat /\ Total <= Total'
    /\ \A m \in 1..Len(sent) :
        /\ sent'[m].start = sent[m].start /\ sent'[m].size = sent[m].size
        /\ sent'[m].clean = sent[m].clean /\ (sent[m].done => sent'[m].done)

\* So a reader goes on as if nobody wrote, as long as its message is kept.
LEMMA ReadingKept ==
    ASSUME Typed, Typed', Reading, Growing, UNCHANGED readerVars
    PROVE  Reading'
<1> SUFFICES ASSUME sure PROVE /\ Sound(Sought)'
                               /\ Kept(Sought)' =>
                                   /\ reader # "nothing"
                                   /\ reader = "search" => Searching'
                                   /\ reader = "copy" => Copied'
                                   /\ reader = "found" => Whole(Sought)'
  BY DEF Reading, readerVars
<1>1. /\ Len(sent) \in Nat /\ Len(sent') \in Nat /\ first \in Nat /\ first > 0
      /\ Total \in Nat /\ Total' \in Nat
  BY TotalTypes DEF Typed, Sequences, Growing
<1>2. \A m \in Reserved : m \in 1..Len(sent) /\ m \in Reserved'
  BY <1>1 DEF Reserved, Growing
<1>3. \A m : Sound(m) => Sound(m)'
  BY <1>2 DEF Sound, Growing
<1>4. Sought' = Sought /\ Sound(Sought)
  BY DEF Sought, Indexed, readerVars, Growing, Reading
<1>5. Sound(Sought)' /\ Sought \in 1..Len(sent)
  BY <1>2, <1>3, <1>4 DEF Sound
<1>6. ASSUME Kept(Sought)' PROVE Kept(Sought)
  <2>1. sent[Sought].start \in Nat /\ sent'[Sought].start = sent[Sought].start
    BY <1>5, MessageTypes DEF Growing, Typed
  <2>2. Total' - sent[Sought].start <= LOG_BUFFER_SIZE
    BY <1>4, <1>6, <2>1 DEF Kept
  <2>3. Total - sent[Sought].start <= LOG_BUFFER_SIZE
    BY <1>1, <2>1, <2>2, LogBufferAssumption DEF Growing
  <2> QED BY <2>3 DEF Kept
<1>7. \A m \in 1..Len(sent) : End(m)' = End(m)
  BY DEF End, Growing
<1>8. ASSUME Searching PROVE Searching'
  <2> DEFINE n == Indexed(tail.msgidx) - 1
  <2>1. /\ msgidx \in Nat /\ tail.msgidx \in Int /\ LogCursor.count = Len(sent) + 1 - first
        /\ LogCursor'.count \in Int
    BY LogBufferAssumption DEF Typed, TypeOK, Tails, Placed, CursorRight, Cursors
  <2>2. n \in 1..Len(sent)
    BY <1>1, <1>8, <2>1 DEF Searching, Indexed
  <2>3. tail.msgidx \in msgidx + 1..LogCursor'.count
    BY <1>1, <1>8, <2>1 DEF Searching, Growing
  <2>4. n' = n /\ End(n)' = End(n)
    BY <1>7, <2>2 DEF Indexed, readerVars, Growing
  <2> QED BY <1>3, <1>4, <1>8, <2>3, <2>4 DEF Searching, readerVars
<1>9. ASSUME Copied PROVE Copied'
  BY <1>4, <1>5, <1>9 DEF Copied, Growing, readerVars
<1>10. ASSUME Whole(Sought) PROVE Whole(Sought)'
  BY <1>4, <1>5, <1>10 DEF Whole, Growing, readerVars
<1> QED BY <1>5, <1>6, <1>8, <1>9, <1>10 DEF Reading

LEMMA FewerBounded ==
    ASSUME Typed, Sequences', Pending' \subseteq Pending,
           first' <= Len(sent') + 1, Len(sent') = Len(sent)
    PROVE  Bounded'
<1>1. /\ IsFiniteSet(Pending') /\ Cardinality(Pending') \in Nat
      /\ Cardinality(Pending') <= Cardinality(Pending) /\ Cardinality(Pending) \in Nat
  BY FS_Subset, FS_CardinalityType DEF Typed, Bounded
<1>2. Len(sent) \in Nat
  BY DEF Typed, Sequences
<1> HIDE DEF Pending
<1> QED BY <1>1, <1>2, LogBufferAssumption DEF Typed, Bounded

LEMMA SamePlaced ==
    ASSUME Typed, UNCHANGED <<LogCursor, first>>, Len(sent') = Len(sent),
           \A m \in 1..Len(sent) : sent'[m].start = sent[m].start /\ sent'[m].size = sent[m].size
    PROVE  /\ Placed'
           /\ Reserved' = Reserved /\ Total' = Total /\ \A m \in 1..Len(sent) : End(m)' = End(m)
<1>1. /\ Reserved' = Reserved
      /\ \A m \in Reserved : m \in 1..Len(sent)
      /\ Reserved # {} => Len(sent) \in Reserved
      /\ Len(sent) \in Nat /\ first \in Nat
  BY TotalTypes DEF Reserved, Typed
<1>2. \A m \in 1..Len(sent) : End(m)' = End(m)
  BY DEF End
<1>3. Total' = Total
  <2>1. CASE Len(sent) >= first
    <3>1. Len(sent) \in 1..Len(sent)
      BY <1>1, <2>1 DEF Reserved
    <3> QED BY <1>2, <2>1, <3>1 DEF Total
  <2>2. CASE ~(Len(sent) >= first)
    BY <2>2 DEF Total
  <2> QED BY <2>1, <2>2
<1>4. CursorRight'
  BY <1>3 DEF Typed, Placed, CursorRight
<1>5. first \in Reserved => sent'[first].start = 0
  BY <1>1 DEF Typed, Placed
<1>6. \A m, n \in Reserved : /\ m < n => End(m)' <= sent'[n].start
                             /\ n = m + 1 => End(m)' = sent'[n].start
  BY <1>1, <1>2 DEF Typed, Placed
<1> QED BY <1>1, <1>2, <1>3, <1>4, <1>5, <1>6 DEF Placed

LEMMA SameGrowing ==
    ASSUME Typed, UNCHANGED <<LogCursor, first>>, Len(sent') = Len(sent),
           \A m \in 1..Len(sent) :
               /\ sent'[m].start = sent[m].start /\ sent'[m].size = sent[m].size
               /\ sent'[m].clean = sent[m].clean /\ (sent[m].done => sent'[m].done)
    PROVE  Growing
<1>1. Total' = Total
  BY SamePlaced
<1>2. Total \in Nat /\ Len(sent) \in Nat /\ LogCursor.count \in Nat
  BY TotalTypes, LogBufferAssumption DEF Typed, TypeOK, Cursors
<1> QED BY <1>1, <1>2 DEF Growing

\* A step of a writer that is not in the ring, there or before.
LEMMA OutOfRing ==
    ASSUME IInv, TypeOK', Sequences', Bounded', Fewer, Begun,
           UNCHANGED <<LogBuff, LogCursor, sent, first, readerVars>>
    PROVE  IInv'
<1>1. Typed
  BY DEF IInv, Typed
<1>2. Places' /\ CleanKept' /\ Content'
  BY FewerKeeps DEF IInv
<1>3. Placed'
  BY <1>1, SamePlaced
<1>4. Growing
  BY <1>1, SameGrowing
<1>5. Reading'
  BY <1>1, <1>3, <1>4, ReadingKept DEF IInv, Typed
<1>6. ReaderTyped'
  BY DEF IInv, ReaderTyped, readerVars
<1> QED BY <1>2, <1>3, <1>5, <1>6 DEF IInv

LEMMA LogMessageStep ==
    ASSUME IInv, TypeOK', Sequences', NEW w \in Writers, NEW s \in Sizes, LogMessage(w, s)
    PROVE  IInv'
<1>1. /\ Pending' = Pending \cup {w} /\ w \notin Pending
      /\ Len(sent) + Cardinality(Pending) < MaxMessages
  BY DEF LogMessage, Writer, Pending, IInv, TypeOK
<1>2. Bounded'
  <2>1. IsFiniteSet(Pending) /\ Cardinality(Pending) \in Nat /\ Len(sent) \in Nat
    BY FS_CardinalityType DEF IInv, Bounded, Sequences
  <2>2. IsFiniteSet(Pending') /\ Cardinality(Pending') = Cardinality(Pending) + 1
    BY <1>1, <2>1, FS_AddElement
  <2>3. sent' = sent /\ first' = first
    BY DEF LogMessage
  <2> HIDE DEF Pending
  <2> QED BY <1>1, <2>1, <2>2, <2>3, LogBufferAssumption DEF IInv, Bounded
<1>3. Fewer
  BY DEF LogMessage, Writer, Fewer, Busy, IInv, TypeOK
<1>4. Begun
  BY DEF LogMessage, Writer, Begun, IInv, TypeOK, Places
<1> QED BY <1>2, <1>3, <1>4, OutOfRing DEF LogMessage

LEMMA LoadCursorStep ==
    ASSUME IInv, TypeOK', Sequences', NEW w \in Writers, LoadCursor(w)
    PROVE  IInv'
<1>1. Pending' = Pending /\ sent' = sent /\ first' = first
  BY DEF LoadCursor, Writer, Pending, IInv, TypeOK
<1>2. Bounded'
  BY <1>1, FewerBounded DEF IInv, Typed, Bounded
<1>3. Fewer
  BY DEF LoadCursor, Writer, Fewer, Busy, IInv, TypeOK
<1>4. Begun
  BY DEF LoadCursor, Writer, Begun, IInv, TypeOK, Places
<1> QED BY <1>2, <1>3, <1>4, OutOfRing DEF LoadCursor

\* The compare and swap fails ...
LEMMA SwapAgainStep ==
    ASSUME IInv, TypeOK', Sequences', NEW w \in Writers, SwapCursor(w), LogCursor # old_cursor[w]
    PROVE  IInv'
<1>1. /\ Writer(w, "swap", "load")
      /\ UNCHANGED <<LogBuff, LogCursor, old_cursor, size, msg, copied, readerVars, sent, first>>
  BY DEF SwapCursor
<1>2. Pending' = Pending
  BY <1>1 DEF Writer, Pending, IInv, TypeOK
<1>3. Bounded'
  BY <1>1, <1>2, FewerBounded DEF IInv, Typed, Bounded
<1>4. Fewer
  BY <1>1 DEF Writer, Fewer, Busy, IInv, TypeOK
<1>5. Begun
  BY <1>1 DEF Writer, Begun, IInv, TypeOK, Places
<1> QED BY <1>1, <1>3, <1>4, <1>5, OutOfRing

\* stopPLC() ends a thread wherever it is.
LEMMA EndThreadStep ==
    ASSUME IInv, TypeOK', Sequences', NEW w \in Writers, EndThread(w)
    PROVE  IInv'
<1>1. Pending' \subseteq Pending
  BY DEF EndThread, Leave, Pending, IInv, TypeOK
<1>2. Bounded'
  BY <1>1, FewerBounded DEF IInv, Typed, Bounded, EndThread
<1>3. Fewer
  BY DEF EndThread, Leave, Fewer, Busy, IInv, TypeOK
<1>4. Begun
  BY DEF EndThread, Leave, Begun, IInv, TypeOK, Places
<1> QED BY <1>2, <1>3, <1>4, OutOfRing DEF EndThread

----------------------------------------------------------------------------

\* The place that SwapCursor reserves.
LEMMA Reserving ==
    ASSUME IInv, Sequences', NEW w \in Writers, SwapCursor(w), LogCursor = old_cursor[w],
           NEW n, n = Len(sent) + 1
    PROVE  /\ writer[w] = "swap" /\ writer' = [writer EXCEPT ![w] = "body"]
           /\ n \in Nat /\ Len(sent') = n /\ n <= MaxMessages
           /\ first' = first /\ first <= n /\ first \in Nat /\ first > 0
           /\ \A m \in 1..Len(sent) : sent'[m] = sent[m]
           /\ sent'[n].start = Total /\ sent'[n].size = size[w] /\ ~sent'[n].done
           /\ sent'[n].clean = Clean(Total, Total + size[w] + 1)
           /\ msg' = [msg EXCEPT ![w] = n]
           /\ LogCursor' = [count |-> LogCursor.count + 1,
                            pos |-> Around(LogCursor.pos + size[w] + 1)]
           /\ size[w] \in Sizes /\ copied[w] = 0
           /\ UNCHANGED <<LogBuff, old_cursor, size, copied, readerVars>>
<1> DEFINE c == Clean(Total, Total + size[w] + 1)
           m == [start |-> Total, size |-> size[w], done |-> FALSE, clean |-> c]
<1>1. /\ writer[w] = "swap" /\ Reserve(w) /\ writer' = [writer EXCEPT ![w] = "body"]
      /\ UNCHANGED <<LogBuff, old_cursor, size, copied, readerVars, first>>
  BY DEF SwapCursor, Writer
<1>2. /\ Len(sent) \in Nat /\ first \in Nat /\ first > 0 /\ first <= n /\ n <= MaxMessages
      /\ Total \in Nat /\ size[w] \in Sizes /\ copied[w] = 0
  BY <1>1, TotalTypes, PendingTypes DEF IInv, TypeOK, Places, Bounded
<1>3. m \in Messages
  <2>1. c \in BOOLEAN
    BY DEF Clean
  <2> HIDE DEF c
  <2> QED BY <1>2, <2>1 DEF Messages
<1>4. sent' = Append(sent, m) /\ sent \in Seq(Messages)
  BY <1>1 DEF Reserve, IInv, Sequences
<1>5. m.start = Total /\ m.size = size[w] /\ m.done = FALSE /\ m.clean = c
  OBVIOUS
<1> HIDE DEF m, c
<1>6. /\ Len(sent') = n /\ sent'[n] = m
      /\ \A i \in 1..Len(sent) : sent'[i] = sent[i]
  BY <1>3, <1>4, AppendProperties
<1>7. /\ msg' = [msg EXCEPT ![w] = n]
      /\ LogCursor' = [count |-> LogCursor.count + 1,
                       pos |-> Around(LogCursor.pos + size[w] + 1)]
  BY <1>1 DEF Reserve
<1> QED BY <1>1, <1>2, <1>5, <1>6, <1>7 DEF c

\* It comes after all the others, and the cursor after it.
LEMMA ReservedPlaced ==
    ASSUME IInv, Sequences', NEW w \in Writers, SwapCursor(w), LogCursor = old_cursor[w],
           NEW n, n = Len(sent) + 1
    PROVE  /\ Placed'
           /\ Total' = End(n)' /\ Total' = Total + size[w] + 1 /\ Total' \in Nat
           /\ \A m \in 1..Len(sent) : End(m)' = End(m)
           /\ Reserved' = Reserved \cup {n} /\ n \notin Reserved
           /\ \A m \in Reserved : m \in 1..Len(sent) /\ End(m) <= Total
<1>1. /\ Len(sent) \in Nat /\ first \in Nat /\ first > 0 /\ first <= n
      /\ Total \in Nat /\ size[w] \in Nat
      /\ LogCursor.count = Len(sent) + 1 - first /\ LogCursor.pos = Around(Total)
  BY Reserving, TotalTypes, SizeTypes DEF IInv, Placed, CursorRight
<1>2. /\ Len(sent') = n /\ first' = first
      /\ sent'[n].start = Total /\ sent'[n].size = size[w]
      /\ \A m \in 1..Len(sent) : sent'[m] = sent[m]
      /\ LogCursor'.count = LogCursor.count + 1
      /\ LogCursor'.pos = Around(LogCursor.pos + size[w] + 1)
  BY Reserving
<1>3. Reserved' = Reserved \cup {n} /\ n \notin Reserved
  BY <1>1, <1>2 DEF Reserved
<1>4. \A m \in 1..Len(sent) : End(m)' = End(m)
  BY <1>2 DEF End
<1>5. End(n)' = Total + size[w] + 1
  BY <1>2 DEF End
<1>6. Total' = End(n)'
  BY <1>1, <1>2 DEF Total
<1>7. CursorRight'
  <2>1. Around(Around(Total) + (size[w] + 1)) = Around(Total + (size[w] + 1))
    <3> DEFINE t == Total
               s == size[w] + 1
    <3>1. t \in Int /\ s \in Int
      BY <1>1
    <3> HIDE DEF t, s
    <3>2. Around(Around(t) + s) = Around(t + s)
      BY <3>1, AroundAdds
    <3> QED BY <3>2 DEF t, s
  <2>2. Around(Total) \in Int
    BY <1>1, AroundInRing, LogBufferAssumption DEF Positions
  <2>3. Around(Total) + size[w] + 1 = Around(Total) + (size[w] + 1)
    BY <1>1, <2>2
  <2>4. LogCursor'.pos = Around(Total')
    BY <1>1, <1>2, <1>5, <1>6, <2>1, <2>3
  <2>5. LogCursor'.count = Len(sent') + 1 - first
    BY <1>1, <1>2
  <2> QED BY <1>2, <2>4, <2>5 DEF CursorRight
<1>8. \A m \in Reserved : m \in 1..Len(sent) /\ End(m) <= Total
  BY TotalTypes DEF IInv
<1>9. first \in Reserved' => sent'[first].start = 0
  <2>1. CASE Reserved = {}
    <3>1. Total = 0 /\ first = n
      BY <2>1, TotalTypes DEF IInv
    <3> QED BY <1>2, <3>1
  <2>2. CASE Reserved # {}
    <3>1. first \in Reserved
      BY <1>1, <2>2 DEF Reserved
    <3> QED BY <1>2, <1>8, <3>1 DEF IInv, Placed
  <2> QED BY <2>1, <2>2
<1>10. ASSUME NEW i \in Reserved', NEW j \in Reserved', i < j PROVE End(i)' <= sent'[j].start
  <2>1. i \in Reserved /\ i \in 1..Len(sent)
    BY <1>1, <1>3, <1>8, <1>10
  <2>2. CASE j = n
    BY <1>2, <1>4, <1>8, <2>1, <2>2
  <2>3. CASE j # n
    <3>1. j \in Reserved
      BY <1>3, <2>3
    <3> QED BY <1>2, <1>4, <1>8, <1>10, <2>1, <3>1 DEF IInv, Placed
  <2> QED BY <2>2, <2>3
<1>11. ASSUME NEW i \in Reserved', NEW j \in Reserved', j = i + 1 PROVE End(i)' = sent'[j].start
  <2>1. i \in Reserved /\ i \in 1..Len(sent)
    <3>1. i \in 1..n /\ j \in 1..n
      BY <1>1, <1>3, <1>8
    <3>2. i # n
      BY <1>1, <1>11, <3>1
    <3> QED BY <1>3, <1>8, <3>2
  <2>2. CASE j = n
    <3>1. i = Len(sent)
      BY <1>1, <1>11, <2>1, <2>2
    <3>2. Total = End(i)
      BY <2>1, <3>1, TotalTypes DEF IInv
    <3> QED BY <1>2, <1>4, <2>1, <2>2, <3>2
  <2>3. CASE j # n
    <3>1. j \in Reserved
      BY <1>3, <2>3
    <3> QED BY <1>2, <1>4, <1>8, <1>11, <2>1, <3>1 DEF IInv, Placed
  <2> QED BY <2>2, <2>3
<1>12. Placed'
  BY <1>2, <1>7, <1>9, <1>10, <1>11 DEF Placed
<1>13. Total' \in Nat
  BY <1>1, <1>5, <1>6
<1> QED BY <1>3, <1>4, <1>5, <1>6, <1>8, <1>12, <1>13

\* ... or it succeeds, and the writer has a place that is its own.
LEMMA SwapCursorStep ==
    ASSUME IInv, TypeOK', Sequences', NEW w \in Writers, SwapCursor(w), LogCursor = old_cursor[w],
           NEW n, n = Len(sent) + 1
    PROVE  IInv'
<1>1. /\ writer[w] = "swap" /\ writer' = [writer EXCEPT ![w] = "body"]
      /\ n \in Nat /\ Len(sent') = n /\ n <= MaxMessages
      /\ first' = first /\ first <= n /\ first \in Nat /\ first > 0
      /\ \A m \in 1..Len(sent) : sent'[m] = sent[m]
      /\ sent'[n].start = Total /\ sent'[n].size = size[w] /\ ~sent'[n].done
      /\ sent'[n].clean = Clean(Total, Total + size[w] + 1)
      /\ msg' = [msg EXCEPT ![w] = n]
      /\ LogCursor' = [count |-> LogCursor.count + 1,
                       pos |-> Around(LogCursor.pos + size[w] + 1)]
      /\ size[w] \in Sizes /\ copied[w] = 0
      /\ UNCHANGED <<LogBuff, old_cursor, size, copied, readerVars>>
  BY Reserving
<1>2. /\ Placed'
      /\ Total' = End(n)' /\ Total' = Total + size[w] + 1 /\ Total' \in Nat
      /\ \A m \in 1..Len(sent) : End(m)' = End(m)
      /\ Reserved' = Reserved \cup {n} /\ n \notin Reserved
      /\ \A m \in Reserved : m \in 1..Len(sent) /\ End(m) <= Total
  BY ReservedPlaced
<1>3. /\ Len(sent) \in Nat /\ n = Len(sent) + 1 /\ \A m \in 1..Len(sent) : m # n
      /\ size[w] \in Nat /\ size[w] > 0 /\ Total \in Nat
  BY <1>1, SizeTypes, TotalTypes DEF IInv, Sequences
<1>4. /\ \A v \in Writers : v # w =>
             /\ writer'[v] = writer[v] /\ msg'[v] = msg[v]
             /\ Busy(v)' = Busy(v)
      /\ writer'[w] = "body" /\ msg'[w] = n
  BY <1>1 DEF IInv, TypeOK, Busy
<1>5. \A v \in Writers : v # w /\ Busy(v) =>
          msg[v] \in 1..Len(sent) /\ msg[v] # n /\ (msg[v] \in Reserved' => msg[v] \in Reserved)
  BY <1>2, <1>3 DEF IInv, Places
<1>6. Bounded'
  <2>1. Pending' = Pending \ {w} /\ w \in Pending
    BY <1>1, <1>4 DEF Pending
  <2>2. IsFiniteSet(Pending) /\ Cardinality(Pending) \in Nat
    BY FS_CardinalityType DEF IInv, Bounded
  <2>3. IsFiniteSet(Pending') /\ Cardinality(Pending') = Cardinality(Pending) - 1
    BY <2>1, <2>2, FS_RemoveElement
  <2>4. Len(sent) + Cardinality(Pending) <= MaxMessages
    BY DEF IInv, Bounded
  <2>5. first' <= Len(sent') + 1
    BY <1>1
  <2> HIDE DEF Pending
  <2>6. Len(sent') + Cardinality(Pending') <= MaxMessages
    BY <1>1, <1>3, <2>2, <2>3, <2>4, LogBufferAssumption
  <2> QED BY <2>3, <2>5, <2>6 DEF Bounded
<1>7. Places'
  <2> SUFFICES ASSUME NEW v \in Writers
               PROVE  /\ writer'[v] # "idle" => size[v] \in Sizes
                      /\ writer'[v] \in {"idle", "load", "swap"} => copied[v] = 0
                      /\ Busy(v)' =>
                          /\ msg'[v] \in 1..n
                          /\ size[v] = sent'[msg'[v]].size
                          /\ ~sent'[msg'[v]].done
                          /\ writer'[v] = "body" => copied[v] < size[v]
                          /\ writer'[v] = "tail" => copied[v] = size[v]
                          /\ msg'[v] \in Reserved' =>
                              /\ old_cursor[v].pos = Around(sent'[msg'[v]].start)
                              /\ old_cursor[v].count = msg'[v] - first
                      /\ \A u \in Writers : Busy(v)' /\ Busy(u)' /\ msg'[v] = msg'[u] => v = u
    BY <1>1 DEF Places
  <2>1. CASE v = w
    <3>1. /\ old_cursor[w].pos = Around(Total)
          /\ old_cursor[w].count = n - first
      BY <1>1, <1>3 DEF IInv, Placed, CursorRight
    <3>2. \A u \in Writers : Busy(u)' /\ msg'[u] = n => u = w
      BY <1>4, <1>5
    <3> QED BY <1>1, <1>3, <1>4, <2>1, <3>1, <3>2
  <2>2. CASE v # w
    <3>1. /\ writer'[v] = writer[v] /\ msg'[v] = msg[v] /\ Busy(v)' = Busy(v)
      BY <1>4, <2>2
    <3>2. Busy(v) => sent'[msg[v]] = sent[msg[v]] /\ msg[v] \in 1..n
      BY <1>1, <1>3, <1>5, <2>2
    <3>3. \A u \in Writers : Busy(v)' /\ Busy(u)' /\ msg'[v] = msg'[u] => v = u
      <4>1. \A u \in Writers : Busy(v) /\ Busy(u) /\ msg[v] = msg[u] => v = u
        BY DEF IInv, Places
      <4> QED BY <1>4, <1>5, <2>2, <3>1, <4>1
    <3>4. /\ writer[v] # "idle" => size[v] \in Sizes
          /\ writer[v] \in {"idle", "load", "swap"} => copied[v] = 0
          /\ Busy(v) =>
                          /\ size[v] = sent[msg[v]].size
                          /\ ~sent[msg[v]].done
                          /\ writer[v] = "body" => copied[v] < size[v]
                          /\ writer[v] = "tail" => copied[v] = size[v]
                          /\ msg[v] \in Reserved =>
                              /\ old_cursor[v].pos = Around(sent[msg[v]].start)
                              /\ old_cursor[v].count = msg[v] - first
      BY DEF IInv, Places
    <3> QED BY <1>5, <2>2, <3>1, <3>2, <3>3, <3>4
  <2> QED BY <2>1, <2>2
<1>8. CleanKept'
  <2> SUFFICES ASSUME NEW k \in Reserved', sent'[k].clean, NEW v \in Writers, Busy(v)', msg'[v] < k
               PROVE  msg'[v] \in Reserved' /\ sent'[msg'[v]].start + LOG_BUFFER_SIZE >= End(k)'
    BY DEF CleanKept
  <2>1. k \in Nat /\ k <= n
    BY <1>2, <1>3
  <2>2. v # w
    BY <1>3, <1>4, <2>1
  <2>3. /\ Busy(v) /\ msg'[v] = msg[v] /\ msg[v] \in 1..Len(sent) /\ msg[v] # n
        /\ sent'[msg[v]] = sent[msg[v]]
    BY <1>1, <1>4, <1>5, <2>2
  <2>4. CASE k = n
    <3>1. msg[v] >= first /\ sent[msg[v]].start + LOG_BUFFER_SIZE >= Total + size[w] + 1
      <4>1. msg[v] \in Copying
        BY <2>3 DEF Copying, Busy
      <4> QED BY <1>1, <2>4, <4>1 DEF Clean
    <3>2. msg[v] \in Reserved
      BY <1>1, <1>3, <2>3, <3>1 DEF Reserved
    <3> QED BY <1>2, <2>3, <2>4, <3>1, <3>2
  <2>5. CASE k # n
    <3>1. k \in Reserved /\ sent'[k] = sent[k] /\ End(k)' = End(k)
      BY <1>1, <1>2, <2>5
    <3>2. msg[v] \in Reserved /\ sent[msg[v]].start + LOG_BUFFER_SIZE >= End(k)
      BY <2>3, <3>1 DEF IInv, CleanKept
    <3> QED BY <1>2, <2>3, <3>1, <3>2
  <2> QED BY <2>4, <2>5
<1>9. Content'
  <2> SUFFICES ASSUME NEW k \in Reserved', sent'[k].clean, Kept(k)'
               PROVE  /\ sent'[k].done => Intact(k, sent[k].size + 1)'
                      /\ \A v \in Writers : Busy(v)' /\ msg'[v] = k => Intact(k, copied[v])'
    BY <1>1 DEF Content
  <2>1. CASE k = n
    <3>1. \A v \in Writers : Busy(v)' /\ msg'[v] = n => v = w
      BY <1>4, <1>5
    <3>2. Intact(n, copied[w])'
      BY <1>1 DEF Intact
    <3> QED BY <1>1, <2>1, <3>1, <3>2
  <2>2. CASE k # n
    <3>1. k \in Reserved /\ k \in 1..Len(sent) /\ sent'[k] = sent[k]
      BY <1>1, <1>2, <2>2
    <3>2. Kept(k)
      BY <1>2, <1>3, <3>1, MessageTypes, LogBufferAssumption DEF Kept, IInv
    <3>3. \A len : Intact(k, len)' = Intact(k, len)
      BY <1>1, <3>1 DEF Intact, Place, Cell
    <3>4. \A v \in Writers : Busy(v)' /\ msg'[v] = k => Busy(v) /\ msg[v] = k
      BY <1>4, <2>2
    <3> QED BY <1>1, <3>1, <3>2, <3>3, <3>4 DEF IInv, Content
  <2> QED BY <2>1, <2>2
<1>10. Growing
  <2>1. LogCursor.count \in Nat
    BY LogBufferAssumption DEF IInv, TypeOK, Cursors
  <2> QED BY <1>1, <1>2, <1>3, <2>1 DEF Growing
<1>11. Reading'
  BY <1>1, <1>2, <1>6, <1>10, ReadingKept DEF IInv, Typed
<1>12. ReaderTyped'
  BY <1>1 DEF IInv, ReaderTyped, readerVars
<1> QED BY <1>2, <1>6, <1>7, <1>8, <1>9, <1>11, <1>12 DEF IInv

----------------------------------------------------------------------------

LEMMA WriterTypes ==
    ASSUME IInv, NEW w \in Writers, Busy(w)
    PROVE  /\ msg[w] \in 1..Len(sent) /\ size[w] = sent[msg[w]].size
           /\ size[w] \in Nat /\ size[w] > 0 /\ size[w] + 1 < LOG_BUFFER_SIZE
           /\ sent[msg[w]].start \in Nat
           /\ End(msg[w]) = sent[msg[w]].start + size[w] + 1
           /\ copied[w] \in Nat /\ copied[w] <= size[w]
<1>1. msg[w] \in 1..Len(sent) /\ size[w] = sent[msg[w]].size
  BY DEF IInv, Places
<1>2. copied[w] \in Nat
  BY LogBufferAssumption DEF IInv, TypeOK
<1>3. /\ size[w] \in Nat /\ size[w] > 0 /\ size[w] + 1 < LOG_BUFFER_SIZE
      /\ sent[msg[w]].start \in Nat
      /\ End(msg[w]) = sent[msg[w]].start + size[w] + 1
  BY <1>1, MessageTypes DEF IInv
<1>4. copied[w] <= size[w]
  BY <1>2, <1>3 DEF IInv, Places, Busy
<1> QED BY <1>1, <1>2, <1>3, <1>4

\* A writer that looks at the cursor it loaded writes in its own place.
LEMMA WritesInPlace ==
    ASSUME IInv, NEW w \in Writers, Busy(w), msg[w] \in Reserved, NEW k \in Nat
    PROVE  Around(old_cursor[w].pos + k) = Place(msg[w], k + 1)
<1> DEFINE s == sent[msg[w]].start
<1>1. s \in Int /\ old_cursor[w].pos = Around(s)
  BY WriterTypes DEF IInv, Places
<1>2. Place(msg[w], k + 1) = Around(s + (k + 1) - 1)
  BY DEF Place
<1> HIDE DEF s
<1>3. Around(Around(s) + k) = Around(s + k)
  BY <1>1, AroundAdds
<1>4. s + (k + 1) - 1 = s + k
  BY <1>1
<1> QED BY <1>1, <1>2, <1>3, <1>4

\* The cells of a place.
LEMMA CellsApart ==
    ASSUME NEW s \in Nat, NEW z \in Nat, z + 1 < LOG_BUFFER_SIZE,
           NEW k \in 1..z + 1, NEW j \in 1..z + 1, k # j
    PROVE  Around(s + k - 1) # Around(s + j - 1)
<1>1. s + k - 1 \in Int /\ s + j - 1 \in Int
  OBVIOUS
<1>2. CASE k < j
  <2>1. s + k - 1 < s + j - 1 /\ s + j - 1 < s + k - 1 + LOG_BUFFER_SIZE
    BY <1>2, RingSize
  <2> QED BY <1>1, <2>1, AroundApart
<1>3. CASE j < k
  <2>1. s + j - 1 < s + k - 1 /\ s + k - 1 < s + j - 1 + LOG_BUFFER_SIZE
    BY <1>3, RingSize
  <2> QED BY <1>1, <2>1, AroundApart
<1> QED BY <1>2, <1>3

\* No writer writes to a cell of a message that counts, but to the one of its own that is
\* next: one that is a lap behind would have been busy when the place was reserved, one that
\* is a lap ahead would have ended what is kept.
LEMMA WritesApart ==
    ASSUME IInv, NEW w \in Writers, Busy(w), NEW k \in 1..size[w] + 1,
           NEW n \in Reserved, sent[n].clean, Kept(n), NEW j \in 1..sent[n].size + 1
    PROVE  /\ msg[w] \in Reserved
           /\ Place(msg[w], k) = Place(n, j) => msg[w] = n /\ k = j
<1> DEFINE m == msg[w]
           s == sent[m].start
           z == size[w]
           t == sent[n].start
           y == sent[n].size
<1>1. /\ n \in 1..Len(sent) /\ n \in Nat /\ End(n) <= Total
      /\ Len(sent) \in Nat /\ first \in Nat /\ Total \in Nat
      /\ \A i \in Reserved : i \in 1..Len(sent) /\ End(i) <= Total
  BY TotalTypes DEF IInv
<1>2. /\ m \in 1..Len(sent) /\ z = sent[m].size
      /\ z \in Nat /\ z + 1 < LOG_BUFFER_SIZE
      /\ s \in Nat /\ End(m) = s + z + 1
  BY WriterTypes
<1>3. t \in Nat /\ y \in Nat /\ End(n) = t + y + 1
  BY <1>1, MessageTypes DEF IInv
<1>4. m \in Reserved
  <2>1. CASE m < n
    BY <2>1 DEF IInv, CleanKept
  <2>2. CASE ~(m < n)
    BY <1>1, <1>2, <2>2 DEF Reserved
  <2> QED BY <2>1, <2>2
<1>5. Place(m, k) = Around(s + k - 1) /\ Place(n, j) = Around(t + j - 1)
  BY DEF Place
<1>6. End(m) <= Total /\ Total - t <= LOG_BUFFER_SIZE
  BY <1>1, <1>4 DEF Kept
<1>7. k \in 1..z + 1 /\ j \in 1..y + 1
  OBVIOUS
<1>8. m < n => s + z + 1 <= t /\ s + LOG_BUFFER_SIZE >= t + y + 1
  BY <1>2, <1>3, <1>4 DEF IInv, Placed, CleanKept
<1>9. n < m => t + y + 1 <= s
  BY <1>2, <1>3, <1>4 DEF IInv, Placed
<1>10. m = n => s = t /\ z = y
  BY <1>2
<1>11. s + z + 1 <= Total
  BY <1>2, <1>6
<1> HIDE DEF m, s, z, t, y
<1>12. CASE m < n
  <2> DEFINE a == s + k - 1
             b == t + j - 1
  <2>1. s + z + 1 <= t /\ s + LOG_BUFFER_SIZE >= t + y + 1
    BY <1>8, <1>12
  <2>2. a \in Int /\ b \in Int /\ a < b /\ b < a + LOG_BUFFER_SIZE
    <3>1. a \in Int /\ b \in Int /\ a >= s /\ a <= s + z /\ b >= t /\ b <= t + y
      BY <1>2, <1>3, <1>7
    <3> HIDE DEF a, b
    <3>2. a < b
      BY <1>2, <1>3, <2>1, <3>1
    <3>3. b < a + LOG_BUFFER_SIZE
      BY <1>2, <1>3, <2>1, <3>1, RingSize
    <3> QED BY <3>1, <3>2, <3>3
  <2> HIDE DEF a, b
  <2>3. Around(a) # Around(b)
    BY <2>2, AroundApart
  <2> QED BY <1>4, <1>5, <2>3 DEF m, a, b
<1>13. CASE n < m
  <2>1. s + z + 1 <= t + LOG_BUFFER_SIZE
    BY <1>1, <1>2, <1>3, <1>6, <1>11, RingSize
  <2>2. t + y + 1 <= s
    BY <1>9, <1>13
  <2> DEFINE a == s + k - 1
             b == t + j - 1
  <2>3. a \in Int /\ b \in Int /\ b < a /\ a < b + LOG_BUFFER_SIZE
    <3>1. a \in Int /\ b \in Int /\ a >= s /\ a <= s + z /\ b >= t /\ b <= t + y
      BY <1>2, <1>3, <1>7
    <3> HIDE DEF a, b
    <3>2. b < a
      BY <1>2, <1>3, <2>2, <3>1
    <3>3. a < b + LOG_BUFFER_SIZE
      BY <1>2, <1>3, <2>1, <3>1, RingSize
    <3> QED BY <3>1, <3>2, <3>3
  <2> HIDE DEF a, b
  <2>4. Around(a) # Around(b)
    BY <2>3, AroundApart
  <2> QED BY <1>4, <1>5, <2>4 DEF m, a, b
<1>14. CASE m = n
  <2>1. k # j => Around(s + k - 1) # Around(s + j - 1)
    BY <1>2, <1>7, <1>10, <1>14, CellsApart
  <2> QED BY <1>4, <1>5, <1>10, <1>14, <2>1 DEF m
<1>15. m \in Int /\ n \in Int
  BY <1>1, <1>2
<1> QED BY <1>12, <1>13, <1>14, <1>15

\* A writer writes the cell that comes next in its place: it completes its own message
\* and no message that counts loses a cell.
LEMMA WriteEffect ==
    ASSUME IInv, TypeOK', Sequences', NEW w \in Writers, Busy(w), NEW k \in 1..size[w] + 1,
           k = copied[w] + 1,
           LogBuff' = [LogBuff EXCEPT ![Place(msg[w], k)] = Cell(msg[w], k)],
           NEW n \in Reserved, sent[n].clean, Kept(n)
    PROVE  /\ sent[n].done => \A j \in 1..sent[n].size + 1 : LogBuff'[Place(n, j)] = Cell(n, j)
           /\ \A v \in Writers : Busy(v) /\ msg[v] = n =>
                  \A j \in 1..copied[v] : LogBuff'[Place(n, j)] = Cell(n, j)
           /\ msg[w] = n => \A j \in 1..k : LogBuff'[Place(n, j)] = Cell(n, j)
<1>1. \A j \in 1..sent[n].size + 1 : Place(n, j) \in Positions
  <2>1. sent[n].start \in Nat /\ sent[n].size \in Nat
    BY MessageTypes, TotalTypes DEF IInv
  <2> SUFFICES ASSUME NEW j \in 1..sent[n].size + 1 PROVE Place(n, j) \in Positions
    OBVIOUS
  <2>2. sent[n].start + j - 1 \in Int
    BY <2>1
  <2> QED BY <2>2, AroundInRing DEF Place
<1>2. \A j \in 1..sent[n].size + 1 :
          LogBuff'[Place(n, j)] = IF msg[w] = n /\ k = j THEN Cell(n, j) ELSE LogBuff[Place(n, j)]
  <2> SUFFICES ASSUME NEW j \in 1..sent[n].size + 1
               PROVE  LogBuff'[Place(n, j)] =
                          IF msg[w] = n /\ k = j THEN Cell(n, j) ELSE LogBuff[Place(n, j)]
    OBVIOUS
  <2>1. Place(msg[w], k) = Place(n, j) => msg[w] = n /\ k = j
    BY WritesApart
  <2>2. Place(n, j) \in DOMAIN LogBuff
    BY <1>1 DEF IInv, TypeOK
  <2> QED BY <2>1, <2>2
<1>3. Content /\ sent[n].size \in Nat
  BY MessageTypes, TotalTypes DEF IInv
<1>4. ASSUME sent[n].done
      PROVE  \A j \in 1..sent[n].size + 1 : LogBuff'[Place(n, j)] = Cell(n, j)
  BY <1>2, <1>3, <1>4 DEF Content, Intact
<1>5. ASSUME NEW v \in Writers, Busy(v), msg[v] = n
      PROVE  \A j \in 1..copied[v] : LogBuff'[Place(n, j)] = Cell(n, j)
  <2>1. copied[v] \in Nat /\ copied[v] <= sent[n].size
    BY <1>5, WriterTypes
  <2>2. \A j \in 1..copied[v] : j \in 1..sent[n].size + 1
    BY <1>3, <2>1
  <2>3. \A j \in 1..copied[v] : LogBuff[Place(n, j)] = Cell(n, j)
    BY <1>3, <1>5 DEF Content, Intact
  <2> QED BY <1>2, <2>2, <2>3
<1>6. ASSUME msg[w] = n
      PROVE  \A j \in 1..k : LogBuff'[Place(n, j)] = Cell(n, j)
  <2>1. copied[w] \in Nat /\ copied[w] <= sent[n].size
    BY <1>6, WriterTypes
  <2>2. \A j \in 1..k : j \in 1..sent[n].size + 1 /\ (j = k \/ j \in 1..copied[w])
    BY <1>3, <2>1
  <2>3. \A j \in 1..copied[w] : LogBuff[Place(n, j)] = Cell(n, j)
    BY <1>3, <1>6 DEF Content, Intact
  <2> QED BY <1>2, <1>6, <2>2, <2>3
<1> QED BY <1>4, <1>5, <1>6

LEMMA CopyBodyStep ==
    ASSUME IInv, TypeOK', Sequences', NEW w \in Writers, CopyBody(w)
    PROVE  IInv'
<1> DEFINE k == copied[w] + 1
<1>1. /\ writer[w] = "body" /\ Busy(w)
      /\ writer' = [writer EXCEPT ![w] = IF k = size[w] THEN "tail" ELSE "body"]
      /\ copied' = [copied EXCEPT ![w] = k]
      /\ UNCHANGED <<LogCursor, old_cursor, size, msg, readerVars, sent, first>>
  BY DEF CopyBody, Writer, Busy
<1>2. /\ msg[w] \in 1..Len(sent) /\ size[w] = sent[msg[w]].size
      /\ size[w] \in Nat /\ copied[w] \in Nat /\ copied[w] < size[w]
  BY <1>1, WriterTypes DEF IInv, Places
<1>3. \A v \in Writers : /\ Busy(v)' = Busy(v)
                         /\ v # w => writer'[v] = writer[v] /\ copied'[v] = copied[v]
  BY <1>1 DEF IInv, TypeOK, Busy
<1>4. copied'[w] = k /\ (writer'[w] = "body" => k < size[w]) /\ (writer'[w] = "tail" => k = size[w])
      /\ writer'[w] \in {"body", "tail"}
  BY <1>1, <1>2 DEF IInv, TypeOK
<1>5. Bounded'
  <2>1. Pending' = Pending
    BY <1>1, <1>3 DEF Pending, Busy, IInv, TypeOK
  <2> QED BY <1>1, <2>1, FewerBounded DEF IInv, Typed, Bounded
<1>6. /\ Placed'
      /\ Reserved' = Reserved /\ Total' = Total
      /\ \A m : End(m)' = End(m)
  BY <1>1, SamePlaced DEF IInv, Typed, End
<1>7. Places'
  BY <1>1, <1>3, <1>4, <1>6 DEF Places, IInv, Busy
<1>8. CleanKept'
  BY <1>1, <1>3, <1>6 DEF CleanKept, IInv
<1>9. Content'
  <2> SUFFICES ASSUME NEW n \in Reserved, sent[n].clean, Kept(n)
               PROVE  /\ sent[n].done =>
                             \A j \in 1..sent[n].size + 1 : LogBuff'[Place(n, j)] = Cell(n, j)
                      /\ \A v \in Writers : Busy(v) /\ msg[v] = n =>
                             \A j \in 1..copied'[v] : LogBuff'[Place(n, j)] = Cell(n, j)
    BY <1>1, <1>3, <1>6 DEF Content, Intact, Kept, Place, Cell
  <2>1. msg[w] \in Reserved
    <3>1. sent[n].size \in Nat
      BY MessageTypes, TotalTypes DEF IInv
    <3>2. 1 \in 1..size[w] + 1 /\ 1 \in 1..sent[n].size + 1
      BY <1>2, <3>1
    <3> QED BY <1>1, <3>2, WritesApart
  <2>2. LogBuff' = [LogBuff EXCEPT ![Place(msg[w], k)] = Cell(msg[w], k)]
    <3>1. Around(old_cursor[w].pos + copied[w]) = Place(msg[w], k)
      BY <1>1, <1>2, <2>1, WritesInPlace
    <3>2. Cell(msg[w], k) = BodyCell(msg[w], k)
      BY <1>2 DEF Cell
    <3> QED BY <3>1, <3>2 DEF CopyBody
  <2>3. k \in 1..size[w] + 1
    BY <1>2
  <2>4. /\ sent[n].done => \A j \in 1..sent[n].size + 1 : LogBuff'[Place(n, j)] = Cell(n, j)
        /\ \A v \in Writers : Busy(v) /\ msg[v] = n =>
               \A j \in 1..copied[v] : LogBuff'[Place(n, j)] = Cell(n, j)
        /\ msg[w] = n => \A j \in 1..k : LogBuff'[Place(n, j)] = Cell(n, j)
    <3> HIDE DEF k
    <3>1. k = copied[w] + 1
      BY DEF k
    <3> QED BY <1>1, <2>2, <2>3, <3>1, WriteEffect
  <2> QED BY <1>3, <1>4, <2>4
<1>10. Growing
  BY <1>1, SameGrowing DEF IInv, Typed
<1>11. Reading'
  BY <1>1, <1>5, <1>6, <1>10, ReadingKept DEF IInv, Typed
<1>12. ReaderTyped'
  BY <1>1 DEF IInv, ReaderTyped, readerVars
<1> QED BY <1>5, <1>6, <1>7, <1>8, <1>9, <1>11, <1>12 DEF IInv

\* The last cell: the message is done, and whole if it was clean.
LEMMA CopyTailStep ==
    ASSUME IInv, TypeOK', Sequences', NEW w \in Writers, CopyTail(w)
    PROVE  IInv'
<1> DEFINE k == copied[w] + 1
<1>1. /\ writer[w] = "tail" /\ Busy(w) /\ Leave(w)
      /\ sent' = [sent EXCEPT ![msg[w]].done = TRUE]
      /\ UNCHANGED <<LogCursor, readerVars, first>>
  BY DEF CopyTail, Busy
<1>2. /\ msg[w] \in 1..Len(sent) /\ size[w] = sent[msg[w]].size
      /\ size[w] \in Nat /\ copied[w] \in Nat /\ copied[w] = size[w]
  BY <1>1, WriterTypes DEF IInv, Places
<1>3. /\ \A v \in Writers :
             /\ Busy(v)' <=> Busy(v) /\ v # w
             /\ v # w => /\ writer'[v] = writer[v] /\ old_cursor'[v] = old_cursor[v]
                         /\ size'[v] = size[v] /\ msg'[v] = msg[v] /\ copied'[v] = copied[v]
      /\ writer'[w] = "idle" /\ copied'[w] = 0
  BY <1>1 DEF IInv, TypeOK, Busy, Leave
<1>4. /\ Len(sent') = Len(sent)
      /\ \A m \in 1..Len(sent) :
             /\ sent'[m].start = sent[m].start /\ sent'[m].size = sent[m].size
             /\ sent'[m].clean = sent[m].clean
             /\ m # msg[w] => sent'[m] = sent[m]
      /\ sent'[msg[w]].done
  <2> DEFINE x == msg[w]
             r == [sent[x] EXCEPT !.done = TRUE]
  <2>1. sent \in Seq(Messages) /\ x \in 1..Len(sent) /\ sent[x] \in Messages
    BY <1>2, MessageTypes DEF IInv, Sequences
  <2>2. r.start = sent[x].start /\ r.size = sent[x].size /\ r.clean = sent[x].clean /\ r.done
    BY <2>1 DEF Messages
  <2>3. sent' = [sent EXCEPT ![x] = r]
    BY <1>1
  <2> HIDE DEF x, r
  <2>4. /\ Len(sent') = Len(sent) /\ sent'[x] = r
        /\ \A m \in 1..Len(sent) : m # x => sent'[m] = sent[m]
    BY <2>1, <2>3
  <2> QED BY <2>2, <2>4 DEF x
<1>5. Bounded'
  <2>1. Pending' \subseteq Pending
    BY <1>1, <1>3 DEF Pending
  <2> QED BY <1>1, <1>4, <2>1, FewerBounded DEF IInv, Typed, Bounded
<1>6. /\ Placed'
      /\ Reserved' = Reserved /\ Total' = Total
      /\ \A m \in 1..Len(sent) : End(m)' = End(m)
      /\ \A m \in Reserved : m \in 1..Len(sent)
  BY <1>1, <1>4, SamePlaced, TotalTypes DEF IInv, Typed
<1>7. Places'
  <2> SUFFICES ASSUME NEW v \in Writers
               PROVE  /\ writer'[v] # "idle" => size'[v] \in Sizes
                      /\ writer'[v] \in {"idle", "load", "swap"} => copied'[v] = 0
                      /\ Busy(v)' =>
                          /\ msg'[v] \in 1..Len(sent)
                          /\ size'[v] = sent'[msg'[v]].size
                          /\ ~sent'[msg'[v]].done
                          /\ writer'[v] = "body" => copied'[v] < size'[v]
                          /\ writer'[v] = "tail" => copied'[v] = size'[v]
                          /\ msg'[v] \in Reserved =>
                              /\ old_cursor'[v].pos = Around(sent'[msg'[v]].start)
                              /\ old_cursor'[v].count = msg'[v] - first
                      /\ \A u \in Writers : Busy(v)' /\ Busy(u)' /\ msg'[v] = msg'[u] => v = u
    BY <1>1, <1>4, <1>6 DEF Places
  <2>1. CASE v = w
    BY <1>3, <2>1
  <2>2. CASE v # w
    <3>1. Busy(v) => msg[v] # msg[w]
      BY <1>1, <2>2 DEF IInv, Places
    <3>2. /\ writer[v] # "idle" => size[v] \in Sizes
          /\ writer[v] \in {"idle", "load", "swap"} => copied[v] = 0
          /\ Busy(v) =>
              /\ msg[v] \in 1..Len(sent)
              /\ size[v] = sent[msg[v]].size
              /\ ~sent[msg[v]].done
              /\ writer[v] = "body" => copied[v] < size[v]
              /\ writer[v] = "tail" => copied[v] = size[v]
              /\ msg[v] \in Reserved =>
                  /\ old_cursor[v].pos = Around(sent[msg[v]].start)
                  /\ old_cursor[v].count = msg[v] - first
          /\ \A u \in Writers : Busy(v) /\ Busy(u) /\ msg[v] = msg[u] => v = u
      BY DEF IInv, Places
    <3>3. /\ Busy(v)' <=> Busy(v)
          /\ writer'[v] = writer[v] /\ old_cursor'[v] = old_cursor[v]
          /\ size'[v] = size[v] /\ msg'[v] = msg[v] /\ copied'[v] = copied[v]
      BY <1>3, <2>2
    <3>4. Busy(v) => sent'[msg[v]] = sent[msg[v]]
      BY <1>4, <3>1, <3>2
    <3>5. \A u \in Writers : Busy(v)' /\ Busy(u)' /\ msg'[v] = msg'[u] => v = u
      BY <1>3, <3>2, <3>3
    <3> QED BY <3>2, <3>3, <3>4, <3>5
  <2> QED BY <2>1, <2>2
<1>8. CleanKept'
  <2> SUFFICES ASSUME NEW n \in Reserved, sent'[n].clean,
                      NEW v \in Writers, Busy(v)', msg'[v] < n
               PROVE  msg'[v] \in Reserved /\ sent'[msg'[v]].start + LOG_BUFFER_SIZE >= End(n)'
    BY <1>6 DEF CleanKept
  <2>1. Busy(v) /\ msg'[v] = msg[v]
    BY <1>3
  <2>2. n \in 1..Len(sent) /\ sent[n].clean /\ End(n)' = End(n)
    BY <1>4, <1>6
  <2>3. msg[v] \in Reserved /\ sent[msg[v]].start + LOG_BUFFER_SIZE >= End(n)
    BY <2>1, <2>2 DEF IInv, CleanKept
  <2> QED BY <1>4, <1>6, <2>1, <2>2, <2>3
<1>9. Content'
  <2> SUFFICES ASSUME NEW n \in Reserved, sent[n].clean, Kept(n)
               PROVE  /\ sent'[n].done =>
                             \A j \in 1..sent[n].size + 1 : LogBuff'[Place(n, j)] = Cell(n, j)
                      /\ \A v \in Writers : v # w /\ Busy(v) /\ msg[v] = n =>
                             \A j \in 1..copied[v] : LogBuff'[Place(n, j)] = Cell(n, j)
    <3>1. ASSUME NEW n \in Reserved
          PROVE  /\ sent'[n].clean = sent[n].clean /\ sent'[n].size = sent[n].size
                 /\ Kept(n)' = Kept(n)
                 /\ \A j : Place(n, j)' = Place(n, j) /\ Cell(n, j)' = Cell(n, j)
      <4>1. n \in 1..Len(sent)
        BY <1>6
      <4> QED BY <1>1, <1>4, <1>6, <4>1 DEF Kept, Place, Cell
    <3>2. \A n \in Reserved, v \in Writers :
              Busy(v)' /\ msg'[v] = n => v # w /\ Busy(v) /\ msg[v] = n /\ copied'[v] = copied[v]
      BY <1>3
    <3>3. SUFFICES ASSUME NEW n \in Reserved', sent'[n].clean, Kept(n)'
                   PROVE  /\ sent'[n].done =>
                                 \A j \in 1..sent[n].size + 1 : LogBuff'[Place(n, j)] = Cell(n, j)
                          /\ \A v \in Writers : Busy(v)' /\ msg'[v] = n =>
                                 \A j \in 1..copied'[v] : LogBuff'[Place(n, j)] = Cell(n, j)
      BY <1>6, <3>1 DEF Content, Intact
    <3>4. n \in Reserved /\ sent[n].clean /\ Kept(n)
      BY <1>6, <3>1, <3>3
    <3>5. sent'[n].done => \A j \in 1..sent[n].size + 1 : LogBuff'[Place(n, j)] = Cell(n, j)
      BY <3>4
    <3>6. ASSUME NEW v \in Writers, Busy(v)', msg'[v] = n
          PROVE  \A j \in 1..copied'[v] : LogBuff'[Place(n, j)] = Cell(n, j)
      <4>1. v # w /\ Busy(v) /\ msg[v] = n /\ copied'[v] = copied[v]
        BY <3>2, <3>4, <3>6
      <4>2. \A j \in 1..copied[v] : LogBuff'[Place(n, j)] = Cell(n, j)
        BY <3>4, <4>1
      <4> QED BY <4>1, <4>2
    <3> QED BY <3>5, <3>6
  <2>1. msg[w] \in Reserved
    <3>1. sent[n].size \in Nat
      BY MessageTypes, TotalTypes DEF IInv
    <3>2. 1 \in 1..size[w] + 1 /\ 1 \in 1..sent[n].size + 1
      BY <1>2, <3>1
    <3> QED BY <1>1, <3>2, WritesApart
  <2>2. LogBuff' = [LogBuff EXCEPT ![Place(msg[w], k)] = Cell(msg[w], k)]
    <3>1. TailPlace(w) = Place(msg[w], k)
      BY <1>1, <1>2, <2>1, WritesInPlace DEF TailPlace
    <3>2. Cell(msg[w], k) = TailCell(old_cursor[w].count, size[w])
      BY <1>1, <1>2, <2>1 DEF Cell, IInv, Places
    <3> QED BY <3>1, <3>2 DEF CopyTail
  <2>3. k \in 1..size[w] + 1
    BY <1>2
  <2>4. /\ sent[n].done => \A j \in 1..sent[n].size + 1 : LogBuff'[Place(n, j)] = Cell(n, j)
        /\ \A v \in Writers : Busy(v) /\ msg[v] = n =>
               \A j \in 1..copied[v] : LogBuff'[Place(n, j)] = Cell(n, j)
        /\ msg[w] = n => \A j \in 1..k : LogBuff'[Place(n, j)] = Cell(n, j)
    <3> HIDE DEF k
    <3>1. k = copied[w] + 1
      BY DEF k
    <3> QED BY <1>1, <2>2, <2>3, <3>1, WriteEffect
  <2>5. msg[w] = n => k = sent[n].size + 1
    BY <1>2
  <2>6. msg[w] # n => sent'[n] = sent[n]
    BY <1>4, <1>6
  <2> HIDE DEF k
  <2> QED BY <2>4, <2>5, <2>6
<1>10. Growing
  BY <1>1, <1>4, SameGrowing, MessageTypes DEF IInv, Typed
<1>11. Reading'
  BY <1>1, <1>5, <1>6, <1>10, ReadingKept DEF IInv, Typed
<1>12. ReaderTyped'
  BY <1>1 DEF IInv, ReaderTyped, readerVars
<1> QED BY <1>5, <1>6, <1>7, <1>8, <1>9, <1>11, <1>12 DEF IInv

----------------------------------------------------------------------------

\* A reader changes nothing for the writers.
LEMMA ReaderKeeps ==
    ASSUME IInv, UNCHANGED <<LogBuff, LogCursor, writerVars, sent, first>>
    PROVE  /\ Bounded' /\ Placed' /\ Places' /\ CleanKept' /\ Content'
           /\ Reserved' = Reserved
           /\ \A m : /\ End(m)' = End(m) /\ (Sound(m)' <=> Sound(m))
                     /\ (Kept(m)' <=> Kept(m))
<1>1. /\ Pending' = Pending /\ Reserved' = Reserved /\ Total' = Total
      /\ \A m : End(m)' = End(m) /\ (Sound(m)' <=> Sound(m))
  BY DEF Pending, Reserved, Total, End, Sound, writerVars
<1>2. \A m : Kept(m)' <=> Kept(m)
  BY <1>1 DEF Kept
<1>3. Bounded'
  BY <1>1 DEF IInv, Bounded
<1>4. Placed'
  BY <1>1 DEF IInv, Placed, CursorRight
<1>5. Fewer /\ Begun
  BY DEF Fewer, Begun, Busy, writerVars, IInv, Places
<1>6. Places' /\ CleanKept' /\ Content'
  BY <1>5, FewerKeeps DEF IInv
<1> QED BY <1>1, <1>2, <1>3, <1>4, <1>6

LEMMA IndexTypes ==
    ASSUME IInv
    PROVE  /\ Len(sent) \in Nat /\ first \in Nat /\ first > 0 /\ msgidx \in Nat
           /\ LogCursor.count = Len(sent) + 1 - first /\ LogCursor.count \in Nat
           /\ LogCursor.pos = Around(Total) /\ Total \in Nat
           /\ \A m \in Int : m \in Reserved <=> m >= first /\ m <= Len(sent)
           /\ \A m \in Reserved : m \in Nat /\ m \in 1..Len(sent)
BY TotalTypes, LogBufferAssumption DEF IInv, TypeOK, Cursors, Placed, CursorRight, Reserved

\* The search begins after the last message.
LEMMA GetLogMessageStep ==
    ASSUME IInv, TypeOK', Sequences', NEW idx \in 0..MaxMessages - 1, GetLogMessage(idx)
    PROVE  IInv'
<1>1. /\ reader = "idle" /\ reader' = "search" /\ msgidx' = idx /\ buf' = << >>
      /\ stailpos' = LogCursor.pos /\ tail' = [msgidx |-> LogCursor.count, msgsize |-> 0]
      /\ UNCHANGED <<LogBuff, LogCursor, writerVars, sent, first>>
  BY DEF GetLogMessage
<1>2. sure' <=> /\ idx < LogCursor.count
                /\ \A m \in Indexed(idx)..Len(sent) : sent[m].done /\ sent[m].clean
  BY DEF GetLogMessage
<1>3. ReaderTyped'
  BY <1>1 DEF ReaderTyped
<1>4. ASSUME sure' PROVE Sound(Sought)' /\ Searching'
  <2>1. idx < LogCursor.count /\ idx \in Nat /\ Sought' = first + idx /\ Indexed(idx) = first + idx
    BY <1>1, <1>2, <1>4, LogBufferAssumption DEF Sought, Indexed
  <2>2. \A m \in Int : m >= first + idx /\ m <= Len(sent) => Sound(m)
    <3> SUFFICES ASSUME NEW m \in Int, m >= first + idx, m <= Len(sent) PROVE Sound(m)
      OBVIOUS
    <3>1. m \in Reserved
      BY <2>1, IndexTypes
    <3>2. m \in Indexed(idx)..Len(sent)
      BY <2>1, IndexTypes
    <3> QED BY <1>2, <1>4, <3>1, <3>2 DEF Sound
  <2>3. first + idx \in Int /\ first + idx <= Len(sent)
    BY <2>1, IndexTypes
  <2>4. Sound(Sought)'
    <3>1. Sound(first + idx)'
      BY <1>1, <2>2, <2>3, ReaderKeeps
    <3> QED BY <1>1, <2>1, <3>1 DEF Sound
  <2>5. tail'.msgidx \in msgidx' + 1..LogCursor'.count
    BY <1>1, <2>1, IndexTypes
  <2>6. Around(stailpos' - tail'.msgsize) = Around(End(Indexed(tail.msgidx) - 1))'
    <3>1. stailpos' - tail'.msgsize = LogCursor.pos /\ tail'.msgidx = LogCursor.count
      BY <1>1, LogBufferAssumption DEF IInv, TypeOK, Cursors, Positions
    <3>2. (Indexed(tail.msgidx) - 1)' = Len(sent)
      BY <1>1, <3>1, IndexTypes DEF Indexed
    <3>3. Len(sent) \in Reserved /\ Total = End(Len(sent))
      BY <2>1, IndexTypes, TotalTypes DEF IInv
    <3>4. End(Indexed(tail.msgidx) - 1)' = End(Len(sent))
      BY <1>1, <3>2 DEF End
    <3>5. Around(Total + 0) = Around(Around(Total) + 0)
      BY IndexTypes, AroundAdds
    <3>6. Around(Total) \in Int /\ Total \in Int
      BY IndexTypes, AroundInRing, LogBufferAssumption DEF Positions
    <3>7. Around(Around(Total)) = Around(Total)
      BY <3>5, <3>6
    <3>8. Around(stailpos' - tail'.msgsize) = Around(Total)
      BY <3>1, <3>7, IndexTypes
    <3>9. Around(End(Indexed(tail.msgidx) - 1))' = Around(Total)
      BY <3>3, <3>4 DEF Around
    <3> QED BY <3>8, <3>9
  <2>7. ASSUME NEW m \in (Sought..Indexed(tail.msgidx) - 1)'
        PROVE  Sound(m)'
    <3>1. m \in first + idx..Len(sent)
      BY <1>1, <2>1, <2>7, IndexTypes DEF Indexed
    <3>2. Sound(m)
      BY <2>2, <2>3, <3>1, IndexTypes
    <3> QED BY <1>1, <3>2, ReaderKeeps
  <2> QED BY <2>4, <2>5, <2>6, <2>7 DEF Searching
<1>5. Reading'
  BY <1>1, <1>4 DEF Reading
<1> QED BY <1>1, <1>3, <1>5, ReaderKeeps DEF IInv

\* A step back: from the end of a sound message to its tail, and from there to its start.
LEMMA SearchTailStep ==
    ASSUME IInv, TypeOK', Sequences', SearchTail
    PROVE  IInv'
<1>1. /\ reader = "search"
      /\ stailpos' = Around(stailpos - 1 - tail.msgsize) /\ tail' = LogBuff[stailpos'].tail
      /\ reader' = IF Follows(tail'.msgidx, tail.msgidx) THEN "search"
                   ELSE IF tail'.msgidx # msgidx THEN "nothing"
                   ELSE IF tail'.msgsize = 0 THEN "nothing"
                   ELSE "copy"
      /\ UNCHANGED <<LogBuff, LogCursor, writerVars, msgidx, buf, sent, first, sure>>
  BY DEF SearchTail
<1>2. buf = << >> /\ Len(buf) = 0
  BY <1>1 DEF IInv, ReaderTyped
<1>3. ReaderTyped'
  <2>1. tail'.msgsize \in Nat
    BY LogBufferAssumption DEF TypeOK, Tails
  <2>2. reader' = "copy" => tail'.msgsize # 0
    BY <1>1
  <2>3. reader' # "idle"
    BY <1>1
  <2> QED BY <1>1, <1>2, <2>1, <2>2, <2>3 DEF ReaderTyped
<1>4. ASSUME sure PROVE Sound(Sought)' /\ Sound(Sought) /\ Sought' = Sought
  <2>1. Sound(Sought) /\ Sought' = Sought
    BY <1>1, <1>4 DEF IInv, Reading, Sought, Indexed
  <2> QED BY <1>1, <2>1, ReaderKeeps DEF Sound
<1>5. ASSUME sure, Kept(Sought)
      PROVE  /\ reader' = "search" => Searching'
             /\ reader' = "copy" => Copied'
             /\ reader' \in {"search", "copy"}
  <2> DEFINE n == first + tail.msgidx - 1
  <2>1. Searching /\ Sound(Sought) /\ Sought = first + msgidx /\ Indexed(tail.msgidx) - 1 = n
    <3>1. Searching /\ Sound(Sought)
      BY <1>1, <1>5 DEF IInv, Reading
    <3>2. Sought = first + msgidx /\ Indexed(tail.msgidx) = first + tail.msgidx
      BY DEF Sought, Indexed
    <3>3. first \in Int /\ tail.msgidx \in Int
      BY IndexTypes DEF IInv, TypeOK, Tails
    <3>4. Indexed(tail.msgidx) - 1 = n
      BY <3>2, <3>3
    <3> HIDE DEF n
    <3> QED BY <3>1, <3>2, <3>4
  <2>2. /\ tail.msgidx \in Int /\ tail.msgidx > msgidx /\ tail.msgidx <= LogCursor.count
        /\ tail.msgsize \in Nat /\ stailpos \in Int
    <3>1. tail.msgidx \in Int /\ tail.msgsize \in Nat /\ stailpos \in Int
      BY LogBufferAssumption DEF IInv, TypeOK, Tails, Positions
    <3>2. msgidx \in Nat /\ LogCursor.count \in Nat
      BY IndexTypes
    <3>3. tail.msgidx \in msgidx + 1..LogCursor.count
      BY <2>1 DEF Searching
    <3> QED BY <3>1, <3>2, <3>3
  <2>3. n \in Int /\ n >= Sought /\ n >= first /\ n <= Len(sent) /\ Sought \in Int
    BY <2>1, <2>2, IndexTypes
  <2>0. n = first + tail.msgidx - 1 /\ first \in Nat /\ LogCursor.count = Len(sent) + 1 - first
        /\ Len(sent) \in Nat /\ Total \in Nat /\ msgidx \in Nat
    BY IndexTypes
  <2> HIDE DEF n
  <2>4. Sound(n) /\ n \in Reserved /\ n \in 1..Len(sent)
    <3>1. n \in Sought..Indexed(tail.msgidx) - 1
      BY <2>1, <2>3
    <3> QED BY <2>1, <3>1, IndexTypes DEF Searching, Sound
  <2>5. /\ sent[n].start \in Nat /\ sent[n].size \in Nat /\ sent[n].size > 0
        /\ End(n) = sent[n].start + sent[n].size + 1
    BY <2>4, MessageTypes DEF IInv
  <2>6. Kept(n)
    <3>1. sent[Sought].start <= sent[n].start
      <4>1. CASE Sought = n
        BY <2>5, <4>1
      <4>2. CASE Sought # n
        <5>1. Sought \in Reserved /\ Sought < n
          BY <2>1, <2>3, <4>2 DEF Sound
        <5>2. End(Sought) <= sent[n].start
          BY <2>4, <5>1 DEF IInv, Placed
        <5>3. End(Sought) = sent[Sought].start + sent[Sought].size + 1
              /\ sent[Sought].start \in Nat /\ sent[Sought].size \in Nat
          BY <5>1, IndexTypes, MessageTypes DEF IInv
        <5> QED BY <2>5, <5>2, <5>3
      <4> QED BY <4>1, <4>2
    <3>2. sent[Sought].start \in Nat
      BY <2>1, IndexTypes, MessageTypes DEF IInv, Sound
    <3>3. Total - sent[Sought].start <= LOG_BUFFER_SIZE
      BY <1>5 DEF Kept
    <3>4. Total - sent[n].start <= LOG_BUFFER_SIZE
      BY <2>0, <2>5, <3>1, <3>2, <3>3, LogBufferAssumption
    <3> QED BY <3>4 DEF Kept
  <2>7. stailpos' = Place(n, sent[n].size + 1)
    <3> DEFINE a == stailpos - tail.msgsize
               e == End(n)
               c == 0 - 1
    <3>1. Around(a) = Around(e) /\ a \in Int /\ e \in Int /\ c \in Int
      BY <2>1, <2>2, <2>5 DEF Searching
    <3>2. stailpos - 1 - tail.msgsize = a + c /\ sent[n].start + (sent[n].size + 1) - 1 = e + c
      BY <2>2, <2>5
    <3> HIDE DEF a, e, c
    <3>3. Around(Around(a) + c) = Around(a + c) /\ Around(Around(e) + c) = Around(e + c)
      BY <3>1, AroundAdds
    <3>4. Around(a + c) = Around(e + c)
      BY <3>1, <3>3
    <3> QED BY <1>1, <3>2, <3>4 DEF Place
  <2>8. tail' = [msgidx |-> tail.msgidx - 1, msgsize |-> sent[n].size]
    <3>1. Intact(n, sent[n].size + 1)
      BY <2>4, <2>6 DEF IInv, Content, Sound
    <3>2. sent[n].size + 1 \in 1..sent[n].size + 1
      BY <2>5
    <3>3. LogBuff[stailpos'] = Cell(n, sent[n].size + 1)
      BY <2>7, <3>1, <3>2 DEF Intact
    <3>4. Cell(n, sent[n].size + 1) = TailCell(n - first, sent[n].size)
      BY <2>5 DEF Cell
    <3>5. n - first = tail.msgidx - 1
      BY <2>0, <2>2
    <3> QED BY <1>1, <3>3, <3>4, <3>5 DEF TailCell
  <2>9. Around(stailpos' - tail'.msgsize) = Around(sent[n].start)
    <3> DEFINE a == sent[n].start + (sent[n].size + 1) - 1
               b == 0 - sent[n].size
    <3>1. a \in Int /\ b \in Int /\ a + b = sent[n].start
      BY <2>5
    <3>2. stailpos' = Around(a)
      BY <2>7 DEF Place
    <3> HIDE DEF a
    <3>3. stailpos' \in Int
      BY <3>1, <3>2, AroundInRing, LogBufferAssumption DEF Positions
    <3>4. stailpos' - tail'.msgsize = stailpos' + b
      BY <2>5, <2>8, <3>3
    <3> HIDE DEF b
    <3>5. Around(Around(a) + b) = Around(a + b)
      BY <3>1, AroundAdds
    <3> QED BY <3>1, <3>2, <3>4, <3>5
  <2>10. CASE tail.msgidx - 1 > msgidx
    <3>1. reader' = "search"
      BY <1>1, <2>8, <2>10 DEF Follows
    <3>2. n - 1 \in Reserved /\ n = (n - 1) + 1
      <4>1. n - 1 \in Int /\ n - 1 >= first /\ n - 1 <= Len(sent)
        BY <2>0, <2>2, <2>3, <2>10
      <4> QED BY <2>3, <4>1, IndexTypes
    <3>3. End(n - 1) = sent[n].start
      BY <2>4, <3>2 DEF IInv, Placed
    <3>4. (Indexed(tail.msgidx) - 1)' = n - 1
      BY <1>1, <2>0, <2>2, <2>8 DEF Indexed
    <3>5. End(Indexed(tail.msgidx) - 1)' = sent[n].start
      BY <1>1, <3>3, <3>4 DEF End
    <3>6. Around(stailpos' - tail'.msgsize) = Around(End(Indexed(tail.msgidx) - 1))'
      BY <2>9, <3>5 DEF Around
    <3>7. tail'.msgidx \in msgidx' + 1..LogCursor'.count
      BY <1>1, <2>0, <2>2, <2>8, <2>10
    <3>8. ASSUME NEW m \in (Sought..Indexed(tail.msgidx) - 1)' PROVE Sound(m)'
      <4>1. m \in Sought..n - 1
        BY <1>4, <1>5, <3>4, <3>8
      <4>2. m \in Sought..Indexed(tail.msgidx) - 1
        BY <2>1, <2>3, <4>1
      <4> QED BY <1>1, <2>1, <4>2, ReaderKeeps DEF Searching
    <3> QED BY <3>1, <3>6, <3>7, <3>8 DEF Searching
  <2>11. CASE ~(tail.msgidx - 1 > msgidx)
    <3>1. tail.msgidx - 1 = msgidx /\ n = Sought
      BY <2>0, <2>1, <2>2, <2>11
    <3>2. reader' = "copy"
      BY <1>1, <2>5, <2>8, <2>11, <3>1 DEF Follows
    <3>3. Copied'
      BY <1>1, <1>2, <1>4, <1>5, <2>8, <2>9, <3>1 DEF Copied, Around
    <3> QED BY <3>2, <3>3
  <2> QED BY <2>10, <2>11
<1>6. ASSUME sure, Kept(Sought)' PROVE Kept(Sought)
  <2>1. Kept(Sought)' <=> Kept(Sought)
    BY <1>1, <1>4, <1>6, ReaderKeeps DEF Kept
  <2> QED BY <1>6, <2>1
<1>7. Reading'
  BY <1>1, <1>4, <1>5, <1>6 DEF Reading
<1> QED BY <1>1, <1>3, <1>7, ReaderKeeps DEF IInv

\* One more byte of the message.
LEMMA CopyMessageStep ==
    ASSUME IInv, TypeOK', Sequences', CopyMessage
    PROVE  IInv'
<1> DEFINE k == Len(buf) + 1
           b == LogBuff[Around(stailpos - tail.msgsize + Len(buf))].body
<1>1. /\ reader = "copy" /\ buf' = Append(buf, b)
      /\ reader' = IF Len(buf') = tail.msgsize THEN "found" ELSE "copy"
      /\ UNCHANGED <<LogBuff, LogCursor, writerVars, msgidx, stailpos, tail, sent, first, sure>>
  BY DEF CopyMessage
<1>2. /\ Len(buf) \in Nat /\ Len(buf) < tail.msgsize /\ tail.msgsize \in Nat
      /\ stailpos \in Int
  BY <1>1, LogBufferAssumption DEF IInv, ReaderTyped, Sequences, TypeOK, Tails, Positions
<1> HIDE DEF b
<1>3. /\ Len(buf') = k /\ buf'[k] = b /\ DOMAIN buf' = 1..k
      /\ \A i \in 1..Len(buf) : buf'[i] = buf[i]
  <2>1. buf \in Seq((0..MaxMessages) \X (0..LOG_BUFFER_SIZE)) /\ buf' = Append(buf, b)
    BY <1>1 DEF IInv, Sequences
  <2> QED BY <2>1
<1>4. ReaderTyped'
  BY <1>1, <1>2, <1>3 DEF ReaderTyped
<1>5. ASSUME sure PROVE Sound(Sought)' /\ Sound(Sought) /\ Sought' = Sought
  <2>1. Sound(Sought) /\ Sought' = Sought
    BY <1>1, <1>5 DEF IInv, Reading, Sought, Indexed
  <2> QED BY <1>1, <2>1, ReaderKeeps DEF Sound
<1>6. ASSUME sure, Kept(Sought)
      PROVE  /\ reader' = "copy" => Copied'
             /\ reader' = "found" => Whole(Sought)'
             /\ reader' \in {"copy", "found"}
  <2> DEFINE n == Sought
             start == sent[n].start
  <2>1. Copied /\ Sound(n)
    BY <1>1, <1>6 DEF IInv, Reading
  <2>2. tail = [msgidx |-> msgidx, msgsize |-> sent[n].size]
        /\ Around(stailpos - tail.msgsize) = Around(start)
        /\ \A i \in 1..Len(buf) : buf[i] = <<n, i>>
    BY <2>1 DEF Copied
  <2>3. n \in Reserved /\ n \in 1..Len(sent) /\ start \in Nat /\ sent[n].size \in Nat
    BY <2>1, IndexTypes, MessageTypes DEF Sound, IInv
  <2>4. Around(stailpos - tail.msgsize + Len(buf)) = Place(n, k)
    <3> DEFINE a == stailpos - tail.msgsize
               c == Len(buf)
    <3>1. a \in Int /\ start \in Int /\ c \in Int /\ Around(a) = Around(start)
      BY <1>2, <2>2, <2>3
    <3>2. stailpos - tail.msgsize + Len(buf) = a + c /\ start + k - 1 = start + c
      BY <1>2, <2>3
    <3>3. Place(n, k) = Around(start + k - 1)
      BY DEF Place
    <3> HIDE DEF a, c, start, k
    <3>4. Around(Around(a) + c) = Around(a + c) /\ Around(Around(start) + c) = Around(start + c)
      BY <3>1, AroundAdds
    <3> QED BY <3>1, <3>2, <3>3, <3>4
  <2>5. b = <<n, k>>
    <3>1. Intact(n, sent[n].size + 1)
      BY <1>6, <2>1, <2>3 DEF IInv, Content, Sound
    <3>2. k \in 1..sent[n].size + 1 /\ k <= sent[n].size
      BY <1>2, <2>2, <2>3
    <3>3. LogBuff[Place(n, k)] = BodyCell(n, k)
      BY <3>1, <3>2 DEF Intact, Cell
    <3> QED BY <2>4, <3>3 DEF b, BodyCell
  <2>6. \A i \in 1..k : buf'[i] = <<n, i>>
    <3> SUFFICES ASSUME NEW i \in 1..k PROVE buf'[i] = <<n, i>>
      OBVIOUS
    <3>1. i = k \/ i \in 1..Len(buf)
      BY <1>2
    <3> QED BY <1>3, <2>2, <2>5, <3>1
  <2>7. Copied'
    BY <1>1, <1>3, <1>5, <1>6, <2>2, <2>6 DEF Copied, Around
  <2>8. ASSUME reader' = "found" PROVE Whole(Sought)'
    <3>1. k = sent[n].size
      BY <1>1, <1>3, <2>2, <2>8
    <3>2. buf' = [i \in 1..k |-> <<n, i>>]
      <4>1. buf' = [i \in 1..k |-> buf'[i]]
        <5>1. buf' \in Seq((0..MaxMessages) \X (0..LOG_BUFFER_SIZE))
          BY DEF Sequences
        <5> QED BY <1>3, <5>1
      <4> QED BY <2>6, <4>1
    <3> QED BY <1>1, <1>5, <1>6, <3>1, <3>2 DEF Whole
  <2> QED BY <1>1, <2>7, <2>8
<1>7. ASSUME sure, Kept(Sought)' PROVE Kept(Sought)
  <2>1. Kept(Sought)' <=> Kept(Sought)
    BY <1>1, <1>5, <1>7, ReaderKeeps DEF Kept
  <2> QED BY <1>7, <2>1
<1>8. Reading'
  BY <1>1, <1>5, <1>6, <1>7 DEF Reading
<1> QED BY <1>1, <1>4, <1>8, ReaderKeeps DEF IInv

LEMMA ReturnMessageStep ==
    ASSUME IInv, TypeOK', Sequences', ReturnMessage
    PROVE  IInv'
<1>1. UNCHANGED <<LogBuff, LogCursor, writerVars, sent, first>>
  BY DEF ReturnMessage
<1>2. ReaderTyped' /\ Reading'
  BY DEF ReturnMessage, ReaderTyped, Reading
<1> QED BY <1>1, <1>2, ReaderKeeps DEF IInv

\* Nothing in the ring counts any more; writers of before go on.
LEMMA ResetStep ==
    ASSUME IInv, TypeOK', Sequences', ResetLogCount
    PROVE  IInv'
<1>1. /\ reader = "idle" /\ LogCursor' = [count |-> 0, pos |-> 0]
      /\ first' = Len(sent) + 1
      /\ UNCHANGED <<LogBuff, writerVars, readerVars, sent>>
  BY DEF ResetLogCount
<1>2. Len(sent) \in Nat /\ Reserved' = {} /\ Total' = 0
  BY <1>1, IndexTypes DEF Reserved, Total
<1>3. Bounded'
  <2>1. Pending' = Pending
    BY <1>1 DEF Pending, writerVars
  <2> QED BY <1>1, <1>2, <2>1, FewerBounded DEF IInv, Typed, Bounded
<1>4. Placed'
  <2>1. Around(0) = 0
    BY LogBufferAssumption DEF Around
  <2>2. CursorRight'
    BY <1>1, <1>2, <2>1 DEF CursorRight
  <2> QED BY <1>2, <2>2 DEF Placed
<1>5. Places'
  <2> SUFFICES ASSUME NEW w \in Writers
               PROVE  /\ writer[w] # "idle" => size[w] \in Sizes
                      /\ writer[w] \in {"idle", "load", "swap"} => copied[w] = 0
                      /\ Busy(w) =>
                          /\ msg[w] \in 1..Len(sent)
                          /\ size[w] = sent[msg[w]].size
                          /\ ~sent[msg[w]].done
                          /\ writer[w] = "body" => copied[w] < size[w]
                          /\ writer[w] = "tail" => copied[w] = size[w]
                      /\ \A v \in Writers : Busy(w) /\ Busy(v) /\ msg[w] = msg[v] => w = v
    BY <1>1, <1>2 DEF Places, Busy, writerVars
  <2> QED BY DEF IInv, Places
<1>6. CleanKept' /\ Content'
  BY <1>2 DEF CleanKept, Content
<1>7. ReaderTyped' /\ Reading'
  BY <1>1 DEF IInv, ReaderTyped, Reading, readerVars
<1> QED BY <1>3, <1>4, <1>5, <1>6, <1>7 DEF IInv

----------------------------------------------------------------------------

LEMMA InvariantInit == Init => IInv
<1> SUFFICES ASSUME Init PROVE IInv
  OBVIOUS
<1>1. TypeOK /\ Sequences
  BY TypesInit
<1>2. sent = << >> /\ Len(sent) = 0 /\ first = 1 /\ Reserved = {} /\ Total = 0
  BY DEF Init, Reserved, Total
<1>3. \A w \in Writers : writer[w] = "idle" /\ copied[w] = 0 /\ ~Busy(w)
  BY DEF Init, Busy
<1>4. Bounded
  <2>1. Pending = {}
    BY <1>3 DEF Pending
  <2> QED BY <1>2, <2>1, FS_EmptySet, LogBufferAssumption DEF Bounded
<1>5. Placed
  <2>1. Around(0) = 0
    BY LogBufferAssumption DEF Around
  <2>2. CursorRight
    BY <1>2, <2>1 DEF CursorRight, Init
  <2> QED BY <1>2, <2>2 DEF Placed
<1>6. Places
  BY <1>3 DEF Places
<1>7. CleanKept /\ Content
  BY <1>2 DEF CleanKept, Content
<1>8. ReaderTyped /\ Reading
  BY DEF Init, ReaderTyped, Reading
<1> QED BY <1>1, <1>4, <1>5, <1>6, <1>7, <1>8 DEF IInv

\* Every step keeps the invariant.
LEMMA InvariantStep == IInv /\ [Next]_vars => IInv'
<1>1. ASSUME IInv, Next PROVE IInv'
  <2>1. TypeOK' /\ Sequences'
    BY <1>1, TypesStep DEF IInv
  <2>2. CASE \E w \in Writers : \E s \in Sizes : LogMessage(w, s)
    BY <1>1, <2>1, <2>2, LogMessageStep
  <2>3. CASE \E w \in Writers : LoadCursor(w)
    BY <1>1, <2>1, <2>3, LoadCursorStep
  <2>4. CASE \E w \in Writers : SwapCursor(w)
    <3>1. PICK w \in Writers : SwapCursor(w)
      BY <2>4
    <3>2. CASE LogCursor # old_cursor[w]
      BY <1>1, <2>1, <3>1, <3>2, SwapAgainStep
    <3>3. CASE LogCursor = old_cursor[w]
      <4>1. \A n : n = Len(sent) + 1 => IInv'
        BY <1>1, <2>1, <3>1, <3>3, SwapCursorStep
      <4> QED BY <4>1
    <3> QED BY <3>2, <3>3
  <2>5. CASE \E w \in Writers : CopyBody(w)
    BY <1>1, <2>1, <2>5, CopyBodyStep
  <2>6. CASE \E w \in Writers : CopyTail(w)
    BY <1>1, <2>1, <2>6, CopyTailStep
  <2>7. CASE \E w \in Writers : EndThread(w)
    BY <1>1, <2>1, <2>7, EndThreadStep
  <2>8. CASE \E idx \in 0..MaxMessages - 1 : GetLogMessage(idx)
    BY <1>1, <2>1, <2>8, GetLogMessageStep
  <2>9. CASE SearchTail
    BY <1>1, <2>1, <2>9, SearchTailStep
  <2>10. CASE CopyMessage
    BY <1>1, <2>1, <2>10, CopyMessageStep
  <2>11. CASE ReturnMessage
    BY <1>1, <2>1, <2>11, ReturnMessageStep
  <2>12. CASE ResetLogCount
    BY <1>1, <2>1, <2>12, ResetStep
  <2> QED BY <1>1, <2>2, <2>3, <2>4, <2>5, <2>6, <2>7, <2>8, <2>9, <2>10, <2>11, <2>12 DEF Next
<1>2. ASSUME IInv, UNCHANGED vars PROVE IInv'
  <2>1. /\ TypeOK' /\ Sequences'
        /\ UNCHANGED <<LogBuff, LogCursor, writerVars, readerVars, sent, first>>
    BY <1>2 DEF IInv, TypeOK, Sequences, vars, writerVars, readerVars
  <2>2. Fewer /\ Begun /\ Bounded'
    <3>1. Pending' = Pending
      BY <2>1 DEF Pending, writerVars
    <3> QED BY <1>2, <2>1, <3>1 DEF Fewer, Begun, Bounded, Busy, writerVars, IInv, Places
  <2> QED BY <1>2, <2>1, <2>2, OutOfRing
<1> QED BY <1>1, <1>2

\* The inductive invariant of the log ring of plc_main_tail.c: LogMessage() by any number of
\* threads, GetLogMessage() and ResetLogCount().
THEOREM LogInvariant == Spec => []IInv
BY InvariantInit, InvariantStep, PTL DEF Spec

\* Every variable keeps its type: counts, positions and cells stay in the ring and its
\* bounds, whatever LogMessage() and GetLogMessage() do at a time.
THEOREM LogTypeCorrect == Spec => []TypeOK
<1>1. IInv => TypeOK
  BY DEF IInv
<1> QED BY <1>1, LogInvariant, PTL

\* The cursor counts the messages and the bytes, whoever writes at a time; and GetLogMessage()
\* finds a message that is still in the ring, and returns it as LogMessage() was given it, if
\* it and those after it had been copied when the search began.
THEOREM LogIsRight == Spec => []LogOK
<1>1. ASSUME IInv PROVE LogOK
  <2>1. CursorRight
    BY <1>1 DEF IInv, Placed
  <2>2. ReadRight
    BY <1>1 DEF IInv, Reading, ReadRight, Sought
  <2> QED BY <2>1, <2>2 DEF LogOK
<1> QED BY <1>1, LogInvariant, PTL
=============================================================================
