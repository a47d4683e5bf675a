------------------------------ MODULE LogBuffer ------------------------------
(***************************************************************************)
(* The log of the PLC, targets/plc_main_tail.c: for each level a ring of   *)
(* bytes where any thread adds messages without a lock, and where the      *)
(* worker reads them, searching backwards from tail to tail.  One level    *)
(* here; the others are the same.                                          *)
(*                                                                         *)
(* A writer reserves its place by a compare and swap of the cursor, and    *)
(* copies afterwards: body, then tail.  So a reader may meet a place that  *)
(* is not written yet, where there still is what was before, and a writer  *)
(* may be overtaken by others that have gone around the ring.              *)
(*                                                                         *)
(* A tail takes one cell of the ring, and is read and written at once.     *)
(* The body of a message, taken for a tail, has no index that anybody asks *)
(* for.  The counters do not wrap.                                         *)
(*                                                                         *)
(* A definition under "Slip:" is no part of the model: it is a variant of  *)
(* the one that follows with a mistake in it, which a property must notice.*)
(***************************************************************************)
EXTENDS Integers, SequencesExt

CONSTANTS Writers,
          PlcThreads,       \* those that stopPLC() may end anywhere
          Sizes,            \* of messages
          LOG_BUFFER_SIZE,
          MaxMessages       \* bound: messages in all

ASSUME LogBufferAssumption ==
    /\ PlcThreads \subseteq Writers
    /\ LOG_BUFFER_SIZE \in Nat \ {0} /\ MaxMessages \in Nat
    /\ \A s \in Sizes : s \in Nat \ {0} /\ s < LOG_BUFFER_SIZE - 1

VARIABLES
    LogBuff, LogCursor,
    writer,     \* program counter of each writer,
    old_cursor, size, msg, copied,      \* and its locals
    reader, msgidx, stailpos, tail, buf,    \* those of GetLogMessage()
    sent,       \* history: the messages, one for each place reserved, in this order,
    first,      \* the first of them since ResetLogCount(),
    sure        \* and: the reader may count on finding its message

writerVars == <<writer, old_cursor, size, msg, copied>>
readerVars == <<reader, msgidx, stailpos, tail, buf, sure>>
vars == <<LogBuff, LogCursor, writerVars, readerVars, sent, first>>

Positions == 0..LOG_BUFFER_SIZE - 1
Tails == [msgidx : -1..MaxMessages, msgsize : 0..LOG_BUFFER_SIZE]
NoTail == [msgidx |-> -1, msgsize |-> 0]
NoBody == <<0, 0>>

\* A cell has a byte of a message, or a tail; to begin with, zeros.
Cells == [body : (0..MaxMessages) \X (0..LOG_BUFFER_SIZE), tail : Tails]
Zero == [body |-> NoBody, tail |-> [msgidx |-> 0, msgsize |-> 0]]
BodyCell(m, k) == [body |-> <<m, k>>, tail |-> NoTail]
TailCell(idx, s) == [body |-> NoBody, tail |-> [msgidx |-> idx, msgsize |-> s]]

Cursors == [count : 0..MaxMessages, pos : Positions]

TypeOK ==
    /\ LogBuff \in [Positions -> Cells]
    /\ LogCursor \in Cursors
    /\ writer \in [Writers -> {"idle", "load", "swap", "body", "tail"}]
    /\ old_cursor \in [Writers -> Cursors]
    /\ size \in [Writers -> Sizes \cup {0}]
    /\ msg \in [Writers -> 0..MaxMessages]
    /\ copied \in [Writers -> 0..LOG_BUFFER_SIZE]
    /\ reader \in {"idle", "search", "copy", "found", "nothing"}
    /\ msgidx \in 0..MaxMessages
    /\ stailpos \in Positions /\ tail \in Tails
    /\ Len(buf) <= LOG_BUFFER_SIZE /\ ToSet(buf) \subseteq (0..MaxMessages) \X (0..LOG_BUFFER_SIZE)
    /\ Len(sent) <= MaxMessages
    /\ first \in 1..MaxMessages + 1
    /\ sure \in BOOLEAN

Init ==
    /\ LogBuff = [p \in Positions |-> Zero]
    /\ LogCursor = [count |-> 0, pos |-> 0]
    /\ writer = [w \in Writers |-> "idle"]
    /\ old_cursor = [w \in Writers |-> [count |-> 0, pos |-> 0]]
    /\ size = [w \in Writers |-> 0]
    /\ msg = [w \in Writers |-> 0] /\ copied = [w \in Writers |-> 0]
    /\ reader = "idle" /\ msgidx = 0 /\ stailpos = 0 /\ tail = NoTail /\ buf = << >>
    /\ sent = << >> /\ first = 1 /\ sure = FALSE

Writer(w, from, to) == writer[w] = from /\ writer' = [writer EXCEPT ![w] = to]

\* Slip: the end of the ring is one too far.
AroundLate(p) == IF p = LOG_BUFFER_SIZE THEN p ELSE p % LOG_BUFFER_SIZE

\* & LOG_BUFFER_MASK
Around(p) == p % LOG_BUFFER_SIZE

\* The locals of a writer that is done are gone.
Leave(w) ==
    /\ writer' = [writer EXCEPT ![w] = "idle"]
    /\ old_cursor' = [old_cursor EXCEPT ![w] = [count |-> 0, pos |-> 0]]
    /\ size' = [size EXCEPT ![w] = 0]
    /\ msg' = [msg EXCEPT ![w] = 0]
    /\ copied' = [copied EXCEPT ![w] = 0]

----------------------------------------------------------------------------
(* Where a message is, had the ring no end: from its start to its tail.     *)

End(m) == sent[m].start + sent[m].size + 1
Total == IF Len(sent) >= first THEN End(Len(sent)) ELSE 0
Copying == {msg[w] : w \in {v \in Writers : writer[v] \in {"body", "tail"}}}

\* The message that has this index.
Indexed(idx) == first + idx

\* A place from "start" to "end", when it is reserved: no one is still busy in it, be it
\* since before the ring was reset.
Clean(start, end) ==
    \A m \in Copying : m >= first /\ sent[m].start + LOG_BUFFER_SIZE >= end

----------------------------------------------------------------------------
(* LogMessage()                                                             *)

LogMessage(w, s) ==
    /\ Writer(w, "idle", "load")
    /\ Len(sent) + Cardinality({v \in Writers : writer[v] \in {"load", "swap"}}) < MaxMessages
    /\ size' = [size EXCEPT ![w] = s]
    /\ UNCHANGED <<LogBuff, LogCursor, old_cursor, msg, copied, readerVars, sent, first>>

LoadCursor(w) ==
    /\ Writer(w, "load", "swap")
    /\ old_cursor' = [old_cursor EXCEPT ![w] = LogCursor]
    /\ UNCHANGED <<LogBuff, LogCursor, size, msg, copied, readerVars, sent, first>>

Reserve(w) ==
    /\ LogCursor' = [count |-> old_cursor[w].count + 1,
                     pos |-> Around(old_cursor[w].pos + size[w] + 1)]
    /\ sent' = Append(sent, [start |-> Total, size |-> size[w], done |-> FALSE,
                             clean |-> Clean(Total, Total + size[w] + 1)])
    /\ msg' = [msg EXCEPT ![w] = Len(sent) + 1]

\* Slip: the cursor is written without a look at it.
SwapBlind(w) ==
    /\ Writer(w, "swap", "body")
    /\ Reserve(w)
    /\ UNCHANGED <<LogBuff, old_cursor, size, copied, readerVars, first>>

\* Another writer was faster, or it is its turn.
SwapCursor(w) ==
    /\ \/ /\ Writer(w, "swap", "load")
          /\ LogCursor # old_cursor[w]
          /\ UNCHANGED <<LogCursor, sent, msg>>
       \/ /\ Writer(w, "swap", "body")
          /\ LogCursor = old_cursor[w]
          /\ Reserve(w)
    /\ UNCHANGED <<LogBuff, old_cursor, size, copied, readerVars, first>>

CopyBody(w) ==
    /\ Writer(w, "body", IF copied[w] + 1 = size[w] THEN "tail" ELSE "body")
    /\ LogBuff' = [LogBuff EXCEPT ![Around(old_cursor[w].pos + copied[w])] =
                       BodyCell(msg[w], copied[w] + 1)]
    /\ copied' = [copied EXCEPT ![w] = @ + 1]
    /\ UNCHANGED <<LogCursor, old_cursor, size, msg, readerVars, sent, first>>

\* Slip: the tail does not go around the end of the ring.
TailPlaceStraight(w) == IF old_cursor[w].pos + size[w] < LOG_BUFFER_SIZE
                        THEN old_cursor[w].pos + size[w] ELSE LOG_BUFFER_SIZE - 1

TailPlace(w) == Around(old_cursor[w].pos + size[w])

CopyTail(w) ==
    /\ writer[w] = "tail"
    /\ Leave(w)
    /\ LogBuff' = [LogBuff EXCEPT ![TailPlace(w)] = TailCell(old_cursor[w].count, size[w])]
    /\ sent' = [sent EXCEPT ![msg[w]].done = TRUE]
    /\ UNCHANGED <<LogCursor, readerVars, first>>

\* stopPLC()
EndThread(w) ==
    /\ w \in PlcThreads
    /\ writer[w] # "idle"
    /\ Leave(w)
    /\ UNCHANGED <<LogBuff, LogCursor, readerVars, sent, first>>

----------------------------------------------------------------------------
(* The worker: GetLogMessage() and ResetLogCount(), never at a time.        *)

GetLogMessage(idx) ==
    /\ reader = "idle"
    /\ LogCursor # [count |-> 0, pos |-> 0]
    /\ reader' = "search"
    /\ msgidx' = idx
    /\ stailpos' = LogCursor.pos
    /\ tail' = [msgidx |-> LogCursor.count, msgsize |-> 0]
    /\ buf' = << >>
    /\ sure' = /\ idx < LogCursor.count
               /\ \A m \in Indexed(idx)..Len(sent) : sent[m].done /\ sent[m].clean
    /\ UNCHANGED <<LogBuff, LogCursor, writerVars, sent, first>>

\* The search goes on from a tail that is of the message before, if that is not too old.
Follows(idx, next) == idx = next - 1 /\ idx > msgidx

\* The message search loop, once.
SearchTail ==
    /\ reader = "search"
    /\ stailpos' = Around(stailpos - 1 - tail.msgsize)
    /\ tail' = LogBuff[stailpos'].tail
    /\ reader' = IF Follows(tail'.msgidx, tail.msgidx) THEN "search"
                 ELSE IF tail'.msgidx # msgidx THEN "nothing"
                 ELSE IF tail'.msgsize = 0 THEN "nothing"
                 ELSE "copy"
    /\ UNCHANGED <<LogBuff, LogCursor, writerVars, msgidx, buf, sent, first, sure>>

CopyMessage ==
    /\ reader = "copy"
    /\ buf' = Append(buf, LogBuff[Around(stailpos - tail.msgsize + Len(buf))].body)
    /\ reader' = IF Len(buf') = tail.msgsize THEN "found" ELSE "copy"
    /\ UNCHANGED <<LogBuff, LogCursor, writerVars, msgidx, stailpos, tail, sent, first, sure>>

ReturnMessage ==
    /\ reader \in {"found", "nothing"}
    /\ reader' = "idle"
    /\ msgidx' = 0 /\ stailpos' = 0 /\ tail' = NoTail /\ buf' = << >> /\ sure' = FALSE
    /\ UNCHANGED <<LogBuff, LogCursor, writerVars, sent, first>>

\* ResetLogCount(): what is in the ring stays there.
ResetLogCount ==
    /\ reader = "idle"
    /\ LogCursor.count > 0
    /\ LogCursor' = [count |-> 0, pos |-> 0]
    /\ first' = Len(sent) + 1
    /\ UNCHANGED <<LogBuff, writerVars, readerVars, sent>>

----------------------------------------------------------------------------

Next == \/ \E w \in Writers : \/ \E s \in Sizes : LogMessage(w, s)
                              \/ LoadCursor(w) \/ SwapCursor(w)
                              \/ CopyBody(w) \/ CopyTail(w) \/ EndThread(w)
        \/ \E idx \in 0..MaxMessages - 1 : GetLogMessage(idx)
        \/ SearchTail \/ CopyMessage \/ ReturnMessage
        \/ ResetLogCount

Spec == Init /\ [][Next]_vars

----------------------------------------------------------------------------

\* The cursor counts the messages and the bytes, whoever writes at a time: no two writers
\* have the same index or, before the ring is full, the same place.
CursorRight ==
    /\ LogCursor.count = Len(sent) + 1 - first
    /\ LogCursor.pos = Around(Total)

\* A message that is still in the ring, when it is returned, is found, and is returned as
\* it was written, if it and those after it had been copied when the search began: to a
\* place that no slow writer was still busy in.
Kept(m) == Total - sent[m].start <= LOG_BUFFER_SIZE
Whole(m) == buf = [k \in 1..sent[m].size |-> <<m, k>>]
ReadRight ==
    sure /\ Kept(Indexed(msgidx)) => /\ reader # "nothing"
                                     /\ reader = "found" => Whole(Indexed(msgidx))

LogOK == CursorRight /\ ReadRight
=============================================================================
