----------------------------- MODULE LogWriter ------------------------------
(***************************************************************************)
(* The logger (logger.cpp, file_writer.cpp).  Any thread appends records   *)
(* to the buffer of a writer, its module's or the process's; the logger's  *)
(* own thread goes round the writers, swaps a buffer that is due for its   *)
(* empty cache, and writes the cache out piece by piece without the lock.  *)
(* ~Logger stops that thread, joins it and flushes every writer itself,    *)
(* while other threads may still be logging.                               *)
(*                                                                         *)
(* Records are numbered in the order they are buffered.  Those below a     *)
(* writer's level, and which file of the writer's directory a record goes  *)
(* to, are left out.  m_need_real_write is never set: Logging does not     *)
(* hand its realtimewrite on.                                              *)
(***************************************************************************)
EXTENDS Naturals, Sequences

CONSTANTS Modules,      \* how many modules may have a writer of their own
          FlushSize,    \* LOGGER_FLUSH_SIZE
          PieceSize,    \* WRITE_SIZE_PER_TIME
          MaxRecords    \* bound on the records logged

ASSUME LogAssumption ==
    Modules \in Nat /\ FlushSize \in Nat /\ PieceSize \in Nat \ {0} /\ MaxRecords \in Nat

\* Writer 0 is m_process_log_writer, the others are those of m_module_writers in order.
Writer == 0 .. Modules
Record == 1 .. MaxRecords

VARIABLES writers,      \* the writers there are
          buffer,       \* m_buffer of each
          cache,        \* m_cache of each
          pos,          \* how far WriteFile has got in the current writer's cache
          out,          \* what was written, in order
          run,          \* m_run
          joined,       \* ~Logger has joined the thread and goes on in its place
          lpc,          \* where the logger thread, and then ~Logger, is
          cur,          \* the writer pos stands at
          due,          \* the writers not written for a second when the round began
          last, logged, owed    \* history: records so far, those of each writer,
                                \* and how many it had when ~Logger began

logVars == <<last, logged>>
vars == <<writers, buffer, cache, pos, out, run, joined, lpc, cur, due, last, logged, owed>>

Init ==
    /\ writers = {0}
    /\ buffer = [w \in Writer |-> <<>>] /\ cache = [w \in Writer |-> <<>>]
    /\ pos = 0 /\ out = [w \in Writer |-> <<>>]
    /\ run = FALSE /\ joined = FALSE
    /\ lpc = "none" /\ cur = 0 /\ due = {}
    /\ last = 0 /\ logged = [w \in Writer |-> <<>>]
    /\ owed = [w \in Writer |-> 0]

-----------------------------------------------------------------------------
(* The threads that log.                                                   *)

\* AddLogModel.  It works at any time, on Start or after.
AddLogModel(m) ==
    /\ lpc # "destroyed"
    /\ m \notin writers
    /\ writers' = writers \cup {m}
    /\ UNCHANGED <<buffer, cache, pos, out, run, joined, lpc, cur, due, logVars, owed>>

WriterOf(m) == IF m \in writers THEN m ELSE 0

\* IntoFileBuffer, under m_buf_locker.
Logging(m) ==
    LET w == WriterOf(m) IN
    /\ lpc # "destroyed"
    /\ last < MaxRecords
    /\ last' = last + 1
    /\ buffer' = [buffer EXCEPT ![w] = Append(@, last')]
    /\ logged' = [logged EXCEPT ![w] = Append(@, last')]
    /\ UNCHANGED <<writers, cache, pos, out, run, joined, lpc, cur, due, owed>>

Start ==
    /\ lpc = "none"
    /\ run' = TRUE /\ lpc' = "top"
    /\ UNCHANGED <<writers, buffer, cache, pos, out, joined, cur, due, logVars, owed>>

\* ~Logger begins.
Stop ==
    /\ run
    /\ run' = FALSE
    /\ owed' = [w \in Writer |-> Len(logged[w])]
    /\ UNCHANGED <<writers, buffer, cache, pos, out, joined, lpc, cur, due, logVars>>

\* Variant with a fault: only the process's writer is flushed at the end.
JoinForProcess ==
    /\ lpc = "ended"
    /\ joined' = TRUE
    /\ lpc' = "flush" /\ cur' = 0 /\ due' = {0}
    /\ UNCHANGED <<writers, buffer, cache, pos, out, run, logVars, owed>>

\* pthread_join returns, and ~Logger goes round the writers once more; at the time it
\* gives them all are due.
Join ==
    /\ lpc = "ended"
    /\ joined' = TRUE
    /\ lpc' = "flush" /\ cur' = 0 /\ due' = Writer
    /\ UNCHANGED <<writers, buffer, cache, pos, out, run, logVars, owed>>

-----------------------------------------------------------------------------
(* The logger thread, and ~Logger after it.  A round looks at the time     *)
(* once; which writers are a second behind is all that matters of it.      *)

RoundBegin(late) ==
    /\ lpc = "top" /\ run
    /\ lpc' = "flush" /\ cur' = 0 /\ due' = late
    /\ UNCHANGED <<writers, buffer, cache, pos, out, run, joined, logVars, owed>>

ThreadEnd ==
    /\ lpc = "top" /\ ~run
    /\ lpc' = "ended"
    /\ UNCHANGED <<writers, buffer, cache, pos, out, run, joined, cur, due, logVars, owed>>

\* Variant with a fault: only large buffers are due.
DueIfLarge(w) == Len(buffer[w]) > FlushSize

Due(w) == Len(buffer[w]) > FlushSize \/ w \in due

\* SwitchBuffer, under m_buf_locker.
SwitchBuffer ==
    /\ lpc = "flush" /\ cur \in writers
    /\ Due(cur)
    /\ cache' = [cache EXCEPT ![cur] = buffer[cur]]
    /\ buffer' = [buffer EXCEPT ![cur] = cache[cur]]
    /\ pos' = 0
    /\ lpc' = "write"
    /\ UNCHANGED <<writers, out, run, joined, cur, due, logVars, owed>>

\* Variant with a fault: does not stop at the end of the writers.
SkipBufferPastEnd ==
    /\ lpc = "flush"
    /\ cur \notin writers \/ ~Due(cur)
    /\ cur' = cur + 1
    /\ UNCHANGED <<writers, buffer, cache, pos, out, run, joined, lpc, due, logVars, owed>>

SkipBuffer ==
    /\ lpc = "flush" /\ cur \in Writer
    /\ cur \notin writers \/ ~Due(cur)
    /\ cur' = cur + 1
    /\ UNCHANGED <<writers, buffer, cache, pos, out, run, joined, lpc, due, logVars, owed>>

\* What write() may take: at most a piece, perhaps less.
Pieces(left) == 1 .. (IF left > PieceSize THEN PieceSize ELSE left)

\* Variant with a fault: a piece counts as written whole.
WritePieceWhole ==
    /\ lpc = "write" /\ pos < Len(cache[cur])
    /\ \E n \in Pieces(Len(cache[cur]) - pos) :
          /\ out' = [out EXCEPT ![cur] = @ \o SubSeq(cache[cur], pos + 1, pos + n)]
          /\ pos' = IF pos + PieceSize < Len(cache[cur]) THEN pos + PieceSize ELSE Len(cache[cur])
    /\ UNCHANGED <<writers, buffer, cache, run, joined, lpc, cur, due, logVars, owed>>

\* WriteFile, once round its loop.
WritePiece ==
    /\ lpc = "write" /\ pos < Len(cache[cur])
    /\ \E n \in Pieces(Len(cache[cur]) - pos) :
          /\ out' = [out EXCEPT ![cur] = @ \o SubSeq(cache[cur], pos + 1, pos + n)]
          /\ pos' = pos + n
    /\ UNCHANGED <<writers, buffer, cache, run, joined, lpc, cur, due, logVars, owed>>

\* ... and its end.
WriteDone ==
    /\ lpc = "write" /\ pos = Len(cache[cur])
    /\ cache' = [cache EXCEPT ![cur] = <<>>]
    /\ pos' = 0
    /\ cur' = cur + 1 /\ lpc' = "flush"
    /\ UNCHANGED <<writers, buffer, out, run, joined, due, logVars, owed>>

\* The writers are through.  The thread sleeps if it wrote nothing, and looks at m_run.
RoundEnd ==
    /\ lpc = "flush" /\ cur \notin Writer
    /\ lpc' = IF joined THEN "destroyed" ELSE "top"
    /\ UNCHANGED <<writers, buffer, cache, pos, out, run, joined, cur, due, logVars, owed>>

Flush == SwitchBuffer \/ SkipBuffer \/ WritePiece \/ WriteDone \/ RoundEnd

Next ==
    \/ \E m \in Writer : AddLogModel(m) \/ Logging(m)
    \/ Start \/ Stop \/ Join
    \/ \E late \in SUBSET Writer : RoundBegin(late)
    \/ ThreadEnd \/ Flush

Spec == Init /\ [][Next]_vars

\* The thread and ~Logger run on, and time passes: of rounds without end, each writer
\* is a second behind at the beginning of one again and again.
Fairness ==
    /\ WF_vars(\E late \in SUBSET Writer : RoundBegin(late))
    /\ \A w \in Writer : SF_vars(\E late \in SUBSET Writer : w \in late /\ RoundBegin(late))
    /\ WF_vars(ThreadEnd) /\ WF_vars(Flush) /\ WF_vars(Join)

FairSpec == Spec /\ Fairness

-----------------------------------------------------------------------------
(* Properties.                                                             *)

TypeOK ==
    /\ writers \subseteq Writer
    /\ buffer \in [Writer -> Seq(Record)] /\ cache \in [Writer -> Seq(Record)]
    /\ pos \in 0 .. MaxRecords
    /\ out \in [Writer -> Seq(Record)]
    /\ run \in BOOLEAN /\ joined \in BOOLEAN
    /\ lpc \in {"none", "top", "flush", "write", "ended", "destroyed"}
    /\ cur \in 0 .. Modules + 1 /\ due \subseteq Writer
    /\ last \in 0 .. MaxRecords /\ logged \in [Writer -> Seq(Record)]
    /\ owed \in [Writer -> Nat]

Unwritten(w) == SubSeq(cache[w], (IF lpc = "write" /\ w = cur THEN pos ELSE 0) + 1, Len(cache[w]))

\* A writer's records are in its file, in the part of its cache that is yet to be
\* written and in its buffer, in the order they were logged, each once: whenever the
\* buffers are swapped, and however little each write() takes.
NoRecordLost == \A w \in Writer : out[w] \o Unwritten(w) \o buffer[w] = logged[w]

\* What was logged before the logger began to end is in the files when it has ended,
\* although threads still log, and the logger's own may have been amid a round.
WrittenAtEnd ==
    lpc = "destroyed" => \A w \in Writer : Len(out[w]) >= owed[w]

\* Each record is written in the end, unless the logger has ended before: also the few
\* of a module that then falls silent.
RecordWritten ==
    \A w \in Writer, i \in Record :
        (run /\ Len(logged[w]) >= i) ~> (Len(out[w]) >= i \/ lpc = "destroyed")
=============================================================================
