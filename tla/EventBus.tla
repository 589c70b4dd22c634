------------------------------ MODULE EventBus ------------------------------
(***************************************************************************)
(* The event bus of a run: the session's ZmqMessagePublisher, the PUB/SUB  *)
(* socket pair, and the event logger service that writes events.jsonl.     *)
(*                                                                         *)
(* Sources: async_utils/transport/zmq/pubsub.py, transport/protocol.py,    *)
(* event_publisher.py, services/event_logger/__main__.py and its writers.  *)
(*                                                                         *)
(* Records are the numbers 1..N in the order the session publishes them;   *)
(* number Ended is the session's ENDED.  A frame is a sequence of records. *)
(* The subscriber is connected before the first record is published (the   *)
(* readiness barrier, WorkerStartup).                                      *)
(***************************************************************************)
EXTENDS Naturals, Sequences, SequencesExt

CONSTANTS
    N,              \* records published
    Ended,          \* the one that is SessionEventType.ENDED
    Threshold,      \* send_threshold
    FlushInterval,  \* flush_interval of the writer
    SendErrors,     \* socket.send may raise something other than zmq.Again
    WriteErrors     \* a writer may raise (disk full)

ASSUME BusAssumption ==
    /\ {N, Threshold, FlushInterval} \subseteq Nat \ {0} /\ Ended \in 1..N
    /\ {SendErrors, WriteErrors} \subseteq BOOLEAN

VARIABLES
    published,  \* number of publish() calls so far
    buffer,     \* _batch_buffer
    pending,    \* _pending: frames for the writer callback
    closed,     \* the publisher's is_closed
    frames,       \* frames in the sockets
    tasks,      \* process(items) tasks of the subscriber that have not run
    seen,       \* records handed to process() so far
    shutdown,   \* _shutdown_received
    file,       \* records written to the writer
    disk,       \* how many of them were flushed
    open,       \* the writer list is not empty
    stopReq,    \* _request_stop is scheduled
    exited,     \* shutdown_event is set and main() has returned
    failed      \* a process() task has raised

pubVars == <<published, buffer, pending, closed>>
logVars == <<shutdown, file, disk, open, stopReq, failed>>
busVars == <<pubVars, frames, tasks, seen, logVars, exited>>

BusInit ==
    /\ published = 0 /\ buffer = <<>> /\ pending = <<>> /\ closed = FALSE
    /\ frames = <<>> /\ tasks = <<>> /\ seen = <<>>
    /\ shutdown = FALSE /\ file = <<>> /\ disk = 0 /\ open = TRUE
    /\ stopReq = FALSE /\ exited = FALSE /\ failed = FALSE

-----------------------------------------------------------------------------
(* The publisher.                                                           *)

(* A full socket lets a frame overtake the pending ones.                    *)
SendFrame_Overtakes(frame) ==
    \/ /\ frames' = Append(frames, frame)
       /\ UNCHANGED pending
    \/ /\ pending' = Append(pending, frame)
       /\ UNCHANGED frames

(* The frame goes out directly when nothing is pending and the socket takes *)
(* it; otherwise the writer callback will send it.                          *)
SendFrame(frame) ==
    \/ /\ pending = <<>>
       /\ frames' = Append(frames, frame)
       /\ UNCHANGED pending
    \/ /\ pending' = Append(pending, frame)
       /\ UNCHANGED frames

(* _flush_batch; a send that raises leaves the records in the buffer.       *)
FlushBatch(buf) ==
    \/ buffer' = <<>> /\ SendFrame(buf)
    \/ SendErrors /\ buffer' = buf /\ UNCHANGED <<pending, frames>>

(* publish(), and flush() behind it for the session's control events.       *)
Publish(flush) ==
    /\ ~closed /\ published < N
    /\ published' = published + 1
    /\ published' = Ended => flush
    /\ LET buf == Append(buffer, published') IN
       IF flush \/ Len(buf) >= Threshold
       THEN FlushBatch(buf)
       ELSE buffer' = buf /\ UNCHANGED <<pending, frames>>
    /\ UNCHANGED <<closed, tasks, seen, logVars, exited>>

(* _on_writable: the socket takes k of the pending frames.                  *)
PublisherWritable ==
    /\ pending # <<>> /\ ~closed
    /\ \E k \in 1..Len(pending) :
        /\ frames' = frames \o SubSeq(pending, 1, k)
        /\ pending' = SubSeq(pending, k + 1, Len(pending))
    /\ UNCHANGED <<published, buffer, closed, tasks, seen, logVars, exited>>

(* close() that forgets the pending frames.                                 *)
ClosePublisher_DropsPending ==
    /\ ~closed
    /\ closed' = TRUE /\ buffer' = <<>> /\ pending' = <<>>
    /\ frames' = IF pending # <<>> \/ buffer = <<>> THEN frames ELSE Append(frames, buffer)
    /\ UNCHANGED <<published, tasks, seen, logVars, exited>>

(* close(): the buffer is flushed and the pending frames are sent with      *)
(* blocking sends.                                                          *)
ClosePublisher ==
    /\ ~closed
    /\ closed' = TRUE /\ buffer' = <<>> /\ pending' = <<>>
    /\ frames' = frames \o pending \o (IF buffer = <<>> THEN <<>> ELSE <<buffer>>)
    /\ UNCHANGED <<published, tasks, seen, logVars, exited>>

-----------------------------------------------------------------------------
(* The subscriber and the logger.                                           *)

(* _on_readable: drains the socket until it has nothing more and schedules  *)
(* one process() task with what it got.                                     *)
OnReadable ==
    /\ frames # <<>> /\ ~exited
    /\ tasks' = Append(tasks, FlattenSeq(frames))
    /\ frames' = <<>>
    /\ UNCHANGED <<pubVars, seen, logVars, exited>>

(* The part of a batch that is written: ENDED is the last record.           *)
Upto(items) ==
    IF Ended \in Range(items)
    THEN SubSeq(items, 1, CHOOSE i \in DOMAIN items :
                              items[i] = Ended /\ \A j \in 1..(i - 1) : items[j] # Ended)
    ELSE items

(* RecordWriter.write: flushes whenever FlushInterval records have come     *)
(* since the last flush.                                                    *)
Flushed(n) == disk + ((n - disk) \div FlushInterval) * FlushInterval

(* Writes what follows ENDED in its batch.                                  *)
Process_WritesAfterEnded(items) ==
    LET new == IF shutdown \/ ~open THEN <<>> ELSE items
        sawShutdown == ~shutdown /\ Ended \in Range(items)
    IN
    /\ shutdown' = (shutdown \/ sawShutdown)
    /\ file' = file \o new
    /\ disk' = IF sawShutdown THEN Len(file') ELSE Flushed(Len(file'))
    /\ open' = (open /\ ~sawShutdown)
    /\ stopReq' = (stopReq \/ sawShutdown)
    /\ UNCHANGED failed

(* process(): the records up to ENDED are written; ENDED flushes and closes *)
(* the writers and schedules the stop.                                      *)
Process(items) ==
    LET new == IF shutdown \/ ~open THEN <<>> ELSE Upto(items)
        sawShutdown == ~shutdown /\ Ended \in Range(items)
    IN
    /\ shutdown' = (shutdown \/ sawShutdown)
    /\ file' = file \o new
    /\ disk' = IF sawShutdown THEN Len(file') ELSE Flushed(Len(file'))
    /\ open' = (open /\ ~sawShutdown)
    /\ stopReq' = (stopReq \/ sawShutdown)
    /\ UNCHANGED failed

(* The writer raises at the i-th record: the task ends there.               *)
ProcessRaises(items) ==
    /\ WriteErrors /\ ~shutdown /\ open
    /\ \E i \in 1..Len(Upto(items)) :
        /\ file' = file \o SubSeq(items, 1, i - 1)
        /\ disk' = Flushed(Len(file'))
        /\ shutdown' = (items[i] = Ended)
    /\ failed' = TRUE
    /\ UNCHANGED <<open, stopReq>>

RunTask ==
    /\ tasks # <<>> /\ ~exited
    /\ tasks' = Tail(tasks) /\ seen' = seen \o Head(tasks)
    /\ Process(Head(tasks)) \/ ProcessRaises(Head(tasks))
    /\ UNCHANGED <<pubVars, frames, exited>>

(* _request_stop, scheduled after ENDED or called by the SIGTERM handler:   *)
(* writers still open are flushed and closed, main() returns.               *)
RequestStop ==
    /\ open' = FALSE /\ stopReq' = FALSE /\ exited' = TRUE
    /\ disk' = IF open THEN Len(file) ELSE disk
    /\ UNCHANGED <<pubVars, frames, tasks, seen, shutdown, file, failed>>

Stop == ~exited /\ stopReq /\ RequestStop

Sigterm == ~exited /\ ~stopReq /\ RequestStop

BusNext ==
    \/ \E flush \in BOOLEAN : Publish(flush)
    \/ PublisherWritable \/ ClosePublisher
    \/ OnReadable \/ RunTask \/ Stop \/ Sigterm

(* The socket takes frames again, both loops run their callbacks, and the   *)
(* pipeline closes the publisher once the session has published ENDED.      *)
BusFairness ==
    /\ WF_busVars(PublisherWritable) /\ WF_busVars(OnReadable) /\ WF_busVars(RunTask)
    /\ WF_busVars(Stop) /\ WF_busVars(published >= Ended /\ ClosePublisher)

-----------------------------------------------------------------------------
(* Type correctness; batching is bounded: a buffer holds fewer records than *)
(* the threshold, unless a send has raised.                                 *)
BusTypeOK ==
    /\ published \in 0..N
    /\ {buffer, seen, file, FlattenSeq(frames), FlattenSeq(pending)} \subseteq Seq(1..N)
    /\ \A b \in {closed, shutdown, open, stopReq, exited, failed} : b \in BOOLEAN
    /\ disk \in 0..Len(file)
    /\ SendErrors \/ Len(buffer) < Threshold
    /\ \A i \in DOMAIN tasks : tasks[i] # <<>>

(* Everything published, in order: handed to process(), scheduled for it,   *)
(* in the sockets, pending, or in the buffer.                               *)
InTransit == FlattenSeq(tasks) \o FlattenSeq(frames) \o FlattenSeq(pending) \o buffer

Bus == INSTANCE InOrderChannel WITH
    Senders <- {"publisher"}, Message <- 1..N, Lossy <- FALSE,
    transit <- [s \in {"publisher"} |-> InTransit],
    got <- [s \in {"publisher"} |-> seen]

(* Batching, the pending queue and the closing drain implement a channel    *)
(* that neither reorders nor loses nor repeats a record.                    *)
BusRefinesChannel == Bus!Spec

(* The log is the run's: its records are in the order they were published,  *)
(* each once; unless a writer has raised none is missing and none is behind *)
(* ENDED, and a logger that ended by itself has put ENDED on disk.  One     *)
(* that is killed loses fewer than flush_interval of what it processed.     *)
LogIsTheRun ==
    /\ BusTypeOK
    /\ Len(file) - disk < FlushInterval
    /\ \A i \in DOMAIN file : \A j \in 1..(i - 1) : file[j] < file[i]
    /\ ~failed =>
        /\ \A i \in DOMAIN file : file[i] = i /\ i <= Ended
        /\ shutdown /\ exited => disk = Ended

(* After ENDED was published the logger exits by itself, although sends may *)
(* fail, unless a writer has raised.                                        *)
EndedStopsLogger == published >= Ended ~> exited \/ failed

=============================================================================
