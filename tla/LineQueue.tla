------------------------------ MODULE LineQueue ------------------------------
(***************************************************************************)
(* The prioritised command queue of a Communerdette (communerdette.rs).    *)
(* Callers send commands over a channel and wait for a reply; one worker   *)
(* moves them to a heap and executes them.  The `else` branch of its       *)
(* select! runs only when recv() yields nothing, which is once every       *)
(* sender is gone; until then the worker only fills the heap.              *)
(***************************************************************************)
EXTENDS Naturals, Sequences, FiniteSets

CONSTANTS
  Priorities,    \* CommunerdettePriority, as numbers: Bulk < ... < Critical
  MaxCommands    \* bound: commands sent

ASSUME QueueAssumption == Priorities \subseteq Nat /\ MaxCommands \in Nat

VARIABLES
  channel,       \* the mpsc channel, oldest first
  open,          \* a sender is still alive
  heap,          \* the BinaryHeap
  sequence,      \* the shared sequence counter
  worker_pc,
  running,       \* the command the worker executes
  reply,         \* per command: "none", "pending", "answered", "dropped",
                 \* or "unasked" for a Shutdown
  served         \* history: commands in the order they were executed

queueVars == <<channel, open, heap, sequence, worker_pc, running, reply, served>>

Ids == 1..MaxCommands
NoCommand == [id |-> 0, priority |-> 0, sequence |-> 0, shutdown |-> FALSE]
Sent == {i \in Ids : reply[i] # "none"}

QueueInit ==
  /\ channel = << >> /\ open = TRUE /\ heap = {} /\ sequence = 0
  /\ worker_pc = "recv" /\ running = NoCommand
  /\ reply = [i \in Ids |-> "none"] /\ served = << >>

\* QueuedCommand::cmp: the greater priority, then the smaller sequence number.
\* Mutant: the newest command of a priority first.
QueuedBeforeLifo(c, d) ==
  c.priority > d.priority \/ (c.priority = d.priority /\ c.sequence > d.sequence)
QueuedBefore(c, d) ==
  c.priority > d.priority \/ (c.priority = d.priority /\ c.sequence < d.sequence)

\* A caller sends a CalendarSlice or Stamp command, or Shutdown.  Once the
\* worker is gone the send fails and the reply end is dropped at once.
Send(p, stop) ==
  /\ open /\ Cardinality(Sent) < MaxCommands
  /\ LET i == Cardinality(Sent) + 1
         c == [id |-> i, priority |-> p, sequence |-> 0, shutdown |-> stop]
     IN  IF worker_pc = "stopped"
         THEN reply' = [reply EXCEPT ![i] = "dropped"] /\ UNCHANGED channel
         ELSE /\ reply' = [reply EXCEPT ![i] = IF stop THEN "unasked" ELSE "pending"]
              /\ channel' = Append(channel, c)
  /\ UNCHANGED <<open, heap, sequence, worker_pc, running, served>>

SendersGone ==
  /\ open /\ open' = FALSE
  /\ UNCHANGED <<channel, heap, sequence, worker_pc, running, reply, served>>

\* recv() yields a command: it is numbered and pushed.
Receive ==
  /\ worker_pc = "recv" /\ channel # << >> /\ ~Head(channel).shutdown
  /\ heap' = heap \cup {[Head(channel) EXCEPT !.sequence = sequence]}
  /\ sequence' = sequence + 1
  /\ channel' = Tail(channel)
  /\ UNCHANGED <<open, worker_pc, running, reply, served>>

\* The worker returns: heap and channel are dropped, and every reply in them.
StopWorker ==
  /\ worker_pc' = "stopped" /\ heap' = {} /\ channel' = << >> /\ running' = NoCommand
  /\ reply' = [i \in Ids |-> IF reply[i] = "pending" THEN "dropped" ELSE reply[i]]

\* recv() yields Shutdown: the rest of the channel is drained to the heap and
\* the loop is left; nothing of the heap is executed.
\* Mutant: the loop goes on after the drain.
ReceiveShutdownStays ==
  /\ worker_pc = "recv" /\ channel # << >> /\ Head(channel).shutdown
  /\ sequence' = sequence + Len(channel)
  /\ channel' = << >> /\ heap' = {}
  /\ UNCHANGED <<open, worker_pc, running, reply, served>>
ReceiveShutdown ==
  /\ worker_pc = "recv" /\ channel # << >> /\ Head(channel).shutdown
  /\ sequence' = sequence + Len(channel)
  /\ StopWorker
  /\ UNCHANGED <<open, served>>

\* The channel is empty and closed: pop the greatest command and execute it.
\* With an empty heap the worker sleeps 10 ms and looks again, for ever.
Pop(c) ==
  /\ worker_pc = "recv" /\ channel = << >> /\ ~open
  /\ c \in heap /\ \A d \in heap \ {c} : QueuedBefore(c, d)
  /\ heap' = heap \ {c} /\ running' = c /\ worker_pc' = "execute"
  /\ UNCHANGED <<channel, open, sequence, reply, served>>

\* execute_calendar_slice or execute_stamp ends, by its timeout at the latest,
\* and the result is sent; a success notes the time for the L1 loop.
Execute ==
  /\ worker_pc = "execute" /\ worker_pc' = "recv"
  /\ reply' = [reply EXCEPT ![running.id] = "answered"]
  /\ served' = Append(served, running)
  /\ running' = NoCommand
  /\ UNCHANGED <<channel, open, heap, sequence>>

QueueNext ==
  \/ \E p \in Priorities, stop \in BOOLEAN : Send(p, stop)
  \/ SendersGone \/ Receive \/ ReceiveShutdown \/ Execute
  \/ \E c \in heap : Pop(c)

QueueSpec == QueueInit /\ [][QueueNext]_queueVars

\* The runtime keeps polling the worker.  Nothing is asked of the callers: they may
\* keep their senders, and wait, for ever.
QueueFairness ==
  WF_queueVars(Receive \/ ReceiveShutdown \/ Execute \/ \E c \in heap : Pop(c))

-----------------------------------------------------------------------------
(* Properties *)

\* Commands are executed by priority and, within one priority, in the order
\* they were sent, whoever sent them.
ServedInOrder ==
  \A i, j \in DOMAIN served : i < j =>
    \/ served[i].priority > served[j].priority
    \/ served[i].priority = served[j].priority /\ served[i].id < served[j].id

\* Once every sender is gone, or a Shutdown is in the channel, nobody waits for ever:
\* every command is answered, or its reply is dropped when the Shutdown overtakes it.
\* A caller that keeps its sender while it waits is promised nothing.
Ending == ~open \/ \E k \in DOMAIN channel : channel[k].shutdown
CallersReleasedAtEnd ==
  \A i \in Ids : (reply[i] = "pending" /\ Ending) ~> (reply[i] \in {"answered", "dropped"})
=============================================================================
