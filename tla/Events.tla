-------------------------------- MODULE Events --------------------------------
(***************************************************************************)
(* How a change of a document's status reaches the browsers                *)
(* (app/domain/services/document_events.py, app/infrastructure/events,     *)
(* app/api/v1/routers/sse.py).                                             *)
(*                                                                         *)
(* A service records changes in its outbox and publishes them after the    *)
(* commit, to a Redis channel; one process of the API reads the channel    *)
(* and hands each event to the bounded queues of its streams.  Without     *)
(* Redis the process hands its own events out itself.  A step ends where   *)
(* the code awaits: what lies between is not interrupted.                  *)
(***************************************************************************)
EXTENDS Naturals, Sequences, SequencesExt

CONSTANTS
  Writer,      \* services: requests of the API and tasks of the worker
  Worker,      \* those of the worker
  Sub,         \* streams a browser may open
  Doc, User,   \* documents, and the users who own their projects
  OwnerOf,     \* the owner of a document's project
  UserOf,      \* the user of a stream
  Filter,      \* the documents a stream asks for; empty for all
  QueueSize,   \* SUBSCRIBER_QUEUE_SIZE
  MaxChanges,  \* bound on the changes recorded
  MaxFaults    \* bound on the failures, the projects deleted and the browsers that stall

ASSUME EventsAssumption ==
  /\ Worker \subseteq Writer
  /\ OwnerOf \in [Doc -> User] /\ UserOf \in [Sub -> User] /\ Filter \in [Sub -> SUBSET Doc]
  /\ QueueSize \in Nat \ {0} /\ MaxChanges \in Nat /\ MaxFaults \in Nat

VARIABLES
  log,        \* the changes recorded so far: document and writer of each
  committed,  \* changes committed
  out,        \* per writer, the changes of its transaction (tx) and its outbox: recorded
              \* (pending) and being published (now)
  deleted,    \* documents whose project has been deleted
  mode,       \* "redis" or "memory"
  reader,     \* the task that reads the channel: "running", "dead" or "stopped"
  channel,    \* changes published and not yet read
  subs,       \* the streams
  stop,       \* the shutdown: "no", "stopping", "closing", "done" or "failed"
  table,      \* the streams there were when it began to end them
  rest,       \* those it has not come to
  wait,       \* the queue it waits for, if any
  lost,       \* history: changes whose publication failed or that nobody listened to
  faults      \* failures so far

stopping == <<stop, table, rest, wait>>
vars == <<log, committed, out, deleted, mode, reader, channel, subs, stopping, lost, faults>>

End == 0    \* None in a queue: the stream is to end

\* A stream: whether its browser "reads", "stalls" or is "gone", its queue, what the browser
\* got, and what it has missed: all before it was opened and what found its queue full (history).
Closed == [state |-> "closed", browser |-> "reads", queue |-> <<>>, got |-> <<>>, missed |-> {}]

Init ==
  /\ log = <<>> /\ committed = {} /\ deleted = {}
  /\ out = [w \in Writer |-> [tx |-> {}, pending |-> <<>>, now |-> <<>>]]
  /\ mode \in {"redis", "memory"}   \* init_sse_broker falls back when Redis does not answer
  /\ reader = IF mode = "redis" THEN "running" ELSE "stopped"
  /\ channel = <<>>
  /\ subs = [s \in Sub |-> Closed]
  /\ stop = "no" /\ table = {} /\ rest = {} /\ wait = {}
  /\ lost = {} /\ faults = 0

Open   == {s \in Sub : subs[s].state = "open"}
Fault  == faults < MaxFaults /\ faults' = faults + 1

InFlight(c) == c \in ToSet(channel) \/ \E w \in Writer : c \in ToSet(out[w].now)
Wants(s, c) ==
  /\ UserOf[s] = OwnerOf[log[c].doc]
  /\ Filter[s] = {} \/ log[c].doc \in Filter[s]

-----------------------------------------------------------------------------
(* The outbox.                                                             *)

\* record: inside a transaction.  The next transaction of a service begins after flush.
Record(w) ==
  /\ out[w].now = <<>> /\ Len(log) < MaxChanges
  /\ \E d \in Doc \ deleted : log' = Append(log, [doc |-> d, by |-> w])
  /\ out' = [out EXCEPT ![w].tx = @ \cup {Len(log) + 1}, ![w].pending = Append(@, Len(log) + 1)]
  /\ UNCHANGED <<committed, deleted, mode, reader, channel, subs, stopping, lost, faults>>

Commit_KeepsPending(w) ==
  /\ out[w].tx # {}
  /\ committed' = committed \cup out[w].tx
  /\ out' = [out EXCEPT ![w].tx = {}, ![w].now = out[w].pending]
  /\ UNCHANGED <<log, deleted, mode, reader, channel, subs, stopping, lost, faults>>
Commit(w) ==
  /\ out[w].tx # {}
  /\ committed' = committed \cup out[w].tx
  /\ out' = [out EXCEPT ![w] = [tx |-> {}, pending |-> <<>>, now |-> @.pending]]
  /\ UNCHANGED <<log, deleted, mode, reader, channel, subs, stopping, lost, faults>>

\* discard, when the commit fails or the request has lost a race; a service that starts
\* many analyses goes on with the next document.
Rollback_KeepsPending(w) ==
  /\ out[w].tx # {}
  /\ out' = [out EXCEPT ![w].tx = {}]
  /\ UNCHANGED <<log, committed, deleted, mode, reader, channel, subs, stopping, lost, faults>>
Rollback(w) ==
  /\ out[w].tx # {}
  /\ out' = [out EXCEPT ![w].tx = {}, ![w].pending = <<>>]
  /\ UNCHANGED <<log, committed, deleted, mode, reader, channel, subs, stopping, lost, faults>>

DeleteProject(d) ==
  /\ d \notin deleted /\ Fault /\ deleted' = deleted \cup {d}
  /\ UNCHANGED <<log, committed, out, mode, reader, channel, subs, stopping, lost>>

-----------------------------------------------------------------------------
(* The broker.                                                             *)

\* fan_out: a full queue misses the event.  close_all has emptied the table of streams.
FanOut(c) ==
  [s \in Sub |->
     IF s \in Open /\ stop # "done" /\ Wants(s, c)
     THEN IF Len(subs[s].queue) < QueueSize THEN [subs[s] EXCEPT !.queue = Append(@, c)]
                                            ELSE [subs[s] EXCEPT !.missed = @ \cup {c}]
     ELSE subs[s]]

\* flush publishes one event after the other; a failure is logged and the next one tried.
\* The worker has no broker of its own: without Redis nobody hears it.
Publish_StopsAtFailure(w) ==
  /\ out[w].now # <<>>
  /\ LET c == Head(out[w].now) IN
     \/ /\ log[c].doc \notin deleted /\ mode = "redis" /\ reader = "running"
        /\ channel' = Append(channel, c)
        /\ out' = [out EXCEPT ![w].now = Tail(@)] /\ UNCHANGED <<subs, lost, faults>>
     \/ /\ log[c].doc \notin deleted /\ Fault /\ lost' = lost \cup {c}
        /\ out' = [out EXCEPT ![w].now = <<>>] /\ UNCHANGED <<channel, subs>>
  /\ UNCHANGED <<log, committed, deleted, mode, reader, stopping>>
Publish(w) ==
  /\ out[w].now # <<>> /\ out' = [out EXCEPT ![w].now = Tail(@)]
  /\ LET c == Head(out[w].now) IN
     \/ /\ log[c].doc \notin deleted /\ mode = "redis" /\ reader = "running"
        /\ channel' = Append(channel, c) /\ UNCHANGED <<subs, lost, faults>>
     \/ /\ log[c].doc \notin deleted /\ mode = "memory" /\ w \notin Worker
        /\ subs' = FanOut(c) /\ UNCHANGED <<channel, lost, faults>>
     \/ /\ \/ log[c].doc \in deleted \/ (mode = "memory" /\ w \in Worker)
           \/ mode = "redis" /\ reader # "running"
        /\ lost' = lost \cup {c} /\ UNCHANGED <<channel, subs, faults>>
     \/ Fault /\ lost' = lost \cup {c} /\ UNCHANGED <<channel, subs>>
  /\ UNCHANGED <<log, committed, deleted, mode, reader, stopping>>

\* The owner lookup fails, or the process dies, after the commit: the rest is never said.
LoseOutbox(w) ==
  /\ out[w].now # <<>> /\ Fault
  /\ out' = [out EXCEPT ![w] = [tx |-> {}, pending |-> <<>>, now |-> <<>>]]
  /\ lost' = lost \cup ToSet(out[w].now)
  /\ UNCHANGED <<log, committed, deleted, mode, reader, channel, subs, stopping>>

\* _reader_loop.
Read ==
  /\ reader = "running" /\ channel # <<>>
  /\ subs' = FanOut(Head(channel)) /\ channel' = Tail(channel)
  /\ UNCHANGED <<log, committed, out, deleted, mode, reader, stopping, lost, faults>>

\* An exception ends the loop for good; nobody starts it again.
ReaderDies ==
  /\ reader = "running" /\ Fault /\ reader' = "dead"
  /\ channel' = <<>> /\ lost' = lost \cup ToSet(channel)
  /\ UNCHANGED <<log, committed, out, deleted, mode, subs, stopping>>

-----------------------------------------------------------------------------
(* The streams.                                                            *)

\* subscribe; the server that is shutting down takes no new request.
Subscribe(s) ==
  /\ subs[s].state = "closed" /\ stop = "no"
  /\ subs' = [subs EXCEPT ![s].state = "open",
                          ![s].missed = {c \in committed : Wants(s, c) /\ ~InFlight(c)}]
  /\ UNCHANGED <<log, committed, out, deleted, mode, reader, channel, stopping, lost, faults>>

\* The browser stops reading without closing the connection, or goes away.
Stall(s) ==
  /\ subs[s].state = "open" /\ subs[s].browser = "reads" /\ Fault
  /\ subs' = [subs EXCEPT ![s].browser = "stalls"]
  /\ UNCHANGED <<log, committed, out, deleted, mode, reader, channel, stopping, lost>>
Disconnect(s) ==
  /\ subs[s].state = "open" /\ subs[s].browser # "gone"
  /\ subs' = [subs EXCEPT ![s].browser = "gone"]
  /\ UNCHANGED <<log, committed, out, deleted, mode, reader, channel, stopping, lost, faults>>

\* event_stream takes an event; None ends it, and so does a browser found gone.  Where the
\* browser does not read it waits in its yield and takes nothing.
Deliver(s) ==
  /\ subs[s].state = "open" /\ subs[s].queue # <<>> /\ subs[s].browser # "stalls"
  /\ LET c == Head(subs[s].queue)  gone == subs[s].browser = "gone" IN
     subs' = [subs EXCEPT ![s].queue = Tail(@),
                          ![s].got = IF c = End \/ gone THEN @ ELSE Append(@, c),
                          ![s].state = IF c = End \/ gone THEN "ended" ELSE "open"]
  /\ UNCHANGED <<log, committed, out, deleted, mode, reader, channel, stopping, lost, faults>>

\* StreamingResponse watches the connection and cancels the stream of a browser that is
\* gone, wherever it waits and whatever is in its queue.
Cancel(s) ==
  /\ subs[s].state = "open" /\ subs[s].browser = "gone"
  /\ subs' = [subs EXCEPT ![s].state = "ended"]
  /\ UNCHANGED <<log, committed, out, deleted, mode, reader, channel, stopping, lost, faults>>

-----------------------------------------------------------------------------
(* The shutdown.                                                           *)

\* stop: first the reader is cancelled, if it still runs.
Stop ==
  /\ stop = "no" /\ stop' = "stopping"
  /\ reader' = (IF reader = "running" THEN "stopped" ELSE reader) /\ channel' = <<>> /\ lost' = lost \cup ToSet(channel)
  /\ UNCHANGED <<log, committed, out, deleted, mode, subs, table, rest, wait, faults>>

\* Then Redis is told.  unsubscribe or one of the two aclose raises, or never returns, and
\* close_all is not called; always possible where the connection is what the reader died of.
StopFails ==
  /\ stop = "stopping" /\ mode = "redis" /\ stop' = "failed"
  /\ Fault \/ (reader = "dead" /\ UNCHANGED faults)
  /\ UNCHANGED <<log, committed, out, deleted, mode, reader, channel, subs, table, rest, wait, lost>>

Ended(ss) == [s \in Sub |-> IF s \in ss THEN [subs[s] EXCEPT !.queue = Append(@, End)] ELSE subs[s]]
Full(s) == Len(subs[s].queue) >= QueueSize

\* close_all goes through the table of streams; where a queue is full it waits.
CloseAll_NoMarkers ==
  /\ stop = "stopping" /\ stop' = "done"
  /\ UNCHANGED <<log, committed, out, deleted, mode, reader, channel, subs, table, rest, wait, lost, faults>>
CloseAll ==
  LET todo == IF stop = "stopping" THEN Open ELSE rest IN
  /\ stop = "stopping" \/ (stop = "closing" /\ wait = {} /\ table \subseteq Open)
  /\ table' = IF stop = "stopping" THEN Open ELSE table
  /\ \E now \in SUBSET {s \in todo : ~Full(s)} :
       /\ subs' = Ended(now)
       /\ \/ now = todo /\ stop' = "done" /\ rest' = {} /\ wait' = {}
          \/ \E s \in todo \ now :
               /\ Full(s) /\ stop' = "closing" /\ wait' = {s} /\ rest' = todo \ (now \cup {s})
  /\ UNCHANGED <<log, committed, out, deleted, mode, reader, channel, lost, faults>>

\* There is room in the queue it waits for: the marker is put.  A stream makes room when it
\* takes an event, its last one too, but not when it is cancelled.
Resume ==
  /\ stop = "closing" /\ \E s \in wait : ~Full(s)
  /\ subs' = Ended(wait) /\ wait' = {}
  /\ UNCHANGED <<log, committed, out, deleted, mode, reader, channel, stop, table, rest, lost, faults>>

\* A stream has unsubscribed meanwhile.  RuntimeError: dictionary changed size during
\* iteration; the streams it has not come to are never told.
CloseFails ==
  /\ stop = "closing" /\ wait = {} /\ ~(table \subseteq Open) /\ stop' = "failed"
  /\ UNCHANGED <<log, committed, out, deleted, mode, reader, channel, subs, table, rest, wait, lost, faults>>

Next ==
  \/ \E w \in Writer : Record(w) \/ Commit(w) \/ Rollback(w) \/ Publish(w) \/ LoseOutbox(w)
  \/ \E d \in Doc : DeleteProject(d)
  \/ Read \/ ReaderDies
  \/ \E s \in Sub : Subscribe(s) \/ Stall(s) \/ Disconnect(s) \/ Deliver(s) \/ Cancel(s)
  \/ Stop \/ StopFails \/ CloseAll \/ Resume \/ CloseFails

\* The event loop runs every task that is ready: a service's, the reader, a stream's and
\* the shutdown.  Nobody has to read, to go away or to read again.
Fairness ==
  /\ \A w \in Writer : WF_vars(Publish(w))
  /\ WF_vars(Read)
  /\ \A s \in Sub : WF_vars(Deliver(s) \/ Cancel(s))
  /\ WF_vars(CloseAll \/ Resume \/ CloseFails)

Spec == Init /\ [][Next]_vars /\ Fairness

-----------------------------------------------------------------------------
(* Properties.                                                             *)

\* What a stream has got and what its queue holds, in the order in which it was put there.
Passed(s) == subs[s].got \o subs[s].queue

\* document_events.py:30: who gets an event already sees the change in the database; what
\* was rolled back is never announced, also by a service that goes on after a lost race.
SeenAfterCommit == \A s \in Sub : ToSet(Passed(s)) \subseteq committed \cup {End}

\* A stream gets no change twice and those of one service in the order they were made.
\* Of two services' changes the later may be announced first.
InOrder ==
  \A s \in Sub : \A i, j \in DOMAIN Passed(s) :
    LET c == Passed(s)[i]  d == Passed(s)[j] IN
    i < j /\ End \notin {c, d} => c # d /\ (log[c].by = log[d].by => c < d)

\* A committed change reaches every open stream that wants it, unless its queue was full,
\* its browser does not read, its own publication failed, or the reader died or the process
\* stopped first: one event's failure is not another's, one browser's delay neither.  There
\* are finitely many changes, so from any state on all will have arrived at one moment.
Due(s) == {c \in committed \ lost : Wants(s, c)} \ (ToSet(subs[s].got) \cup subs[s].missed)
EveryChangeArrives ==
  (stop = "no" /\ reader # "dead") ~>
    ((\A s \in Open : Due(s) = {} \/ subs[s].browser = "stalls") \/ stop # "no" \/ reader = "dead")

\* After a shutdown every stream whose browser reads ends, except in the three ways in which
\* close_all does not get to it: a call to Redis failed before it (sse_broker.py:172-176), a
\* stream ended while it waited for another's queue, so that the loop fails, and it waits
\* for ever for a full queue nobody empties, of a browser that stalls or a cancelled stream.
NeverEmptied(s) == Full(s) /\ (s \notin Open \/ subs[s].browser = "stalls")
StopEndsStreams ==
  (stop = "stopping") ~>
    ((\A s \in Open : subs[s].browser = "stalls") \/ stop = "failed" \/ \E s \in wait : NeverEmptied(s))
=============================================================================
