---------------------------- MODULE IpsecEvents ----------------------------
(***************************************************************************)
(* protocols/ipsec/events.py: a thread listens to the daemon's up and down *)
(* events and puts them on a queue, from which a task stores them one by   *)
(* one in ipsec_events, the timeline that the API serves.  The polls       *)
(* (IpsecPoller) store the outages they find in the same table.            *)
(***************************************************************************)
EXTENDS IpsecWorker, Sequences, SequencesExt

CONSTANT MaxQueue       \* bound: events on the queue

ASSUME QueueAssumption == MaxQueue \in Nat

VARIABLES
    queue,      \* event_queue
    timeline,   \* the event stored last under each name
    lost        \* history: the last event of the name was lost or never sent, or says what is
                \* not so

eventVars == <<queue, timeline, lost>>

Event == [name: Names, type: {"up", "down"}]

EventsTypeOK ==
    /\ WorkerTypeOK
    /\ queue \in Seq(Event) /\ Len(queue) <= MaxQueue
    /\ timeline \in [Names -> {"none", "up", "down"}]
    /\ lost \in [Names -> BOOLEAN]
    /\ queue # <<>> => worker = "running"

EventsInit ==
    /\ queue = <<>>
    /\ timeline = [n \in Names |-> "none"]
    /\ lost = [n \in Names |-> FALSE]

-----------------------------------------------------------------------------
(* _listen_blocking.                                                       *)

Queued(q) == {q[k].name : k \in DOMAIN q}

\* The daemon does not repeat an event for a listener that comes later, and the thread of
\* a worker that is stopping adds to a queue that nobody reads any more.
Hears == worker = "running" /\ listener = "listening"
Hear(n, type, told) ==
    /\ queue' = IF Hears THEN Append(queue, [name |-> n, type |-> type]) ELSE queue
    /\ lost' = [lost EXCEPT ![n] = ~(Hears /\ told)]
    /\ UNCHANGED timeline

\* msg.get("up") == "yes", of an ike-updown or child-updown event
Updown(n, type) == Len(queue) < MaxQueue /\ Hear(n, type, TRUE)

\* A child-rekey event has no "up": _classify_child_event takes it for CHILD_DOWN.
Rekey(n) ==
    /\ charon /\ sa[n] # NoSa
    /\ Len(queue) < MaxQueue
    /\ Hear(n, "down", FALSE)
    /\ UNCHANGED workerVars

\* An IKE_SA is listed only while it has no CHILD_SA (vici_client.py:111-112): its name goes and
\* comes back with its children, and no event is about that.
Unsaid(n) ==
    /\ lost' = [lost EXCEPT ![n] = TRUE]
    /\ UNCHANGED <<queue, timeline>>

\* A daemon that dies says nothing about what it takes with it.
Silence ==
    /\ lost' = [n \in Names |-> lost[n] \/ sa[n] # NoSa]
    /\ UNCHANGED <<queue, timeline>>

-----------------------------------------------------------------------------
(* event_listen_loop.                                                      *)

\* Seeded fault: the newest event first.
StoreNewest ==
    /\ worker = "running" /\ queue # <<>>
    /\ timeline' = [timeline EXCEPT ![Last(queue).name] = Last(queue).type]
    /\ queue' = Front(queue)
    /\ UNCHANGED lost

\* _store_event; the live message that follows changes nothing here.
Store ==
    /\ worker = "running" /\ queue # <<>>
    /\ timeline' = [timeline EXCEPT ![Head(queue).name] = Head(queue).type]
    /\ queue' = Tail(queue)
    /\ UNCHANGED lost

\* mark_stale_tunnels_down stores a DOWN of its own, whatever the tunnel is by now.  What is
\* still queued will be stored after it.
StoreDown(n) ==
    /\ timeline' = [timeline EXCEPT ![n] = "down"]
    /\ lost' = [lost EXCEPT ![n] = IF n \in Queued(queue) THEN @ ELSE sa[n] # NoSa]
    /\ UNCHANGED queue

\* An exception is logged and the event dropped.
StoreFails ==
    /\ worker = "running" /\ queue # <<>>
    /\ queue' = Tail(queue)
    /\ LET n == Head(queue).name
       IN lost' = [lost EXCEPT ![n] = @ \/ n \notin Queued(Tail(queue))]
    /\ UNCHANGED timeline

\* Seeded fault: the queue outlives the worker.
KeepQueue == UNCHANGED eventVars

\* The queue goes with the worker.
DropQueue ==
    /\ queue' = <<>>
    /\ lost' = [n \in Names |-> lost[n] \/ n \in Queued(queue)]
    /\ UNCHANGED timeline

-----------------------------------------------------------------------------
(* Properties.                                                             *)

\* The timeline ends with what is so: once everything heard of a tunnel has been stored,
\* its last event says whether it is up, unless that event was lost, never sent or a rekeying
\* (events.py:46-49, 81), or was the DOWN of a poll that took a tunnel for gone which is up:
\* list_sas had failed, or the tunnel came up after it was listed (collector.py:114-126).
TimelineCurrent ==
    \A n \in Names : ~lost[n] /\ n \notin Queued(queue)
        => (timeline[n] = "up" <=> sa[n] # NoSa)
=============================================================================
