---------------------------- MODULE AmqpPublisher ----------------------------
(***************************************************************************)
(* The AMQP publisher (src/amqp_publisher.cpp).                            *)
(*                                                                         *)
(* The server thread puts events into a bounded channel and, when it ends, *)
(* stops the publisher and joins its thread.  The AMQP thread connects to  *)
(* the broker, runs two coroutines on its io_context until both have       *)
(* ended, closes the connection, sleeps and starts again.  do_amqp takes   *)
(* events from the channel and publishes them; do_amqp_heartbeat services  *)
(* the connection once a second.                                           *)
(*                                                                         *)
(* The steps of the two coroutines interleave only where they yield; the   *)
(* server thread interleaves anywhere.                                     *)
(***************************************************************************)
EXTENDS Naturals, Sequences

CONSTANTS
  Capacity,      \* of ipc_channel (100)
  MaxMessages,   \* bound on the events the server thread sends
  MaxFailures,   \* bound on the failures of the broker and the network
  Cancelled,     \* the empty message a cancelled receive returns
  NoMessage      \* no message

Messages == 1 .. MaxMessages

ASSUME AmqpAssumption ==
  /\ Capacity \in Nat \ {0}
  /\ MaxMessages \in Nat
  /\ MaxFailures \in Nat
  /\ Cancelled \notin Messages
  /\ NoMessage \notin Messages \cup {Cancelled}

VARIABLES
  running,       \* the global flag that stop_amqp clears
  server,        \* the server thread: serving, stopping, joining, joined
  thread,        \* amqp_thread: loop, connect, run, close, sleep, ended
  pub,           \* do_amqp: none, check, receive, waiting, publish, done
  beat,          \* do_amqp_heartbeat: none, check, waiting, done
  running_flag,  \* the flag of the current connection
  channel,       \* ipc_channel's buffer
  hand,          \* the message do_amqp has received, or NoMessage
  sent,          \* events sent so far; event n is the n-th one
  published,     \* events handed to the broker, in order
  cancelled,     \* empty messages handed to the broker
  failures,      \* failures so far
  configured     \* all AMQP settings are present

publisherVars == <<running, server, thread, pub, beat, running_flag, channel, hand,
                   sent, published, cancelled, failures, configured>>

PublisherTypeOK ==
  /\ running \in BOOLEAN /\ running_flag \in BOOLEAN /\ configured \in BOOLEAN
  /\ server \in {"serving", "stopping", "joining", "joined"}
  /\ thread \in {"loop", "connect", "run", "close", "sleep", "ended"}
  /\ pub \in {"none", "check", "receive", "waiting", "publish", "done"}
  /\ beat \in {"none", "check", "waiting", "done"}
  /\ channel \in Seq(Messages) /\ Len(channel) <= Capacity
  /\ hand \in Messages \cup {Cancelled, NoMessage}
  /\ (hand # NoMessage) <=> (pub = "publish")
  /\ pub = "waiting" => channel = <<>>
  /\ sent \in 0 .. MaxMessages
  /\ published \in Seq(Messages)
  /\ cancelled \in Nat
  /\ failures \in 0 .. MaxFailures

PublisherInit ==
  /\ running = TRUE
  /\ server = "serving"
  /\ thread = "loop"
  /\ pub = "none" /\ beat = "none"
  /\ running_flag = FALSE
  /\ channel = <<>> /\ hand = NoMessage
  /\ sent = 0 /\ published = <<>> /\ cancelled = 0
  /\ failures = 0
  /\ configured \in BOOLEAN

----------------------------------------------------------------------------
(* The server thread *)

\* try_send hands the event to a waiting receiver, or buffers it, or drops it
\* when the buffer is full; its result is ignored.
PublishToAmqp ==
  /\ server = "serving"
  /\ sent < MaxMessages
  /\ sent' = sent + 1
  /\ \/ /\ pub = "waiting"
        /\ pub' = "publish"
        /\ hand' = sent + 1
        /\ UNCHANGED channel
     \/ /\ pub # "waiting"
        /\ channel' = IF Len(channel) < Capacity THEN Append(channel, sent + 1) ELSE channel
        /\ UNCHANGED <<pub, hand>>
  /\ UNCHANGED <<running, server, thread, beat, running_flag, published, cancelled,
                 failures, configured>>

\* stop_amqp clears the flag, then cancels a receive that is waiting.
StopFlag ==
  /\ server = "serving"
  /\ server' = "stopping"
  /\ running' = FALSE
  /\ UNCHANGED <<thread, pub, beat, running_flag, channel, hand, sent, published,
                 cancelled, failures, configured>>

StopCancel ==
  /\ server = "stopping"
  /\ server' = "joining"
  /\ IF pub = "waiting"
     THEN pub' = "publish" /\ hand' = Cancelled
     ELSE UNCHANGED <<pub, hand>>
  /\ UNCHANGED <<running, thread, beat, running_flag, channel, sent, published,
                 cancelled, failures, configured>>

Join ==
  /\ server = "joining"
  /\ thread = "ended"
  /\ server' = "joined"
  /\ UNCHANGED <<running, thread, pub, beat, running_flag, channel, hand, sent,
                 published, cancelled, failures, configured>>

----------------------------------------------------------------------------
(* The AMQP thread *)

\* Faulty variant: the thread never looks at the flag.
ThreadLoopForever ==
  /\ thread = "loop"
  /\ thread' = "connect"
  /\ UNCHANGED <<running, server, pub, beat, running_flag, channel, hand, sent,
                 published, cancelled, failures, configured>>

ThreadLoop ==
  /\ thread = "loop"
  /\ thread' = IF running THEN "connect" ELSE "ended"
  /\ UNCHANGED <<running, server, pub, beat, running_flag, channel, hand, sent,
                 published, cancelled, failures, configured>>

\* Missing settings end the thread for good.
NotConfigured ==
  /\ thread = "connect"
  /\ ~configured
  /\ thread' = "ended"
  /\ UNCHANGED <<running, server, pub, beat, running_flag, channel, hand, sent,
                 published, cancelled, failures, configured>>

\* No socket ends the thread for good; no connection, login or channel sends
\* it to sleep.
ConnectFails ==
  /\ thread = "connect"
  /\ configured
  /\ failures < MaxFailures
  /\ failures' = failures + 1
  /\ thread' \in {"ended", "sleep"}
  /\ UNCHANGED <<running, server, pub, beat, running_flag, channel, hand, sent,
                 published, cancelled, configured>>

\* Connected: both coroutines are spawned on the context.
Connect ==
  /\ thread = "connect"
  /\ configured
  /\ thread' = "run"
  /\ running_flag' = TRUE
  /\ pub' = "check" /\ beat' = "check"
  /\ UNCHANGED <<running, server, channel, hand, sent, published, cancelled,
                 failures, configured>>

\* context.run() returns when no coroutine is left.
RunReturns ==
  /\ thread = "run"
  /\ pub = "done" /\ beat = "done"
  /\ thread' = "close"
  /\ UNCHANGED <<running, server, pub, beat, running_flag, channel, hand, sent,
                 published, cancelled, failures, configured>>

Disconnect ==
  /\ thread = "close"
  /\ thread' = "sleep"
  /\ pub' = "none" /\ beat' = "none"
  /\ UNCHANGED <<running, server, running_flag, channel, hand, sent, published,
                 cancelled, failures, configured>>

WakeUp ==
  /\ thread = "sleep"
  /\ thread' = "loop"
  /\ UNCHANGED <<running, server, pub, beat, running_flag, channel, hand, sent,
                 published, cancelled, failures, configured>>

----------------------------------------------------------------------------
(* do_amqp *)

PubCheck ==
  /\ pub = "check"
  /\ pub' = IF running THEN "receive" ELSE "done"
  /\ UNCHANGED <<running, server, thread, beat, running_flag, channel, hand, sent,
                 published, cancelled, failures, configured>>

\* async_receive takes the first buffered event, or waits for one.
PubReceive ==
  /\ pub = "receive"
  /\ IF channel = <<>>
     THEN pub' = "waiting" /\ UNCHANGED <<channel, hand>>
     ELSE /\ pub' = "publish"
          /\ hand' = Head(channel)
          /\ channel' = Tail(channel)
  /\ UNCHANGED <<running, server, thread, beat, running_flag, sent, published,
                 cancelled, failures, configured>>

\* The error code of the receive is not looked at: the empty message of a
\* cancelled receive is published like any other.
PublishOk ==
  /\ pub = "publish"
  /\ pub' = "check"
  /\ IF hand = Cancelled
     THEN cancelled' = cancelled + 1 /\ UNCHANGED published
     ELSE published' = Append(published, hand) /\ UNCHANGED cancelled
  /\ hand' = NoMessage
  /\ UNCHANGED <<running, server, thread, beat, running_flag, channel, sent,
                 failures, configured>>

\* Faulty variant: the message is put back at the end of the channel.
PublishFailsRequeues ==
  /\ pub = "publish"
  /\ failures < MaxFailures
  /\ failures' = failures + 1
  /\ pub' = "done"
  /\ hand' = NoMessage
  /\ channel' = IF Len(channel) < Capacity /\ hand # Cancelled THEN Append(channel, hand) ELSE channel
  /\ running_flag' = FALSE
  /\ beat' = IF beat = "waiting" THEN "check" ELSE beat
  /\ UNCHANGED <<running, server, thread, sent, published, cancelled, configured>>

\* Faulty variant: the heartbeat is not told to end.
PublishFailsSilently ==
  /\ pub = "publish"
  /\ failures < MaxFailures
  /\ failures' = failures + 1
  /\ pub' = "done"
  /\ hand' = NoMessage
  /\ UNCHANGED <<running, server, thread, beat, running_flag, channel, sent, published,
                 cancelled, configured>>

\* The current message is abandoned, the heartbeat told to end (hb_timer.cancel
\* makes its wait return at once), and the coroutine ends.
PublishFails ==
  /\ pub = "publish"
  /\ failures < MaxFailures
  /\ failures' = failures + 1
  /\ pub' = "done"
  /\ hand' = NoMessage
  /\ running_flag' = FALSE
  /\ beat' = IF beat = "waiting" THEN "check" ELSE beat
  /\ UNCHANGED <<running, server, thread, channel, sent, published, cancelled, configured>>

----------------------------------------------------------------------------
(* do_amqp_heartbeat, resumed only where do_amqp has yielded *)

BeatCheck ==
  /\ beat = "check"
  /\ pub \in {"waiting", "publish", "done"}
  /\ beat' = IF running_flag THEN "waiting" ELSE "done"
  /\ UNCHANGED <<running, server, thread, pub, running_flag, channel, hand, sent,
                 published, cancelled, failures, configured>>

BeatTimer ==
  /\ beat = "waiting"
  /\ beat' = "check"
  /\ UNCHANGED <<running, server, thread, pub, running_flag, channel, hand, sent,
                 published, cancelled, failures, configured>>

AmqpThread ==
  \/ ThreadLoop \/ NotConfigured \/ ConnectFails \/ Connect \/ RunReturns
  \/ Disconnect \/ WakeUp
  \/ PubCheck \/ PubReceive \/ PublishOk \/ PublishFails
  \/ BeatCheck \/ BeatTimer

\* The process has ended.
Terminated == server = "joined" /\ UNCHANGED publisherVars

PublisherNext == PublishToAmqp \/ StopFlag \/ StopCancel \/ Join \/ AmqpThread \/ Terminated

PublisherSpec == PublisherInit /\ [][PublisherNext]_publisherVars

\* The AMQP thread keeps running, and each of its coroutines is resumed.
Fairness ==
  /\ WF_publisherVars(ThreadLoop \/ NotConfigured \/ Connect \/ RunReturns \/ Disconnect \/ WakeUp)
  /\ WF_publisherVars(PubCheck \/ PubReceive \/ PublishOk)
  /\ WF_publisherVars(BeatCheck)
  /\ WF_publisherVars(BeatTimer)
  /\ WF_publisherVars(StopCancel \/ Join)

FairPublisherSpec == PublisherSpec /\ Fairness

----------------------------------------------------------------------------
(* Properties *)

\* The publisher implements the lossy queue: events reach the broker in the
\* order publish_to_amqp accepted them, each at most once, across reconnects;
\* only the one in do_amqp's hands can be lost.
Fifo == INSTANCE LossyFifo WITH
  Bound <- Capacity + 1,
  pending <- IF hand \in Messages THEN <<hand>> \o channel ELSE channel,
  delivered <- published

ImplementsLossyFifo == Fifo!Spec

\* The broker sees the empty message of a cancelled receive only after
\* stop_amqp was called, and at most once.
CancelledOnlyWhenStopped ==
  cancelled > 0 => ~running /\ cancelled = 1

\* An accepted event does not stay in the publisher: while the publisher runs
\* it leaves the channel and do_amqp's hands, to be published or abandoned.
Flushed ==
  \A m \in Messages :
    (\E k \in DOMAIN channel : channel[k] = m) \/ hand = m
      ~> \/ ~((\E k \in DOMAIN channel : channel[k] = m) \/ hand = m)
         \/ ~running
         \/ thread = "ended"

\* A stop that finds the publisher without a connection lets the server thread
\* end.  (One that finds it connected does not: the heartbeat goes on.)
StopJoinsWhenDisconnected ==
  server = "joining" /\ thread \in {"loop", "sleep"} ~> server = "joined"
=============================================================================
