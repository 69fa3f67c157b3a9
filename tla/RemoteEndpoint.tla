---------------------------- MODULE RemoteEndpoint ----------------------------
(* RemoteEndpoint of event-manager/src/endpoint.rs: threads that send closures*)
(* to the event loop over an mpsc channel and announce them on an eventfd,    *)
(* and the loop's side of it, dispatch_events and handle_endpoint_calls of    *)
(* manager.rs.  EventManager models what a closure may do there.              *)
(*                                                                            *)
(* The n-th request of a thread is a blocking call (call_blocking) or not     *)
(* (fire).  A send is two steps, the message and then the eventfd, and other  *)
(* threads and the loop run between them.                                     *)
EXTENDS Integers, Sequences

CONSTANTS
  Threads,      \* threads that hold a RemoteEndpoint
  MaxRequests,  \* requests one thread makes
  EfdMax        \* largest value of the eventfd counter: 2^64 - 2

ASSUME RequestAssumption ==
  /\ MaxRequests \in Nat
  /\ EfdMax \in Nat \ {0}

VARIABLES
  channel,      \* messages sent and not received
  efd,          \* the counter of the eventfd
  alive,        \* the manager has not been dropped
  lpc,          \* the loop: "poll", "dispatch", "read" or "drain"
  tpc,          \* a thread: "idle", "write", "kick" or "recv"
  n,            \* requests the thread has made
  reply,        \* the channel a blocking caller waits on
  executed      \* messages whose closure has run

endpointVars == <<channel, efd, alive, lpc, tpc, n, reply, executed>>

Message == [thread : Threads, n : 1..MaxRequests, blocking : BOOLEAN]

EndpointInit ==
  /\ channel = << >> /\ efd = 0 /\ alive = TRUE
  /\ lpc = "poll"
  /\ tpc = [t \in Threads |-> "idle"]
  /\ n = [t \in Threads |-> 0]
  /\ reply = [t \in Threads |-> "none"]
  /\ executed = {}

--------------------------------------------------------------------------------
(* The threads. *)

(* call_blocking and fire up to msg_sender.send; ChannelSend if the manager   *)
(* is gone.                                                                   *)
Send(t, blocking) ==
  /\ tpc[t] = "idle"
  /\ n[t] < MaxRequests
  /\ n' = [n EXCEPT ![t] = @ + 1]
  /\ reply' = [reply EXCEPT ![t] = "none"]
  /\ IF alive
     THEN /\ channel' = Append(channel, [thread |-> t, n |-> n[t] + 1,
                                         blocking |-> blocking])
          /\ tpc' = [tpc EXCEPT ![t] = IF blocking THEN "write" ELSE "kick"]
     ELSE UNCHANGED <<channel, tpc>>
  /\ UNCHANGED <<efd, alive, lpc, executed>>

(* event_fd.write(1), after which a blocking caller waits.  A full counter    *)
(* (EAGAIN) makes send fail with the message already on its way.              *)
Write(t) ==
  /\ tpc[t] \in {"write", "kick"}
  /\ efd' = IF efd < EfdMax THEN efd + 1 ELSE efd
  /\ tpc' = [tpc EXCEPT ![t] =
               IF tpc[t] = "write" /\ efd < EfdMax THEN "recv" ELSE "idle"]
  /\ UNCHANGED <<channel, alive, lpc, n, reply, executed>>

(* RemoteEndpoint::kick. *)
Kick(t) ==
  /\ tpc[t] = "idle"
  /\ tpc' = [tpc EXCEPT ![t] = "kick"]
  /\ UNCHANGED <<channel, efd, alive, lpc, n, reply, executed>>

(* receiver.recv() returns the result, or ChannelRecv: its sender is gone. *)
Receive(t) ==
  /\ tpc[t] = "recv"
  /\ reply[t] # "none"
  /\ tpc' = [tpc EXCEPT ![t] = "idle"]
  /\ UNCHANGED <<channel, efd, alive, lpc, n, reply, executed>>

--------------------------------------------------------------------------------
(* The loop. *)

(* epoll_wait reports the channel's fd; subscriber events come first. *)
PollChannel ==
  /\ alive /\ lpc = "poll"
  /\ efd > 0
  /\ lpc' = "dispatch"
  /\ UNCHANGED <<channel, efd, alive, tpc, n, reply, executed>>

(* dispatch_endpoint_event, when all subscribers have been served. *)
ServeChannel ==
  /\ lpc = "dispatch"
  /\ lpc' = "read"
  /\ UNCHANGED <<channel, efd, alive, tpc, n, reply, executed>>

(* handle_endpoint_calls: event_fd.read() clears the counter ... *)
ReadEventFd ==
  /\ lpc = "read"
  /\ efd' = 0
  /\ lpc' = "drain"
  /\ UNCHANGED <<channel, alive, tpc, n, reply, executed>>

(* Mutant: one reply channel for all calls of a thread. *)
Answer_Shared(m, what) ==
  reply' = [t \in Threads |->
              IF \E x \in m : x.blocking /\ x.thread = t THEN what ELSE reply[t]]

(* The reply channel belongs to one call: a caller whose send failed and who  *)
(* went on does not read it any more.                                         *)
Answer(m, what) ==
  reply' = [t \in Threads |->
              IF \E x \in m : x.blocking /\ x.thread = t /\ x.n = n[t]
              THEN what ELSE reply[t]]

(* Mutant: one message for one event. *)
TryRecv_One ==
  /\ lpc = "drain"
  /\ channel # << >>
  /\ channel' = Tail(channel)
  /\ executed' = executed \union {Head(channel)}
  /\ Answer({Head(channel)}, "result")
  /\ lpc' = "poll"
  /\ UNCHANGED <<efd, alive, tpc, n>>

(* Mutant: the result of a closure is not sent back. *)
TryRecv_NoReply ==
  /\ lpc = "drain"
  /\ channel # << >>
  /\ channel' = Tail(channel)
  /\ executed' = executed \union {Head(channel)}
  /\ UNCHANGED <<efd, alive, lpc, tpc, n, reply>>

(* ... then every message is received, its closure run, its result sent ... *)
TryRecv ==
  /\ lpc = "drain"
  /\ channel # << >>
  /\ channel' = Tail(channel)
  /\ executed' = executed \union {Head(channel)}
  /\ Answer({Head(channel)}, "result")
  /\ UNCHANGED <<efd, alive, lpc, tpc, n>>

(* Mutant: the eventfd is read after the loop, when messages may have come    *)
(* since the channel was found empty.                                         *)
ChannelEmpty_ReadsLate ==
  /\ lpc = "drain"
  /\ efd' = 0
  /\ lpc' = "poll"
  /\ UNCHANGED <<channel, alive, tpc, n, reply, executed>>

(* ... until try_recv finds the channel empty. *)
ChannelEmpty ==
  /\ lpc = "drain"
  /\ channel = << >>
  /\ lpc' = "poll"
  /\ UNCHANGED <<channel, efd, alive, tpc, n, reply, executed>>

(* The manager is dropped between two runs, and with its receiver every       *)
(* message that waits, and the sender of the reply in it.                     *)
Drop ==
  /\ alive /\ lpc = "poll"
  /\ alive' = FALSE
  /\ channel' = << >>
  /\ Answer({channel[i] : i \in DOMAIN channel}, "dropped")
  /\ UNCHANGED <<efd, lpc, tpc, n, executed>>

Loop == PollChannel \/ ServeChannel \/ ReadEventFd \/ TryRecv \/ ChannelEmpty

EndpointNext ==
  \/ \E t \in Threads :
       (\E b \in BOOLEAN : Send(t, b)) \/ Write(t) \/ Kick(t) \/ Receive(t)
  \/ Loop
  \/ Drop

EndpointSpec == EndpointInit /\ [][EndpointNext]_endpointVars

(* The owner calls run again and again, epoll reports a ready fd, and a       *)
(* thread that is not blocked goes on.  Nothing forces a request or a drop.   *)
Fairness ==
  /\ WF_endpointVars(Loop)
  /\ \A t \in Threads : WF_endpointVars(Write(t)) /\ WF_endpointVars(Receive(t))

FairEndpointSpec == EndpointSpec /\ Fairness

--------------------------------------------------------------------------------
(* Counters and channels hold values of their types, and the eventfd stays    *)
(* within its counter.                                                        *)
EndpointTypeOK ==
  /\ channel \in Seq(Message)
  /\ efd \in 0..EfdMax
  /\ alive \in BOOLEAN
  /\ lpc \in {"poll", "dispatch", "read", "drain"}
  /\ tpc \in [Threads -> {"idle", "write", "kick", "recv"}]
  /\ n \in [Threads -> 0..MaxRequests]
  /\ reply \in [Threads -> {"none", "result", "dropped"}]
  /\ executed \in SUBSET Message

(* A loop that waits in epoll while a message waits in the channel is about   *)
(* to be woken: the eventfd is readable, or its sender has yet to write it.   *)
(* Reading the eventfd before draining the channel, and sending before        *)
(* writing, never lose a request.                                             *)
NoLostRequest ==
  lpc = "poll" /\ channel # << >> =>
    efd > 0 \/ \E t \in Threads : tpc[t] \in {"write", "kick"}

(* The result a blocked caller reads is that of the closure it sent with this *)
(* call, not the late answer to an earlier call whose send failed.            *)
AnswerIsOwn ==
  \A t \in Threads : tpc[t] = "recv" /\ reply[t] = "result" =>
    [thread |-> t, n |-> n[t], blocking |-> TRUE] \in executed

(* A blocked caller returns: with its result, or with ChannelRecv when the    *)
(* manager is dropped.                                                        *)
CallReturns == \A t \in Threads : tpc[t] = "recv" ~> tpc[t] # "recv"

(* Every request that reached the channel is run, unless the manager goes     *)
(* away, also when its send reported an error of the eventfd.                 *)
EveryRequestRuns ==
  \A m \in Message :
    (\E i \in DOMAIN channel : channel[i] = m) ~> (m \in executed \/ ~alive)
================================================================================
