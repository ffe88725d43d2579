--------------------------- MODULE Subscriptions ---------------------------
(***************************************************************************)
(* GraphQL subscriptions: the in-memory broker                             *)
(* (graphql/subscriptions/bus.go), the mutations that publish to it and    *)
(* the generated resolvers that forward a topic to a client                *)
(* (graphql/resolvers/entities_gen.go).                                    *)
(*                                                                         *)
(* A publisher is a request whose mutation has committed.  A subscription  *)
(* is four goroutines: the resolver that registers it, the broker's        *)
(* goroutine that waits for its context, the forwarder, and the transport  *)
(* that reads for the client; a bounded channel joins the broker to the    *)
(* forwarder and another one the forwarder to the transport.  The broker's *)
(* RWMutex is modelled as Go's: a writer that waits keeps new readers out. *)
(***************************************************************************)
EXTENDS Integers, FiniteSets, Sequences

CONSTANTS
    Publishers,     \* requests that publish
    Subscribers,    \* subscriptions, each made at most once
    Topics,         \* entity and trigger
    Buffer,         \* capacity of a broker channel (WithBuffer)
    Foreign,        \* messages whose payload is not the resolver's type
    None,           \* nobody, nothing
    MaxMessages     \* bound: messages published

Messages == 1..MaxMessages

ASSUME ActorsAssumption == None \notin Publishers \cup Subscribers
ASSUME NoneAssumption == None \notin Topics /\ None \notin Messages
ASSUME BufferAssumption == Buffer \in Nat \ {0}
ASSUME MessagesAssumption == MaxMessages \in Nat /\ Foreign \subseteq Messages

\* The goroutines that take the broker's lock to write.
Roles == {"resolver", "watcher", "forwarder"}
Writers == Roles \X Subscribers

VARIABLES
    \* The broker.
    subs,       \* subs[t]: the subscriptions registered for t
    buf,        \* buf[s]: what is in the channel of s
    closed,     \* closed[s]: the channel has been closed
    once,       \* once[s]: who runs the body of cancel's sync.Once, if any
    readers,    \* publishers that hold the RWMutex to read
    writer,     \* the goroutine that holds it, or waits for it, to write
    \* The publishers.
    ppc,        \* ppc[p]: where its Publish is
    msg,        \* msg[p]: the message, and todo[p]: whom to send it to
    todo,
    next,       \* the number of the next message
    author,     \* who published a message, and for which topic
    about,
    \* The subscriptions.
    topic,      \* topic[s], chosen when it is made
    gpc,        \* gpc[g]: where goroutine g, a role and a subscription, is
    done,       \* done[s]: its context is done
    held,       \* held[s]: the message its forwarder holds
    out,        \* out[s]: what is in the channel to the transport
    outClosed,  \* outClosed[s]: that one has been closed
    got         \* got[s]: what the transport has read

brokerVars == <<subs, buf, closed, once>>
lockVars == <<readers, writer>>
pubVars == <<ppc, msg, todo, next, author, about>>
outVars == <<held, out, outClosed, got>>
vars == <<brokerVars, lockVars, pubVars, topic, gpc, done, outVars>>

\* "stop" is the call of cancel, "lock" its wait for the lock, "close" its
\* critical section.
Places == {"none", "lock", "register", "wait", "select", "forward",
           "stop", "close", "closeout", "ended"}

TypeOK ==
    /\ subs \in [Topics -> SUBSET Subscribers]
    /\ buf \in [Subscribers -> Seq(Messages)]
    /\ \A s \in Subscribers : Len(buf[s]) <= Buffer
    /\ closed \in [Subscribers -> BOOLEAN]
    /\ once \in [Subscribers -> Roles \cup {None, "done"}]
    /\ readers \subseteq Publishers
    /\ writer \in Writers \cup {None}
    /\ ppc \in [Publishers -> {"idle", "rlock", "send"}]
    /\ msg \in [Publishers -> Messages \cup {None}]
    /\ todo \in [Publishers -> SUBSET Subscribers]
    /\ next \in 1..(MaxMessages + 1)
    /\ author \in [Messages -> Publishers \cup {None}]
    /\ about \in [Messages -> Topics \cup {None}]
    /\ topic \in [Subscribers -> Topics \cup {None}]
    /\ gpc \in [Writers -> Places]
    /\ done \in [Subscribers -> BOOLEAN]
    /\ held \in [Subscribers -> Messages \cup {None}]
    /\ out \in [Subscribers -> Seq(Messages)]
    /\ \A s \in Subscribers : Len(out[s]) <= 1
    /\ outClosed \in [Subscribers -> BOOLEAN]
    /\ got \in [Subscribers -> Seq(Messages)]

Init ==
    /\ subs = [t \in Topics |-> {}]
    /\ buf = [s \in Subscribers |-> <<>>]
    /\ closed = [s \in Subscribers |-> FALSE]
    /\ once = [s \in Subscribers |-> None]
    /\ readers = {}
    /\ writer = None
    /\ ppc = [p \in Publishers |-> "idle"]
    /\ msg = [p \in Publishers |-> None]
    /\ todo = [p \in Publishers |-> {}]
    /\ next = 1
    /\ author = [m \in Messages |-> None]
    /\ about = [m \in Messages |-> None]
    /\ topic = [s \in Subscribers |-> None]
    /\ gpc = [g \in Writers |-> "none"]
    /\ done = [s \in Subscribers |-> FALSE]
    /\ held = [s \in Subscribers |-> None]
    /\ out = [s \in Subscribers |-> <<>>]
    /\ outClosed = [s \in Subscribers |-> FALSE]
    /\ got = [s \in Subscribers |-> <<>>]

-----------------------------------------------------------------------------
(* Publish.  Definitions named *Faulty* are not the code: each is a        *)
(* plausible bug in the definition after it.                               *)

StartPublish(p, t) ==
    /\ ppc[p] = "idle"
    /\ next <= MaxMessages
    /\ next' = next + 1
    /\ author' = [author EXCEPT ![next] = p]
    /\ about' = [about EXCEPT ![next] = t]
    /\ msg' = [msg EXCEPT ![p] = next]
    /\ ppc' = [ppc EXCEPT ![p] = "rlock"]
    /\ UNCHANGED <<brokerVars, lockVars, todo, topic, gpc, done, outVars>>

\* RLock, and the topic's subscribers: the map cannot change until RUnlock.
ReadLock(p) ==
    /\ ppc[p] = "rlock"
    /\ writer = None
    /\ readers' = readers \cup {p}
    /\ todo' = [todo EXCEPT ![p] = subs[about[msg[p]]]]
    /\ ppc' = [ppc EXCEPT ![p] = "send"]
    /\ UNCHANGED <<brokerVars, writer, msg, next, author, about, topic, gpc,
                   done, outVars>>

SendTwiceFaulty(p, s) ==
    /\ ppc[p] = "send"
    /\ s \in todo[p]
    /\ buf' = IF Len(buf[s]) < Buffer
              THEN [buf EXCEPT ![s] = Append(@, msg[p])] ELSE buf
    /\ \/ UNCHANGED todo
       \/ todo' = [todo EXCEPT ![p] = @ \ {s}]
    /\ UNCHANGED <<subs, closed, once, lockVars, ppc, msg, next, author, about,
                   topic, gpc, done, outVars>>
SendWaitsFaulty(p, s) ==
    /\ ppc[p] = "send"
    /\ s \in todo[p]
    /\ Len(buf[s]) < Buffer
    /\ buf' = [buf EXCEPT ![s] = Append(@, msg[p])]
    /\ todo' = [todo EXCEPT ![p] = @ \ {s}]
    /\ UNCHANGED <<subs, closed, once, lockVars, ppc, msg, next, author, about,
                   topic, gpc, done, outVars>>
\* The select with a default: a full channel loses the message.
Send(p, s) ==
    /\ ppc[p] = "send"
    /\ s \in todo[p]
    /\ buf' = IF Len(buf[s]) < Buffer
              THEN [buf EXCEPT ![s] = Append(@, msg[p])] ELSE buf
    /\ todo' = [todo EXCEPT ![p] = @ \ {s}]
    /\ UNCHANGED <<subs, closed, once, lockVars, ppc, msg, next, author, about,
                   topic, gpc, done, outVars>>

Unlock(p) ==
    /\ readers' = readers \ {p}
    /\ todo' = [todo EXCEPT ![p] = {}]
    /\ msg' = [msg EXCEPT ![p] = None]
    /\ ppc' = [ppc EXCEPT ![p] = "idle"]
    /\ UNCHANGED <<brokerVars, writer, next, author, about, topic, gpc, done, outVars>>

\* RUnlock after the last subscriber ...
EndPublish(p) ==
    /\ ppc[p] = "send"
    /\ todo[p] = {}
    /\ Unlock(p)

\* ... or before it, when the request's context is done.
AbandonPublish(p) ==
    /\ ppc[p] = "send"
    /\ todo[p] # {}
    /\ Unlock(p)

-----------------------------------------------------------------------------
(* Subscribe. *)

\* The resolver calls Subscribe, which makes the channel.
StartSubscribe(s, t) ==
    /\ gpc[<<"resolver", s>>] = "none"
    /\ topic' = [topic EXCEPT ![s] = t]
    /\ gpc' = [gpc EXCEPT ![<<"resolver", s>>] = "lock"]
    /\ UNCHANGED <<brokerVars, lockVars, pubVars, done, outVars>>

\* mu.Lock, part one: no other writer, and from now on no new reader.
RequestLock(g) ==
    /\ gpc[g] = "lock"
    /\ writer = None
    /\ writer' = g
    /\ gpc' = [gpc EXCEPT ![g] = IF g[1] = "resolver" THEN "register" ELSE "close"]
    /\ UNCHANGED <<brokerVars, readers, pubVars, topic, done, outVars>>

\* Part two, with the readers gone: the channel is registered, the lock freed,
\* and the watcher and the forwarder start.
Register(s) ==
    /\ gpc[<<"resolver", s>>] = "register"
    /\ readers = {}
    /\ subs' = [subs EXCEPT ![topic[s]] = @ \cup {s}]
    /\ writer' = None
    /\ gpc' = [gpc EXCEPT ![<<"resolver", s>>] = "ended",
                          ![<<"watcher", s>>] = "wait",
                          ![<<"forwarder", s>>] = "select"]
    /\ UNCHANGED <<buf, closed, once, readers, pubVars, topic, done, outVars>>

\* The client goes away, or the server shuts down.
CancelContext(s) ==
    /\ gpc[<<"resolver", s>>] # "none"
    /\ ~done[s]
    /\ done' = [done EXCEPT ![s] = TRUE]
    /\ UNCHANGED <<brokerVars, lockVars, pubVars, topic, gpc, outVars>>

\* <-ctx.Done() in the broker's goroutine.
Wake(s) ==
    /\ gpc[<<"watcher", s>>] = "wait"
    /\ done[s]
    /\ gpc' = [gpc EXCEPT ![<<"watcher", s>>] = "stop"]
    /\ UNCHANGED <<brokerVars, lockVars, pubVars, topic, done, outVars>>

-----------------------------------------------------------------------------
(* cancel, called by the watcher and by the forwarder. *)

\* After cancel the watcher ends and the forwarder closes its own channel.
AfterCancel(g) == IF g[1] = "watcher" THEN "ended" ELSE "closeout"

\* once.Do: the first caller runs the body, the other waits for its end.
EnterOnce(g) ==
    /\ gpc[g] = "stop"
    /\ \/ /\ once[g[2]] = None
          /\ once' = [once EXCEPT ![g[2]] = g[1]]
          /\ gpc' = [gpc EXCEPT ![g] = "lock"]
       \/ /\ once[g[2]] = "done"
          /\ gpc' = [gpc EXCEPT ![g] = AfterCancel(g)]
          /\ UNCHANGED once
    /\ UNCHANGED <<subs, buf, closed, lockVars, pubVars, topic, done, outVars>>

CloseFaulty(g) ==
    /\ gpc[g] = "close"
    /\ subs' = [t \in Topics |-> subs[t] \ {g[2]}]
    /\ closed' = [closed EXCEPT ![g[2]] = TRUE]
    /\ once' = [once EXCEPT ![g[2]] = "done"]
    /\ writer' = None
    /\ gpc' = [gpc EXCEPT ![g] = AfterCancel(g)]
    /\ UNCHANGED <<buf, readers, pubVars, topic, done, outVars>>
\* The body, under the lock: the channel leaves the map and is closed.
Close(g) ==
    /\ gpc[g] = "close"
    /\ readers = {}
    /\ subs' = [subs EXCEPT ![topic[g[2]]] = @ \ {g[2]}]
    /\ closed' = [closed EXCEPT ![g[2]] = TRUE]
    /\ once' = [once EXCEPT ![g[2]] = "done"]
    /\ writer' = None
    /\ gpc' = [gpc EXCEPT ![g] = AfterCancel(g)]
    /\ UNCHANGED <<buf, readers, pubVars, topic, done, outVars>>

-----------------------------------------------------------------------------
(* The forwarder and the transport. *)

ReceiveFaulty(s) ==
    /\ gpc[<<"forwarder", s>>] = "select"
    /\ buf[s] # <<>>
    /\ buf' = [buf EXCEPT ![s] = Tail(@)]
    /\ held' = [held EXCEPT ![s] = IF Head(buf[s]) \in Foreign THEN None ELSE Head(buf[s])]
    /\ gpc' = [gpc EXCEPT ![<<"forwarder", s>>] =
                  IF Head(buf[s]) \in Foreign THEN "stop" ELSE "forward"]
    /\ UNCHANGED <<subs, closed, once, lockVars, pubVars, topic, done, out, outClosed, got>>
\* A message from the broker; a payload of another type is passed over.
Receive(s) ==
    /\ gpc[<<"forwarder", s>>] = "select"
    /\ buf[s] # <<>>
    /\ buf' = [buf EXCEPT ![s] = Tail(@)]
    /\ \/ /\ Head(buf[s]) \in Foreign
          /\ UNCHANGED <<held, gpc>>
       \/ /\ Head(buf[s]) \notin Foreign
          /\ held' = [held EXCEPT ![s] = Head(buf[s])]
          /\ gpc' = [gpc EXCEPT ![<<"forwarder", s>>] = "forward"]
    /\ UNCHANGED <<subs, closed, once, lockVars, pubVars, topic, done, out, outClosed, got>>

ForwardFaulty(s) ==
    /\ gpc[<<"forwarder", s>>] = "forward"
    /\ out' = [out EXCEPT ![s] = Append(@, held[s])]
    /\ held' = [held EXCEPT ![s] = None]
    /\ gpc' = [gpc EXCEPT ![<<"forwarder", s>>] = "select"]
    /\ UNCHANGED <<brokerVars, lockVars, pubVars, topic, done, outClosed, got>>
\* out <- record, when the transport has room.
Forward(s) ==
    /\ gpc[<<"forwarder", s>>] = "forward"
    /\ out[s] = <<>>
    /\ out' = [out EXCEPT ![s] = Append(@, held[s])]
    /\ held' = [held EXCEPT ![s] = None]
    /\ gpc' = [gpc EXCEPT ![<<"forwarder", s>>] = "select"]
    /\ UNCHANGED <<brokerVars, lockVars, pubVars, topic, done, outClosed, got>>

LeaveFaulty(s) ==
    /\ gpc[<<"forwarder", s>>] = "select"
    /\ done[s] \/ (closed[s] /\ buf[s] = <<>>)
    /\ gpc' = [gpc EXCEPT ![<<"forwarder", s>>] = "stop"]
    /\ held' = [held EXCEPT ![s] = None]
    /\ UNCHANGED <<brokerVars, lockVars, pubVars, topic, done, out, outClosed, got>>
\* The forwarder returns: its context is done, in either select, or the
\* broker's channel is closed and empty.  Its deferred calls run: stop first.
Leave(s) ==
    /\ \/ gpc[<<"forwarder", s>>] \in {"select", "forward"} /\ done[s]
       \/ gpc[<<"forwarder", s>>] = "select" /\ closed[s] /\ buf[s] = <<>>
    /\ gpc' = [gpc EXCEPT ![<<"forwarder", s>>] = "stop"]
    /\ held' = [held EXCEPT ![s] = None]
    /\ UNCHANGED <<brokerVars, lockVars, pubVars, topic, done, out, outClosed, got>>

\* ... then close(out).
CloseOut(s) ==
    /\ gpc[<<"forwarder", s>>] = "closeout"
    /\ outClosed' = [outClosed EXCEPT ![s] = TRUE]
    /\ gpc' = [gpc EXCEPT ![<<"forwarder", s>>] = "ended"]
    /\ UNCHANGED <<brokerVars, lockVars, pubVars, topic, done, held, out, got>>

\* The transport reads for the client; it stops with the context.
Read(s) ==
    /\ ~done[s]
    /\ out[s] # <<>>
    /\ got' = [got EXCEPT ![s] = Append(@, Head(out[s]))]
    /\ out' = [out EXCEPT ![s] = Tail(@)]
    /\ UNCHANGED <<brokerVars, lockVars, pubVars, topic, gpc, done, held, outClosed>>

-----------------------------------------------------------------------------

PublisherStep(p) ==
    \/ ReadLock(p)
    \/ \E s \in Subscribers : Send(p, s)
    \/ EndPublish(p)

GoroutineStep(g) == RequestLock(g) \/ EnterOnce(g) \/ Close(g)

ForwarderStep(s) == Receive(s) \/ Forward(s) \/ Leave(s) \/ CloseOut(s)

\* Nobody publishes any more and every client has left.
Quiet ==
    /\ next > MaxMessages
    /\ \A p \in Publishers : ppc[p] = "idle"
    /\ \A s \in Subscribers : done[s]
    /\ UNCHANGED vars

Next ==
    \/ \E p \in Publishers : \/ \E t \in Topics : StartPublish(p, t)
                             \/ PublisherStep(p)
                             \/ AbandonPublish(p)
    \/ \E s \in Subscribers : \/ \E t \in Topics : StartSubscribe(s, t)
                              \/ Register(s) \/ CancelContext(s) \/ Wake(s)
                              \/ ForwarderStep(s) \/ Read(s)
    \/ \E g \in Writers : GoroutineStep(g)
    \/ Quiet

Spec == Init /\ [][Next]_vars

\* Every goroutine that can go on does, and goroutines that wait for a mutex
\* get it in turn.  A transport reads on as long as its context lives.  Nobody
\* has to publish, to subscribe or to leave.
Fairness ==
    /\ \A p \in Publishers : WF_vars(PublisherStep(p)) /\ SF_vars(ReadLock(p))
    /\ \A g \in Writers : WF_vars(GoroutineStep(g)) /\ SF_vars(RequestLock(g))
    /\ \A s \in Subscribers : /\ WF_vars(Register(s)) /\ WF_vars(Wake(s))
                              /\ WF_vars(ForwarderStep(s)) /\ WF_vars(Read(s))

FairSpec == Spec /\ Fairness

-----------------------------------------------------------------------------
(* Properties. *)

\* A publisher never sends on a closed channel, which would panic in the
\* request that published: while it goes through the subscribers it read,
\* none of them can leave.
NoSendOnClosed ==
    \A p \in Publishers : \A s \in todo[p] : ~closed[s] /\ s \in subs[about[msg[p]]]

\* What a client has received and what is on its way to it, in this order.
Stream(s) ==
    got[s] \o out[s] \o (IF held[s] = None THEN <<>> ELSE <<held[s]>>) \o buf[s]

\* A client gets a message at most once, only of its topic, and the messages
\* of one publisher in the order they were published, however slow it is.
InOrderOnce ==
    \A s \in Subscribers :
        /\ \A i \in DOMAIN Stream(s) : about[Stream(s)[i]] = topic[s]
        /\ \A i, j \in DOMAIN Stream(s) : i < j =>
              /\ Stream(s)[i] # Stream(s)[j]
              /\ author[Stream(s)[i]] = author[Stream(s)[j]] => Stream(s)[i] < Stream(s)[j]

\* A mutation is never held up by subscribers: Publish returns even when no
\* client reads and while others come and go.
PublishReturns == \A p \in Publishers : ppc[p] # "idle" ~> ppc[p] = "idle"

\* A message the broker accepted for a client reaches it, unless the client
\* leaves.
AcceptedIsDelivered ==
    \A s \in Subscribers : \A m \in Messages \ Foreign :
        (\E i \in DOMAIN buf[s] : buf[s][i] = m) ~>
            done[s] \/ \E i \in DOMAIN got[s] : got[s][i] = m

\* When a client leaves, everything of it goes: the registration, both
\* channels and both goroutines, though nobody reads its channel any more.
LeavesNothing ==
    \A s \in Subscribers :
        done[s] ~> /\ \A t \in Topics : s \notin subs[t]
                   /\ closed[s] /\ outClosed[s]
                   /\ \A r \in Roles : gpc[<<r, s>>] = "ended"

=============================================================================
