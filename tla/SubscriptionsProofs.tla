------------------------ MODULE SubscriptionsProofs ------------------------
(***************************************************************************)
(* Proofs about Subscriptions, for any publishers, subscriptions, topics   *)
(* and buffer size: the type invariant, that a publisher never sends on a  *)
(* channel that has been closed, and that a client gets the messages of    *)
(* its topic once and those of a publisher in order.                       *)
(*                                                                         *)
(* No send on a closed channel: the broker's lock.  A publisher that has   *)
(* read its topic's subscribers is a reader (ReadersSend); subs changes    *)
(* only when there are no readers, so what it read stays registered        *)
(* (TodoRegistered) and what is registered is open (RegisteredOpen).       *)
(*                                                                         *)
(* The order: on the way from a publisher to a client a message is in one  *)
(* place at a time, and what is in a place comes before what is in the     *)
(* places behind it (OrderInv); a step moves the first of one place to the *)
(* end of the next.                                                        *)
(***************************************************************************)
EXTENDS Subscriptions, SequenceTheorems, TLAPS

\* A Publish that has begun has a message, published before the next one, and
\* a topic; only one that sends has anybody left to send to.
PublishersKnow ==
    \A p \in Publishers :
        /\ ppc[p] # "idle" => /\ msg[p] \in Messages
                              /\ msg[p] < next
                              /\ about[msg[p]] \in Topics
        /\ ppc[p] # "send" => todo[p] = {}

\* A publisher holds the lock to read exactly while it sends.
ReadersSend == \A p \in Publishers : ppc[p] = "send" <=> p \in readers

\* Whom it still has to send to is registered.
TodoRegistered ==
    \A p \in Publishers : ppc[p] = "send" => todo[p] \subseteq subs[about[msg[p]]]

\* What is registered is registered for its topic only, and open.
RegisteredOpen ==
    \A t \in Topics : \A s \in subs[t] : topic[s] = t /\ ~closed[s]

\* Until its resolver has registered it, a subscription has no other goroutine,
\* its channel is open and no publisher can know of it.
ResolverFirst ==
    \A s \in Subscribers :
        /\ gpc[<<"resolver", s>>] \in {"none", "lock", "register", "ended"}
        /\ gpc[<<"resolver", s>>] # "none" => topic[s] \in Topics
        /\ gpc[<<"resolver", s>>] # "ended" =>
              /\ gpc[<<"watcher", s>>] = "none"
              /\ gpc[<<"forwarder", s>>] = "none"
              /\ ~closed[s]
              /\ \A t \in Topics : s \notin subs[t]

\* The forwarder holds a message when it is about to pass one on.
ForwarderHolds ==
    \A s \in Subscribers : gpc[<<"forwarder", s>>] = "forward" => held[s] \in Messages

\* The inductive invariant.
IInv ==
    /\ TypeOK
    /\ PublishersKnow
    /\ ReadersSend
    /\ TodoRegistered
    /\ RegisteredOpen
    /\ ResolverFirst
    /\ ForwarderHolds

-----------------------------------------------------------------------------

\* The initial state satisfies the invariant.
LEMMA InitInvariant == Init => IInv
<1> SUFFICES ASSUME Init PROVE IInv
  OBVIOUS
<1>1. TypeOK
  BY BufferAssumption, MessagesAssumption
  DEF Init, TypeOK, Messages, Writers, Roles, Places
<1>2. PublishersKnow /\ ReadersSend /\ TodoRegistered /\ RegisteredOpen
  BY DEF Init, PublishersKnow, ReadersSend, TodoRegistered, RegisteredOpen
<1>3. ResolverFirst /\ ForwarderHolds
  BY DEF Init, ResolverFirst, ForwarderHolds, Writers, Roles
<1> QED
  BY <1>1, <1>2, <1>3 DEF IInv

\* A publisher takes the next message.
LEMMA StartPublishStep ==
    ASSUME IInv, NEW p \in Publishers, NEW t \in Topics, StartPublish(p, t) PROVE IInv'
<1>1. TypeOK'
  BY MessagesAssumption
  DEF IInv, TypeOK, StartPublish, brokerVars, lockVars, outVars, Messages
<1>2. PublishersKnow'
  BY DEF IInv, TypeOK, PublishersKnow, StartPublish, Messages
<1>3. ReadersSend'
  BY DEF IInv, ReadersSend, StartPublish, lockVars
<1>4. TodoRegistered'
  BY DEF IInv, TypeOK, TodoRegistered, PublishersKnow, StartPublish,
         brokerVars
<1>5. RegisteredOpen'
  BY DEF IInv, RegisteredOpen, StartPublish, brokerVars
<1>6. ResolverFirst'
  BY DEF IInv, ResolverFirst, StartPublish, brokerVars
<1>7. ForwarderHolds'
  BY DEF IInv, ForwarderHolds, StartPublish, outVars
<1> QED
  BY <1>1, <1>2, <1>3, <1>4, <1>5, <1>6, <1>7 DEF IInv

\* A publisher reads who is registered.
LEMMA ReadLockStep ==
    ASSUME IInv, NEW p \in Publishers, ReadLock(p) PROVE IInv'
<1>1. TypeOK'
  BY DEF IInv, TypeOK, PublishersKnow, ReadLock, brokerVars, outVars
<1>2. PublishersKnow'
  BY DEF IInv, TypeOK, PublishersKnow, ReadLock
<1>3. ReadersSend'
  BY DEF IInv, TypeOK, ReadersSend, ReadLock
<1>4. TodoRegistered'
  BY DEF IInv, TodoRegistered, PublishersKnow, ReadLock, brokerVars
<1>5. RegisteredOpen'
  BY DEF IInv, RegisteredOpen, ReadLock, brokerVars
<1>6. ResolverFirst'
  BY DEF IInv, ResolverFirst, ReadLock, brokerVars
<1>7. ForwarderHolds'
  BY DEF IInv, ForwarderHolds, ReadLock, outVars
<1> QED
  BY <1>1, <1>2, <1>3, <1>4, <1>5, <1>6, <1>7 DEF IInv

\* A publisher sends to one subscription, or loses the message.
LEMMA SendStep ==
    ASSUME IInv, NEW p \in Publishers, NEW s \in Subscribers, Send(p, s) PROVE IInv'
<1>a. /\ Append(buf[s], msg[p]) \in Seq(Messages)
      /\ Len(Append(buf[s], msg[p])) = Len(buf[s]) + 1
  BY DEF IInv, TypeOK, PublishersKnow, Send
<1>b. buf' \in [Subscribers -> Seq(Messages)] /\ \A z \in Subscribers : Len(buf'[z]) <= Buffer
  <2>1. CASE Len(buf[s]) < Buffer
    BY <1>a, <2>1, BufferAssumption DEF IInv, TypeOK, Send
  <2>2. CASE ~(Len(buf[s]) < Buffer)
    BY <2>2 DEF IInv, TypeOK, Send
  <2> QED
    BY <2>1, <2>2
<1>1. TypeOK'
  BY <1>b DEF IInv, TypeOK, Send, lockVars, outVars
<1>2. PublishersKnow'
  BY DEF IInv, PublishersKnow, Send
<1>3. ReadersSend'
  BY DEF IInv, ReadersSend, Send, lockVars
<1>4. TodoRegistered'
  BY DEF IInv, TodoRegistered, Send
<1>5. RegisteredOpen'
  BY DEF IInv, RegisteredOpen, Send
<1>6. ResolverFirst'
  BY DEF IInv, ResolverFirst, Send
<1>7. ForwarderHolds'
  BY DEF IInv, ForwarderHolds, Send, outVars
<1> QED
  BY <1>1, <1>2, <1>3, <1>4, <1>5, <1>6, <1>7 DEF IInv

\* A publisher frees the lock.
LEMMA UnlockStep ==
    ASSUME IInv, NEW p \in Publishers, ppc[p] = "send", Unlock(p) PROVE IInv'
<1>1. TypeOK'
  BY DEF IInv, TypeOK, Unlock, brokerVars, outVars
<1>2. PublishersKnow'
  BY DEF IInv, TypeOK, PublishersKnow, Unlock
<1>3. ReadersSend'
  BY DEF IInv, TypeOK, ReadersSend, Unlock
<1>4. TodoRegistered'
  BY DEF IInv, TypeOK, TodoRegistered, Unlock, brokerVars
<1>5. RegisteredOpen'
  BY DEF IInv, RegisteredOpen, Unlock, brokerVars
<1>6. ResolverFirst'
  BY DEF IInv, ResolverFirst, Unlock, brokerVars
<1>7. ForwarderHolds'
  BY DEF IInv, ForwarderHolds, Unlock, outVars
<1> QED
  BY <1>1, <1>2, <1>3, <1>4, <1>5, <1>6, <1>7 DEF IInv

\* A resolver makes a channel.
LEMMA StartSubscribeStep ==
    ASSUME IInv, NEW s \in Subscribers, NEW t \in Topics, StartSubscribe(s, t) PROVE IInv'
<1>1. TypeOK'
  BY DEF IInv, TypeOK, StartSubscribe, brokerVars, lockVars, pubVars,
         outVars, Places
<1>2. PublishersKnow'
  BY DEF IInv, PublishersKnow, StartSubscribe, pubVars
<1>3. ReadersSend'
  BY DEF IInv, ReadersSend, StartSubscribe, lockVars, pubVars
<1>4. TodoRegistered'
  BY DEF IInv, TodoRegistered, StartSubscribe, brokerVars, pubVars
<1>5. RegisteredOpen'
  BY DEF IInv, TypeOK, RegisteredOpen, ResolverFirst, StartSubscribe,
         brokerVars
<1>6. ResolverFirst'
  BY DEF IInv, TypeOK, ResolverFirst, StartSubscribe, brokerVars, Writers,
         Roles
<1>7. ForwarderHolds'
  BY DEF IInv, ForwarderHolds, StartSubscribe, outVars
<1> QED
  BY <1>1, <1>2, <1>3, <1>4, <1>5, <1>6, <1>7 DEF IInv

\* A goroutine asks for the lock to write.
LEMMA RequestLockStep ==
    ASSUME IInv, NEW g \in Writers, RequestLock(g) PROVE IInv'
<1>1. TypeOK'
  BY DEF IInv, TypeOK, RequestLock, brokerVars, pubVars, outVars, Places
<1>2. PublishersKnow'
  BY DEF IInv, PublishersKnow, RequestLock, pubVars
<1>3. ReadersSend'
  BY DEF IInv, ReadersSend, RequestLock, pubVars
<1>4. TodoRegistered'
  BY DEF IInv, TodoRegistered, RequestLock, brokerVars, pubVars
<1>5. RegisteredOpen'
  BY DEF IInv, RegisteredOpen, RequestLock, brokerVars
<1>6. ResolverFirst'
  BY DEF IInv, TypeOK, ResolverFirst, RequestLock, brokerVars, Writers, Roles
<1>7. ForwarderHolds'
  BY DEF IInv, ForwarderHolds, RequestLock, outVars
<1> QED
  BY <1>1, <1>2, <1>3, <1>4, <1>5, <1>6, <1>7 DEF IInv

\* A resolver registers its open channel, with no reader there.
LEMMA RegisterStep ==
    ASSUME IInv, NEW s \in Subscribers, Register(s) PROVE IInv'
<1>1. TypeOK'
  BY DEF IInv, TypeOK, Register, pubVars, outVars, Places
<1>2. PublishersKnow'
  BY DEF IInv, PublishersKnow, Register, pubVars
<1>3. ReadersSend'
  BY DEF IInv, ReadersSend, Register, pubVars
<1>4. TodoRegistered'
  BY DEF IInv, TodoRegistered, Register, pubVars
<1>5. RegisteredOpen'
  BY DEF IInv, RegisteredOpen, ResolverFirst, Register
<1>6. ResolverFirst'
  BY DEF IInv, TypeOK, ResolverFirst, Register, Writers, Roles
<1>7. ForwarderHolds'
  BY DEF IInv, TypeOK, ForwarderHolds, Register, outVars, Writers, Roles
<1> QED
  BY <1>1, <1>2, <1>3, <1>4, <1>5, <1>6, <1>7 DEF IInv

\* A context is done.
LEMMA CancelContextStep ==
    ASSUME IInv, NEW s \in Subscribers, CancelContext(s) PROVE IInv'
<1>1. TypeOK'
  BY DEF IInv, TypeOK, CancelContext, brokerVars, lockVars, pubVars, outVars
<1>2. PublishersKnow'
  BY DEF IInv, PublishersKnow, CancelContext, pubVars
<1>3. ReadersSend'
  BY DEF IInv, ReadersSend, CancelContext, lockVars, pubVars
<1>4. TodoRegistered'
  BY DEF IInv, TodoRegistered, CancelContext, brokerVars, pubVars
<1>5. RegisteredOpen'
  BY DEF IInv, RegisteredOpen, CancelContext, brokerVars
<1>6. ResolverFirst'
  BY DEF IInv, ResolverFirst, CancelContext, brokerVars
<1>7. ForwarderHolds'
  BY DEF IInv, ForwarderHolds, CancelContext, outVars
<1> QED
  BY <1>1, <1>2, <1>3, <1>4, <1>5, <1>6, <1>7 DEF IInv

\* A watcher wakes.
LEMMA WakeStep ==
    ASSUME IInv, NEW s \in Subscribers, Wake(s) PROVE IInv'
<1>1. TypeOK'
  BY DEF IInv, TypeOK, Wake, brokerVars, lockVars, pubVars, outVars, Places
<1>2. PublishersKnow'
  BY DEF IInv, PublishersKnow, Wake, pubVars
<1>3. ReadersSend'
  BY DEF IInv, ReadersSend, Wake, lockVars, pubVars
<1>4. TodoRegistered'
  BY DEF IInv, TodoRegistered, Wake, brokerVars, pubVars
<1>5. RegisteredOpen'
  BY DEF IInv, RegisteredOpen, Wake, brokerVars
<1>6. ResolverFirst'
  BY DEF IInv, TypeOK, ResolverFirst, Wake, brokerVars, Writers, Roles
<1>7. ForwarderHolds'
  BY DEF IInv, ForwarderHolds, Wake, outVars
<1> QED
  BY <1>1, <1>2, <1>3, <1>4, <1>5, <1>6, <1>7 DEF IInv

\* A goroutine enters cancel.
LEMMA EnterOnceStep ==
    ASSUME IInv, NEW g \in Writers, EnterOnce(g) PROVE IInv'
<1>a. PICK r \in Roles, s \in Subscribers : g = <<r, s>>
  BY DEF Writers
<1>b. r \in {"watcher", "forwarder"}
  BY <1>a DEF IInv, ResolverFirst, EnterOnce, Roles
<1>c. gpc[<<"resolver", s>>] = "ended"
  BY <1>a, <1>b DEF IInv, ResolverFirst, EnterOnce
<1>d. \A q \in Roles, z \in Subscribers :
          gpc'[<<q, z>>] = gpc[<<q, z>>] \/ (q = r /\ z = s)
  BY <1>a DEF IInv, TypeOK, EnterOnce, Writers
<1>1. TypeOK'
  BY ActorsAssumption
  DEF IInv, TypeOK, EnterOnce, AfterCancel, lockVars, pubVars, outVars,
      Writers, Roles, Places
<1>2. PublishersKnow'
  BY DEF IInv, PublishersKnow, EnterOnce, pubVars
<1>3. ReadersSend'
  BY DEF IInv, ReadersSend, EnterOnce, lockVars, pubVars
<1>4. TodoRegistered'
  BY DEF IInv, TodoRegistered, EnterOnce, pubVars
<1>5. RegisteredOpen'
  BY DEF IInv, RegisteredOpen, EnterOnce
<1>6. ResolverFirst'
  BY <1>b, <1>c, <1>d
  DEF IInv, ResolverFirst, EnterOnce, AfterCancel, lockVars, pubVars,
      outVars, Roles
<1>7. ForwarderHolds'
  BY DEF IInv, TypeOK, ForwarderHolds, EnterOnce, AfterCancel, outVars,
         Writers, Roles
<1> QED
  BY <1>1, <1>2, <1>3, <1>4, <1>5, <1>6, <1>7 DEF IInv

\* A channel leaves the map and is closed, with no reader there.
LEMMA CloseStep ==
    ASSUME IInv, NEW g \in Writers, Close(g) PROVE IInv'
<1>a. PICK r \in Roles, s \in Subscribers : g = <<r, s>>
  BY DEF Writers
<1>b. r \in {"watcher", "forwarder"}
  BY <1>a DEF IInv, ResolverFirst, Close, Roles
<1>c. gpc[<<"resolver", s>>] = "ended"
  BY <1>a, <1>b DEF IInv, ResolverFirst, Close
<1>d. \A q \in Roles, z \in Subscribers :
          gpc'[<<q, z>>] = gpc[<<q, z>>] \/ (q = r /\ z = s)
  BY <1>a DEF IInv, TypeOK, Close, Writers
<1>1. TypeOK'
  BY DEF IInv, TypeOK, Close, AfterCancel, pubVars, outVars, Places
<1>2. PublishersKnow'
  BY DEF IInv, PublishersKnow, Close, pubVars
<1>3. ReadersSend'
  BY DEF IInv, ReadersSend, Close, pubVars
<1>4. TodoRegistered'
  BY DEF IInv, TodoRegistered, ReadersSend, Close, pubVars
<1>5. RegisteredOpen'
  BY <1>a, <1>b, <1>c DEF IInv, TypeOK, RegisteredOpen, Close
<1>e. /\ \A z \in Subscribers : z # s => closed'[z] = closed[z]
      /\ \A t \in Topics : subs'[t] \subseteq subs[t]
      /\ topic' = topic
  BY <1>a DEF IInv, TypeOK, Close, pubVars, outVars
<1>6. ResolverFirst'
  <2> SUFFICES ASSUME NEW z \in Subscribers
               PROVE  /\ gpc'[<<"resolver", z>>] = gpc[<<"resolver", z>>]
                      /\ gpc[<<"resolver", z>>] # "ended" =>
                            /\ gpc'[<<"watcher", z>>] = gpc[<<"watcher", z>>]
                            /\ gpc'[<<"forwarder", z>>] = gpc[<<"forwarder", z>>]
                            /\ closed'[z] = closed[z]
    BY <1>e DEF IInv, ResolverFirst
  <2>1. CASE z = s
    BY <2>1, <1>b, <1>c, <1>d DEF Roles
  <2>2. CASE z # s
    BY <2>2, <1>d, <1>e DEF Roles
  <2> QED
    BY <2>1, <2>2
<1>7. ForwarderHolds'
  BY DEF IInv, ForwarderHolds, Close, AfterCancel, outVars
<1> QED
  BY <1>1, <1>2, <1>3, <1>4, <1>5, <1>6, <1>7 DEF IInv

\* A forwarder receives a message.
LEMMA ReceiveStep ==
    ASSUME IInv, NEW s \in Subscribers, Receive(s) PROVE IInv'
<1>a. buf[s] \in Seq(Messages) /\ Len(buf[s]) <= Buffer /\ buf[s] # <<>>
  BY DEF IInv, TypeOK, Receive
<1>b. /\ Head(buf[s]) \in Messages
      /\ Tail(buf[s]) \in Seq(Messages) /\ Len(Tail(buf[s])) <= Buffer
  BY <1>a, BufferAssumption
<1>c. /\ buf' \in [Subscribers -> Seq(Messages)]
      /\ \A z \in Subscribers : Len(buf'[z]) <= Buffer
  BY <1>b DEF IInv, TypeOK, Receive
<1>d. held' \in [Subscribers -> Messages \cup {None}]
  BY <1>b DEF IInv, TypeOK, Receive
<1>e. gpc' \in [Writers -> Places]
  <2>1. gpc \in [Writers -> Places] /\ "forward" \in Places
    BY DEF IInv, TypeOK, Places
  <2>2. gpc' = gpc \/ gpc' = [gpc EXCEPT ![<<"forwarder", s>>] = "forward"]
    BY DEF Receive
  <2> QED
    BY <2>1, <2>2
<1>f. \A q \in Roles, z \in Subscribers :
          \/ gpc'[<<q, z>>] = gpc[<<q, z>>]
          \/ q = "forwarder" /\ z = s
  BY DEF IInv, TypeOK, Receive, Writers
<1>g. gpc[<<"forwarder", s>>] = "select"
  BY DEF Receive
<1>1. TypeOK'
  BY <1>c, <1>d, <1>e DEF IInv, TypeOK, Receive, lockVars, pubVars
<1>2. PublishersKnow'
  BY DEF IInv, PublishersKnow, Receive, pubVars
<1>3. ReadersSend'
  BY DEF IInv, ReadersSend, Receive, lockVars, pubVars
<1>4. TodoRegistered'
  BY DEF IInv, TodoRegistered, Receive, pubVars
<1>5. RegisteredOpen'
  BY DEF IInv, RegisteredOpen, Receive
<1>6. ResolverFirst'
  BY <1>f, <1>g DEF IInv, ResolverFirst, Receive, lockVars, pubVars, Roles
<1>7. ForwarderHolds'
  BY ActorsAssumption, MessagesAssumption
  DEF IInv, TypeOK, ForwarderHolds, Receive, pubVars, Writers
<1> QED
  BY <1>1, <1>2, <1>3, <1>4, <1>5, <1>6, <1>7 DEF IInv

\* A forwarder passes a message on.
LEMMA ForwardStep ==
    ASSUME IInv, NEW s \in Subscribers, Forward(s) PROVE IInv'
<1>1. TypeOK'
  BY MessagesAssumption
  DEF IInv, TypeOK, ForwarderHolds, Forward, brokerVars, lockVars,
      pubVars, Writers, Roles, Places
<1>2. PublishersKnow'
  BY DEF IInv, PublishersKnow, Forward, pubVars
<1>3. ReadersSend'
  BY DEF IInv, ReadersSend, Forward, lockVars, pubVars
<1>4. TodoRegistered'
  BY DEF IInv, TodoRegistered, Forward, brokerVars, pubVars
<1>5. RegisteredOpen'
  BY DEF IInv, RegisteredOpen, Forward, brokerVars
<1>6. ResolverFirst'
  BY DEF IInv, TypeOK, ResolverFirst, Forward, brokerVars, Writers, Roles
<1>7. ForwarderHolds'
  BY DEF IInv, TypeOK, ForwarderHolds, Forward, Writers, Roles
<1> QED
  BY <1>1, <1>2, <1>3, <1>4, <1>5, <1>6, <1>7 DEF IInv

\* A forwarder returns.
LEMMA LeaveStep ==
    ASSUME IInv, NEW s \in Subscribers, Leave(s) PROVE IInv'
<1>1. TypeOK'
  BY DEF IInv, TypeOK, Leave, brokerVars, lockVars, pubVars, Places
<1>2. PublishersKnow'
  BY DEF IInv, PublishersKnow, Leave, pubVars
<1>3. ReadersSend'
  BY DEF IInv, ReadersSend, Leave, lockVars, pubVars
<1>4. TodoRegistered'
  BY DEF IInv, TodoRegistered, Leave, brokerVars, pubVars
<1>5. RegisteredOpen'
  BY DEF IInv, RegisteredOpen, Leave, brokerVars
<1>6. ResolverFirst'
  BY DEF IInv, TypeOK, ResolverFirst, Leave, brokerVars, Writers, Roles
<1>7. ForwarderHolds'
  BY DEF IInv, TypeOK, ForwarderHolds, Leave, Writers, Roles
<1> QED
  BY <1>1, <1>2, <1>3, <1>4, <1>5, <1>6, <1>7 DEF IInv

\* A forwarder closes its channel.
LEMMA CloseOutStep ==
    ASSUME IInv, NEW s \in Subscribers, CloseOut(s) PROVE IInv'
<1>1. TypeOK'
  BY DEF IInv, TypeOK, CloseOut, brokerVars, lockVars, pubVars, Places
<1>2. PublishersKnow'
  BY DEF IInv, PublishersKnow, CloseOut, pubVars
<1>3. ReadersSend'
  BY DEF IInv, ReadersSend, CloseOut, lockVars, pubVars
<1>4. TodoRegistered'
  BY DEF IInv, TodoRegistered, CloseOut, brokerVars, pubVars
<1>5. RegisteredOpen'
  BY DEF IInv, RegisteredOpen, CloseOut, brokerVars
<1>6. ResolverFirst'
  BY DEF IInv, TypeOK, ResolverFirst, CloseOut, brokerVars, Writers, Roles
<1>7. ForwarderHolds'
  BY DEF IInv, ForwarderHolds, CloseOut
<1> QED
  BY <1>1, <1>2, <1>3, <1>4, <1>5, <1>6, <1>7 DEF IInv

\* A transport reads.
LEMMA ReadStep ==
    ASSUME IInv, NEW s \in Subscribers, Read(s) PROVE IInv'
<1>1. TypeOK'
  BY ActorsAssumption, NoneAssumption, MessagesAssumption
  DEF IInv, TypeOK, Read, brokerVars, lockVars, pubVars, Roles, Places
<1>2. PublishersKnow'
  BY DEF IInv, PublishersKnow, Read, pubVars
<1>3. ReadersSend'
  BY DEF IInv, ReadersSend, Read, lockVars, pubVars
<1>4. TodoRegistered'
  BY DEF IInv, TodoRegistered, Read, brokerVars, pubVars
<1>5. RegisteredOpen'
  BY DEF IInv, RegisteredOpen, Read, brokerVars
<1>6. ResolverFirst'
  BY DEF IInv, ResolverFirst, Read, brokerVars
<1>7. ForwarderHolds'
  BY DEF IInv, ForwarderHolds, Read
<1> QED
  BY <1>1, <1>2, <1>3, <1>4, <1>5, <1>6, <1>7 DEF IInv

\* Every step keeps the invariant.
LEMMA NextInvariant == IInv /\ [Next]_vars => IInv'
<1> SUFFICES ASSUME IInv, [Next]_vars PROVE IInv'
  OBVIOUS
<1>1. CASE UNCHANGED vars
  BY <1>1
  DEF IInv, TypeOK, PublishersKnow, ReadersSend, TodoRegistered,
      RegisteredOpen,
              ResolverFirst, ForwarderHolds, vars, brokerVars, lockVars, pubVars, outVars
<1>2. CASE Next
  BY <1>1, <1>2, StartPublishStep, ReadLockStep, SendStep, UnlockStep, StartSubscribeStep,
     RequestLockStep, RegisterStep, CancelContextStep, WakeStep, EnterOnceStep,
     CloseStep, ReceiveStep, ForwardStep, LeaveStep, CloseOutStep, ReadStep
  DEF Next, PublisherStep, GoroutineStep, ForwarderStep, Quiet, EndPublish, AbandonPublish
<1> QED
  BY <1>1, <1>2

\* Every reachable state satisfies the invariant.
THEOREM InductiveInvariant == Spec => []IInv
<1> QED
  BY InitInvariant, NextInvariant, PTL DEF Spec

\* Every variable has its type: no channel ever holds more than it can.
THEOREM TypeCorrect == Spec => []TypeOK
<1>1. IInv => TypeOK
  BY DEF IInv
<1> QED
  BY <1>1, InductiveInvariant, PTL

\* No publisher ever sends on a closed channel, whatever subscribes and leaves
\* meanwhile.
THEOREM SendsAreSafe == Spec => []NoSendOnClosed
<1>1. IInv => NoSendOnClosed
  <2> SUFFICES ASSUME IInv, NEW p \in Publishers, NEW s \in todo[p]
               PROVE  ~closed[s] /\ s \in subs[about[msg[p]]]
    BY DEF NoSendOnClosed
  <2>1. ppc[p] = "send" /\ about[msg[p]] \in Topics
    BY DEF IInv, TypeOK, PublishersKnow
  <2> QED
    BY <2>1 DEF IInv, TodoRegistered, RegisteredOpen
<1> QED
  BY <1>1, InductiveInvariant, PTL
-----------------------------------------------------------------------------
(* The order in which messages reach a client. *)

\* With the authors a: x may come before y.
Before(a, x, y) == x # y /\ (a[x] = a[y] => x < y)

\* What is in a sequence, and that it is in order.
In(S) == {S[i] : i \in 1..Len(S)}
Chain(a, S) == \A i, j \in 1..Len(S) : i < j => Before(a, S[i], S[j])

LEMMA AppendChain ==
    ASSUME NEW a, NEW S \in Seq(Messages), NEW m \in Messages
    PROVE  /\ In(Append(S, m)) = In(S) \cup {m}
           /\ Chain(a, S) /\ (\A x \in In(S) : Before(a, x, m)) => Chain(a, Append(S, m))
<1>1. /\ Len(Append(S, m)) = Len(S) + 1 /\ Len(S) \in Nat
      /\ \A i \in 1..Len(S) : Append(S, m)[i] = S[i]
      /\ Append(S, m)[Len(S) + 1] = m
  OBVIOUS
<1>2. In(Append(S, m)) = In(S) \cup {m}
  <2>1. \A i \in 1..(Len(S) + 1) : i \in 1..Len(S) \/ i = Len(S) + 1
    BY <1>1
  <2>2. 1..Len(S) \subseteq 1..(Len(S) + 1) /\ Len(S) + 1 \in 1..(Len(S) + 1)
    BY <1>1
  <2> HIDE DEF Messages
  <2> QED
    BY <1>1, <2>1, <2>2 DEF In
<1>3. ASSUME Chain(a, S), \A x \in In(S) : Before(a, x, m),
             NEW i \in 1..(Len(S) + 1), NEW j \in 1..(Len(S) + 1), i < j
      PROVE  Before(a, Append(S, m)[i], Append(S, m)[j])
  <2>1. i \in 1..Len(S) /\ Append(S, m)[i] = S[i] /\ S[i] \in In(S)
    BY <1>1, <1>3 DEF In
  <2>2. CASE j = Len(S) + 1
    BY <1>1, <1>3, <2>1, <2>2
  <2>3. CASE j # Len(S) + 1
    <3>1. j \in 1..Len(S) /\ Append(S, m)[j] = S[j]
      BY <1>1, <2>3
    <3> QED
      BY <1>3, <2>1, <3>1 DEF Chain
  <2> QED
    BY <2>2, <2>3
<1> QED
  BY <1>1, <1>2, <1>3 DEF Chain

LEMMA TailChain ==
    ASSUME NEW a, NEW S \in Seq(Messages), S # <<>>
    PROVE  /\ Head(S) \in In(S) /\ In(Tail(S)) \subseteq In(S)
           /\ Chain(a, S) => Chain(a, Tail(S)) /\ \A x \in In(Tail(S)) : Before(a, Head(S), x)
<1>1. /\ Len(S) \in Nat \ {0} /\ Head(S) = S[1] /\ Len(Tail(S)) = Len(S) - 1
      /\ \A i \in 1..(Len(S) - 1) : Tail(S)[i] = S[i + 1]
  OBVIOUS
<1>2. Head(S) \in In(S)
  BY <1>1 DEF In
<1>3. \A i \in 1..(Len(S) - 1) : i + 1 \in 1..Len(S)
  BY <1>1
<1>4. In(Tail(S)) \subseteq In(S)
  BY <1>1, <1>3 DEF In
<1>5. Chain(a, S) => Chain(a, Tail(S))
  BY <1>1, <1>3 DEF Chain
<1>6. ASSUME Chain(a, S), NEW x \in In(Tail(S)) PROVE Before(a, Head(S), x)
  <2>1. PICK i \in 1..(Len(S) - 1) : x = S[i + 1]
    BY <1>1, <1>6 DEF In
  <2>2. 1 \in 1..Len(S) /\ i + 1 \in 1..Len(S) /\ 1 < i + 1
    BY <1>1, <2>1
  <2> QED
    BY <1>1, <1>6, <2>1, <2>2 DEF Chain
<1> QED
  BY <1>2, <1>4, <1>5, <1>6

LEMMA ConcatChain ==
    ASSUME NEW a, NEW S \in Seq(Messages), NEW T \in Seq(Messages)
    PROVE  /\ S \o T \in Seq(Messages) /\ In(S \o T) = In(S) \cup In(T)
           /\ Chain(a, S) /\ Chain(a, T) /\ (\A x \in In(S), y \in In(T) : Before(a, x, y))
                 => Chain(a, S \o T)
<1>1. /\ S \o T \in Seq(Messages) /\ Len(S \o T) = Len(S) + Len(T)
      /\ Len(S) \in Nat /\ Len(T) \in Nat
      /\ \A i \in 1..(Len(S) + Len(T)) :
            (S \o T)[i] = IF i <= Len(S) THEN S[i] ELSE T[i - Len(S)]
  BY ConcatProperties
<1>2. \A i \in 1..(Len(S) + Len(T)) :
         \/ i \in 1..Len(S) /\ (S \o T)[i] = S[i] /\ S[i] \in In(S)
         \/ i - Len(S) \in 1..Len(T) /\ ~(i <= Len(S)) /\ (S \o T)[i] = T[i - Len(S)]
            /\ T[i - Len(S)] \in In(T)
  BY <1>1 DEF In
<1>3. In(S \o T) = In(S) \cup In(T)
  <2>1. In(S \o T) \subseteq In(S) \cup In(T)
    BY <1>1, <1>2 DEF In
  <2>2. ASSUME NEW i \in 1..Len(S) PROVE S[i] \in In(S \o T)
    <3>1. i \in 1..(Len(S) + Len(T)) /\ (S \o T)[i] = S[i]
      BY <1>1
    <3> QED
      BY <1>1, <3>1 DEF In
  <2>3. ASSUME NEW i \in 1..Len(T) PROVE T[i] \in In(S \o T)
    <3>1. Len(S) + i \in 1..(Len(S) + Len(T)) /\ (S \o T)[Len(S) + i] = T[i]
      BY <1>1
    <3> QED
      BY <1>1, <3>1 DEF In
  <2> QED
    BY <2>1, <2>2, <2>3 DEF In
<1>4. ASSUME Chain(a, S), Chain(a, T), \A x \in In(S), y \in In(T) : Before(a, x, y),
             NEW i \in 1..(Len(S) + Len(T)), NEW j \in 1..(Len(S) + Len(T)), i < j
      PROVE  Before(a, (S \o T)[i], (S \o T)[j])
  <2>1. CASE i \in 1..Len(S) /\ j \in 1..Len(S)
    BY <1>1, <1>4, <2>1 DEF Chain
  <2>2. CASE i \in 1..Len(S) /\ j \notin 1..Len(S)
    BY <1>1, <1>2, <1>4, <2>2
  <2>3. CASE i \notin 1..Len(S)
    <3>1. /\ (S \o T)[i] = T[i - Len(S)] /\ (S \o T)[j] = T[j - Len(S)]
          /\ i - Len(S) \in 1..Len(T) /\ j - Len(S) \in 1..Len(T) /\ i - Len(S) < j - Len(S)
      BY <1>1, <1>4, <2>3
    <3> QED
      BY <1>4, <3>1 DEF Chain
  <2> QED
    BY <2>1, <2>2, <2>3
<1> QED
  BY <1>1, <1>3, <1>4 DEF Chain

\* A place of the way holds at most one message.
Hold(m) == {m} \ {None}

\* The way of a message to a client, value by value: g has been read, o is in
\* the channel to the transport, h held by the forwarder, b in the broker's
\* channel.  Each part is in order, and comes before the parts behind it.
Line(a, g, o, h, b) ==
    /\ Chain(a, g) /\ Chain(a, o) /\ Chain(a, b)
    /\ \A x \in In(g), y \in In(o) \cup h \cup In(b) : Before(a, x, y)
    /\ \A x \in In(o), y \in h \cup In(b) : Before(a, x, y)
    /\ \A x \in h, y \in In(b) : Before(a, x, y)

\* A message that comes after all of the line joins its end.
LEMMA LineSend ==
    ASSUME NEW a, NEW g, NEW o, NEW h, NEW b \in Seq(Messages), NEW m \in Messages,
           Line(a, g, o, h, b),
           \A x \in In(g) \cup In(o) \cup h \cup In(b) : Before(a, x, m)
    PROVE  Line(a, g, o, h, Append(b, m))
<1>1. In(Append(b, m)) = In(b) \cup {m} /\ Chain(a, Append(b, m))
  BY AppendChain DEF Line
<1> QED
  BY <1>1 DEF Line

\* The forwarder takes the first message of the broker's channel, or drops it.
LEMMA LineReceive ==
    ASSUME NEW a, NEW g, NEW o, NEW b \in Seq(Messages), b # <<>>, NEW h,
           Line(a, g, o, h, b), h = {}
    PROVE  /\ Line(a, g, o, {}, Tail(b))
           /\ Line(a, g, o, {Head(b)}, Tail(b))
<1>1. /\ Head(b) \in In(b) /\ In(Tail(b)) \subseteq In(b) /\ Chain(a, Tail(b))
      /\ \A x \in In(Tail(b)) : Before(a, Head(b), x)
  BY TailChain DEF Line
<1> QED
  BY <1>1 DEF Line

\* The forwarder passes on what it holds.
LEMMA LineForward ==
    ASSUME NEW a, NEW g, NEW o \in Seq(Messages), NEW m \in Messages, NEW b,
           Line(a, g, o, {m}, b)
    PROVE  Line(a, g, Append(o, m), {}, b)
<1>1. In(Append(o, m)) = In(o) \cup {m} /\ Chain(a, Append(o, m))
  BY AppendChain DEF Line
<1> QED
  BY <1>1 DEF Line

\* The transport reads the first message of its channel.
LEMMA LineRead ==
    ASSUME NEW a, NEW g \in Seq(Messages), NEW o \in Seq(Messages), o # <<>>, NEW h, NEW b,
           Line(a, g, o, h, b)
    PROVE  Line(a, Append(g, Head(o)), Tail(o), h, b)
<1>1. /\ Head(o) \in In(o) /\ In(Tail(o)) \subseteq In(o) /\ Chain(a, Tail(o))
      /\ \A x \in In(Tail(o)) : Before(a, Head(o), x)
  BY TailChain DEF Line
<1>2. Head(o) \in Messages
  OBVIOUS
<1>3. In(Append(g, Head(o))) = In(g) \cup {Head(o)} /\ Chain(a, Append(g, Head(o)))
  BY <1>1, <1>2, AppendChain DEF Line
<1> QED
  BY <1>1, <1>3 DEF Line

\* An author of a message outside the line changes nothing of it.
LEMMA LineAuthor ==
    ASSUME NEW a, NEW c, NEW g, NEW o, NEW h, NEW b, Line(a, g, o, h, b),
           \A x \in In(g) \cup In(o) \cup h \cup In(b) : c[x] = a[x]
    PROVE  Line(c, g, o, h, b)
<1>1. ASSUME NEW x \in In(g) \cup In(o) \cup h \cup In(b),
             NEW y \in In(g) \cup In(o) \cup h \cup In(b), Before(a, x, y)
      PROVE  Before(c, x, y)
  BY <1>1 DEF Before
<1>2. ASSUME NEW S, Chain(a, S), In(S) \subseteq In(g) \cup In(o) \cup h \cup In(b)
      PROVE  Chain(c, S)
  BY <1>1, <1>2 DEF Chain, In
<1> QED
  BY <1>1, <1>2 DEF Line

InLine(s) == In(got[s]) \cup In(out[s]) \cup Hold(held[s]) \cup In(buf[s])

Ordered == \A s \in Subscribers : Line(author, got[s], out[s], Hold(held[s]), buf[s])

\* What is on the way has been published, for the topic of the subscription.
Published == \A s \in Subscribers : \A x \in InLine(s) : x < next /\ about[x] = topic[s]

\* Nothing is on the way before the resolver has registered the channel.
Unborn ==
    \A s \in Subscribers : gpc[<<"resolver", s>>] # "ended" => InLine(s) = {}

HeldToForward ==
    \A s \in Subscribers : held[s] # None => gpc[<<"forwarder", s>>] = "forward"

\* A publisher is the author of its message ...
Authors == \A p \in Publishers : ppc[p] # "idle" => author[msg[p]] = p

\* ... and wherever it may still send it, all it sent before has a lower number.
Later ==
    \A p \in Publishers, s \in Subscribers :
        ppc[p] = "rlock" \/ s \in todo[p] =>
            \A x \in InLine(s) : author[x] = p => x < msg[p]

\* The inductive invariant of the order, on top of IInv.
OrderInv ==
    IInv /\ Ordered /\ Published /\ Unborn /\ HeldToForward /\ Authors /\ Later

-----------------------------------------------------------------------------

\* The sequences of a subscription.
LEMMA PlaceTypes ==
    ASSUME IInv, NEW s \in Subscribers
    PROVE  /\ got[s] \in Seq(Messages) /\ out[s] \in Seq(Messages) /\ buf[s] \in Seq(Messages)
           /\ Hold(held[s]) \subseteq Messages
           /\ InLine(s) \subseteq Messages
<1>1. got[s] \in Seq(Messages) /\ out[s] \in Seq(Messages) /\ buf[s] \in Seq(Messages)
  BY DEF IInv, TypeOK
<1>2. Hold(held[s]) \subseteq Messages
  BY DEF IInv, TypeOK, Hold
<1>3. \A S \in Seq(Messages) : In(S) \subseteq Messages
  <2> HIDE DEF Messages
  <2> QED
    BY DEF In
<1> QED
  BY <1>1, <1>2, <1>3 DEF InLine

LEMMA InitOrder == Init => OrderInv
<1> SUFFICES ASSUME Init PROVE OrderInv
  OBVIOUS
<1>1. IInv
  BY InitInvariant
<1>2. In(<<>>) = {} /\ Hold(None) = {} /\ \A a : Chain(a, <<>>)
  BY DEF In, Hold, Chain
<1>3. \A s \in Subscribers : InLine(s) = {}
  BY <1>2 DEF Init, InLine
<1>4. Ordered
  BY <1>2 DEF Init, Ordered, Line
<1>5. Published /\ Unborn /\ Later
  BY <1>3 DEF Published, Unborn, Later
<1>6. HeldToForward /\ Authors
  BY DEF Init, HeldToForward, Authors
<1> QED
  BY <1>1, <1>4, <1>5, <1>6 DEF OrderInv

\* A step of a subscription that puts nothing new on the way.
LEMMA SameLine ==
    ASSUME OrderInv, UNCHANGED pubVars, UNCHANGED topic,
           \A s \in Subscribers :
               /\ InLine(s)' \subseteq InLine(s)
               /\ gpc[<<"resolver", s>>] = "ended" => gpc'[<<"resolver", s>>] = "ended"
    PROVE  Published' /\ Unborn' /\ Authors' /\ Later'
<1>1. Published'
  BY DEF OrderInv, Published, pubVars
<1>2. Unborn'
  BY DEF OrderInv, Unborn
<1>3. Authors'
  BY DEF OrderInv, Authors, pubVars
<1>4. Later'
  BY DEF OrderInv, Later, pubVars
<1> QED
  BY <1>1, <1>2, <1>3, <1>4

\* A step of the broker's goroutines leaves the way as it is.
LEMMA SamePlaces ==
    ASSUME OrderInv, IInv', UNCHANGED <<pubVars, topic, buf, held, out, got>>,
           \A s \in Subscribers :
               /\ gpc[<<"resolver", s>>] = "ended" => gpc'[<<"resolver", s>>] = "ended"
               /\ gpc[<<"forwarder", s>>] = "forward" => gpc'[<<"forwarder", s>>] = "forward"
    PROVE  OrderInv'
<1>1. \A s \in Subscribers : InLine(s)' \subseteq InLine(s)
  BY DEF InLine
<1>2. Published' /\ Unborn' /\ Authors' /\ Later'
  BY <1>1, SameLine
<1>3. Ordered' /\ HeldToForward'
  BY DEF OrderInv, Ordered, HeldToForward, pubVars
<1> QED
  BY <1>2, <1>3 DEF OrderInv

-----------------------------------------------------------------------------

\* A publisher takes the next message: it is later than all on any way.
LEMMA StartPublishOrder ==
    ASSUME OrderInv, NEW p \in Publishers, NEW t \in Topics, StartPublish(p, t),
           next \in Messages
    PROVE  OrderInv'
<1>a. IInv /\ IInv'
  BY StartPublishStep DEF OrderInv
<1>b. /\ UNCHANGED <<buf, topic, gpc, held, out, got, todo>>
      /\ next' = next + 1
      /\ ppc' = [ppc EXCEPT ![p] = "rlock"] /\ msg' = [msg EXCEPT ![p] = next]
      /\ author' = [author EXCEPT ![next] = p] /\ about' = [about EXCEPT ![next] = t]
  BY DEF StartPublish, brokerVars, outVars
<1>c. \A s \in Subscribers : InLine(s)' = InLine(s)
  BY <1>b DEF InLine
<1>d. \A x \in Messages : x < next => author'[x] = author[x] /\ about'[x] = about[x]
  BY <1>a, <1>b DEF IInv, TypeOK, Messages
<1>e. \A s \in Subscribers : \A x \in InLine(s) :
         x < next /\ author'[x] = author[x] /\ about'[x] = about[x]
  BY <1>a, <1>d, PlaceTypes DEF OrderInv, Published
<1>1. Ordered'
  <2> SUFFICES ASSUME NEW s \in Subscribers
               PROVE  Line(author', got[s], out[s], Hold(held[s]), buf[s])
    BY <1>b DEF Ordered
  <2>1. Line(author, got[s], out[s], Hold(held[s]), buf[s])
    BY DEF OrderInv, Ordered
  <2>2. \A x \in In(got[s]) \cup In(out[s]) \cup Hold(held[s]) \cup In(buf[s]) :
           author'[x] = author[x]
    BY <1>e DEF InLine
  <2> QED
    BY <2>1, <2>2, LineAuthor
<1>2. Published'
  <2> SUFFICES ASSUME NEW s \in Subscribers, NEW x \in InLine(s)
               PROVE  x < next' /\ about'[x] = topic'[s]
    BY <1>c DEF Published
  <2>1. x < next /\ about[x] = topic[s] /\ x \in Messages
    BY <1>a, PlaceTypes DEF OrderInv, Published
  <2> QED
    BY <1>a, <1>b, <1>e, <2>1, MessagesAssumption DEF IInv, TypeOK, Messages
<1>3. Unborn' /\ HeldToForward'
  BY <1>b, <1>c DEF OrderInv, Unborn, HeldToForward
<1>4. Authors'
  <2> SUFFICES ASSUME NEW q \in Publishers, ppc'[q] # "idle" PROVE author'[msg'[q]] = q
    BY DEF Authors
  <2>1. CASE q = p
    BY <1>a, <1>b, <2>1 DEF IInv, TypeOK
  <2>2. CASE q # p
    <3>1. ppc[q] # "idle" /\ msg'[q] = msg[q]
      BY <1>a, <1>b, <2>2 DEF IInv, TypeOK
    <3>2. msg[q] \in Messages /\ msg[q] < next /\ author[msg[q]] = q
      BY <1>a, <3>1 DEF OrderInv, Authors, IInv, PublishersKnow
    <3> QED
      BY <1>d, <3>1, <3>2
  <2> QED
    BY <2>1, <2>2
<1>5. Later'
  <2> SUFFICES ASSUME NEW q \in Publishers, NEW s \in Subscribers,
                      ppc'[q] = "rlock" \/ s \in todo'[q],
                      NEW x \in InLine(s), author'[x] = q
               PROVE  x < msg'[q]
    BY <1>c DEF Later
  <2>1. CASE q = p
    BY <1>a, <1>b, <1>e, <2>1 DEF IInv, TypeOK
  <2>2. CASE q # p
    <3>1. (ppc[q] = "rlock" \/ s \in todo[q]) /\ msg'[q] = msg[q]
      BY <1>a, <1>b, <2>2 DEF IInv, TypeOK
    <3> QED
      BY <1>e, <3>1 DEF OrderInv, Later
  <2> QED
    BY <2>1, <2>2
<1> QED
  BY <1>a, <1>1, <1>2, <1>3, <1>4, <1>5 DEF OrderInv

\* A publisher reads who is registered.
LEMMA ReadLockOrder ==
    ASSUME OrderInv, NEW p \in Publishers, ReadLock(p) PROVE OrderInv'
<1>a. IInv /\ IInv'
  BY ReadLockStep DEF OrderInv
<1>b. /\ UNCHANGED <<buf, topic, gpc, held, out, got, msg, next, author, about>>
      /\ \A q \in Publishers : q # p => ppc'[q] = ppc[q] /\ todo'[q] = todo[q]
      /\ ppc[p] = "rlock" /\ ppc'[p] = "send"
  BY <1>a DEF ReadLock, brokerVars, outVars, IInv, TypeOK
<1>c. \A s \in Subscribers : InLine(s)' = InLine(s)
  BY <1>b DEF InLine
<1>1. Ordered' /\ Published' /\ Unborn' /\ HeldToForward'
  BY <1>b, <1>c DEF OrderInv, Ordered, Published, Unborn, HeldToForward
<1>2. Authors'
  BY <1>b DEF OrderInv, Authors
<1>3. Later'
  BY <1>b, <1>c DEF OrderInv, Later
<1> QED
  BY <1>a, <1>1, <1>2, <1>3 DEF OrderInv

\* A publisher frees the lock.
LEMMA UnlockOrder ==
    ASSUME OrderInv, NEW p \in Publishers, ppc[p] = "send", Unlock(p) PROVE OrderInv'
<1>a. IInv /\ IInv'
  BY UnlockStep DEF OrderInv
<1>b. /\ UNCHANGED <<buf, topic, gpc, held, out, got, next, author, about>>
      /\ \A q \in Publishers :
            q # p => ppc'[q] = ppc[q] /\ todo'[q] = todo[q] /\ msg'[q] = msg[q]
      /\ ppc'[p] = "idle" /\ todo'[p] = {}
  BY <1>a DEF Unlock, brokerVars, outVars, IInv, TypeOK
<1>c. \A s \in Subscribers : InLine(s)' = InLine(s)
  BY <1>b DEF InLine
<1>1. Ordered' /\ Published' /\ Unborn' /\ HeldToForward'
  BY <1>b, <1>c DEF OrderInv, Ordered, Published, Unborn, HeldToForward
<1>2. Authors'
  BY <1>b DEF OrderInv, Authors
<1>3. Later'
  BY <1>b, <1>c DEF OrderInv, Later
<1> QED
  BY <1>a, <1>1, <1>2, <1>3 DEF OrderInv

\* A publisher sends to one subscription: the message joins the end of its way.
LEMMA SendOrder ==
    ASSUME OrderInv, NEW p \in Publishers, NEW s \in Subscribers, Send(p, s)
    PROVE  OrderInv'
<1>a. IInv /\ IInv'
  BY SendStep DEF OrderInv
<1>b. /\ UNCHANGED <<topic, gpc, held, out, got, msg, next, author, about, ppc>>
      /\ ppc[p] = "send" /\ s \in todo[p]
      /\ todo' = [todo EXCEPT ![p] = @ \ {s}]
      /\ buf' = IF Len(buf[s]) < Buffer THEN [buf EXCEPT ![s] = Append(@, msg[p])] ELSE buf
  BY DEF Send, outVars
<1>c. /\ msg[p] \in Messages /\ msg[p] < next /\ about[msg[p]] \in Topics
      /\ author[msg[p]] = p
      /\ topic[s] = about[msg[p]] /\ gpc[<<"resolver", s>>] = "ended"
  <2>1. msg[p] \in Messages /\ msg[p] < next /\ about[msg[p]] \in Topics
    BY <1>a, <1>b DEF IInv, PublishersKnow
  <2>2. author[msg[p]] = p
    BY <1>b DEF OrderInv, Authors
  <2>3. s \in subs[about[msg[p]]]
    BY <1>a, <1>b DEF IInv, TodoRegistered
  <2>4. topic[s] = about[msg[p]]
    BY <1>a, <2>1, <2>3 DEF IInv, RegisteredOpen
  <2>5. gpc[<<"resolver", s>>] = "ended"
    BY <1>a, <2>1, <2>3 DEF IInv, ResolverFirst
  <2> QED
    BY <2>1, <2>2, <2>4, <2>5
<1>d. /\ \A z \in Subscribers : z # s => buf'[z] = buf[z]
      /\ buf'[s] = buf[s] \/ buf'[s] = Append(buf[s], msg[p])
      /\ \A q \in Publishers : todo'[q] \subseteq todo[q] /\ (q = p => s \notin todo'[q])
  BY <1>a, <1>b DEF IInv, TypeOK
<1>e. buf[s] \in Seq(Messages)
  BY <1>a, PlaceTypes
<1>f. In(buf'[s]) \subseteq In(buf[s]) \cup {msg[p]}
  <2> HIDE DEF Messages
  <2> QED
    BY <1>c, <1>d, <1>e, AppendChain
<1>g. /\ \A z \in Subscribers : z # s => InLine(z)' = InLine(z)
      /\ InLine(s)' \subseteq InLine(s) \cup {msg[p]}
  BY <1>b, <1>d, <1>f DEF InLine
<1>1. Ordered'
  <2>1. \A x \in InLine(s) : Before(author, x, msg[p])
    <3> SUFFICES ASSUME NEW x \in InLine(s) PROVE Before(author, x, msg[p])
      OBVIOUS
    <3>1. author[x] = p => x < msg[p]
      BY <1>b DEF OrderInv, Later
    <3>2. x \in Messages
      BY <1>a, PlaceTypes
    <3> QED
      BY <1>c, <3>1, <3>2 DEF Before, Messages
  <2>2. Line(author, got[s], out[s], Hold(held[s]), buf[s])
    BY DEF OrderInv, Ordered
  <2>3. Line(author, got[s], out[s], Hold(held[s]), Append(buf[s], msg[p]))
    <3> HIDE DEF Messages
    <3> QED
      BY <1>c, <1>e, <2>1, <2>2, LineSend DEF InLine
  <2> QED
    BY <1>b, <1>d, <2>2, <2>3 DEF OrderInv, Ordered
<1>2. Published'
  BY <1>b, <1>c, <1>g DEF OrderInv, Published
<1>3. Unborn' /\ HeldToForward' /\ Authors'
  BY <1>b, <1>c, <1>g DEF OrderInv, Unborn, HeldToForward, Authors
<1>4. Later'
  <2> SUFFICES ASSUME NEW q \in Publishers, NEW z \in Subscribers,
                      ppc[q] = "rlock" \/ z \in todo'[q],
                      NEW x \in InLine(z)', author[x] = q
               PROVE  x < msg[q]
    BY <1>b DEF Later
  <2>1. ppc[q] = "rlock" \/ z \in todo[q]
    BY <1>d
  <2>2. CASE x \in InLine(z)
    BY <2>1, <2>2 DEF OrderInv, Later
  <2>3. CASE x \notin InLine(z)
    <3>1. z = s /\ x = msg[p] /\ q = p
      BY <1>c, <1>g, <2>3
    <3> QED
      BY <1>b, <1>d, <3>1
  <2> QED
    BY <2>2, <2>3
<1> QED
  BY <1>a, <1>1, <1>2, <1>3, <1>4 DEF OrderInv

\* A resolver makes a channel; nothing is on its way yet, so its topic is free.
LEMMA StartSubscribeOrder ==
    ASSUME OrderInv, NEW s \in Subscribers, NEW t \in Topics, StartSubscribe(s, t)
    PROVE  OrderInv'
<1>a. IInv /\ IInv'
  BY StartSubscribeStep DEF OrderInv
<1>b. /\ UNCHANGED <<pubVars, buf, held, out, got>>
      /\ topic' = [topic EXCEPT ![s] = t]
      /\ gpc' = [gpc EXCEPT ![<<"resolver", s>>] = "lock"]
      /\ gpc[<<"resolver", s>>] = "none"
  BY DEF StartSubscribe, brokerVars, outVars
<1>c. \A z \in Subscribers : InLine(z)' = InLine(z)
  BY <1>b DEF InLine
<1>d. InLine(s) = {} /\ \A z \in Subscribers : z # s => topic'[z] = topic[z]
  BY <1>a, <1>b DEF OrderInv, Unborn, IInv, TypeOK
<1>e. \A z \in Subscribers :
         /\ gpc[<<"resolver", z>>] = "ended" => gpc'[<<"resolver", z>>] = "ended"
         /\ gpc[<<"forwarder", z>>] = "forward" => gpc'[<<"forwarder", z>>] = "forward"
  BY <1>a, <1>b DEF IInv, TypeOK, Writers, Roles
<1>1. Ordered' /\ HeldToForward'
  BY <1>b, <1>e DEF OrderInv, Ordered, HeldToForward, pubVars
<1>2. Published'
  BY <1>b, <1>c, <1>d DEF OrderInv, Published, pubVars
<1>3. Unborn' /\ Authors' /\ Later'
  BY <1>b, <1>c, <1>e DEF OrderInv, Unborn, Authors, Later, pubVars
<1> QED
  BY <1>a, <1>1, <1>2, <1>3 DEF OrderInv

\* Goroutines that only lock, register, wake, cancel and close move nothing.
LEMMA RequestLockOrder ==
    ASSUME OrderInv, NEW g \in Writers, RequestLock(g) PROVE OrderInv'
<1>a. IInv /\ IInv'
  BY RequestLockStep DEF OrderInv
<1>1. UNCHANGED <<pubVars, topic, buf, held, out, got>>
  BY DEF RequestLock, brokerVars, outVars
<1>2. \A h \in Writers : gpc[h] \in {"ended", "forward"} => gpc'[h] = gpc[h]
  BY <1>a DEF RequestLock, IInv, TypeOK
<1>3. \A z \in Subscribers, r \in Roles : <<r, z>> \in Writers
  BY DEF Writers
<1> QED
  BY <1>a, <1>1, <1>2, <1>3, SamePlaces DEF Roles

LEMMA RegisterOrder ==
    ASSUME OrderInv, NEW s \in Subscribers, Register(s) PROVE OrderInv'
<1>a. IInv /\ IInv'
  BY RegisterStep DEF OrderInv
<1>1. UNCHANGED <<pubVars, topic, buf, held, out, got>>
  BY DEF Register, outVars
<1>2. gpc[<<"resolver", s>>] = "register" /\ gpc[<<"forwarder", s>>] = "none"
  BY <1>a DEF Register, IInv, ResolverFirst
<1>3. \A z \in Subscribers :
         /\ gpc[<<"resolver", z>>] = "ended" => gpc'[<<"resolver", z>>] = "ended"
         /\ gpc[<<"forwarder", z>>] = "forward" => gpc'[<<"forwarder", z>>] = "forward"
  BY <1>a, <1>2 DEF Register, IInv, TypeOK, Writers, Roles
<1> QED
  BY <1>a, <1>1, <1>3, SamePlaces

LEMMA CancelContextOrder ==
    ASSUME OrderInv, NEW s \in Subscribers, CancelContext(s) PROVE OrderInv'
<1>a. IInv'
  BY CancelContextStep DEF OrderInv
<1>1. UNCHANGED <<pubVars, topic, buf, held, out, got, gpc>>
  BY DEF CancelContext, brokerVars, outVars
<1> QED
  BY <1>a, <1>1, SamePlaces

LEMMA WakeOrder ==
    ASSUME OrderInv, NEW s \in Subscribers, Wake(s) PROVE OrderInv'
<1>a. IInv /\ IInv'
  BY WakeStep DEF OrderInv
<1>1. UNCHANGED <<pubVars, topic, buf, held, out, got>>
  BY DEF Wake, brokerVars, outVars
<1>2. \A h \in Writers : gpc[h] \in {"ended", "forward"} => gpc'[h] = gpc[h]
  BY <1>a DEF Wake, IInv, TypeOK
<1>3. \A z \in Subscribers, r \in Roles : <<r, z>> \in Writers
  BY DEF Writers
<1> QED
  BY <1>a, <1>1, <1>2, <1>3, SamePlaces DEF Roles

LEMMA EnterOnceOrder ==
    ASSUME OrderInv, NEW g \in Writers, EnterOnce(g) PROVE OrderInv'
<1>a. IInv /\ IInv'
  BY EnterOnceStep DEF OrderInv
<1>1. UNCHANGED <<pubVars, topic, buf, held, out, got>>
  BY DEF EnterOnce, outVars
<1>2. \A h \in Writers : gpc[h] \in {"ended", "forward"} => gpc'[h] = gpc[h]
  BY <1>a DEF EnterOnce, IInv, TypeOK
<1>3. \A z \in Subscribers, r \in Roles : <<r, z>> \in Writers
  BY DEF Writers
<1> QED
  BY <1>a, <1>1, <1>2, <1>3, SamePlaces DEF Roles

LEMMA CloseOrder ==
    ASSUME OrderInv, NEW g \in Writers, Close(g) PROVE OrderInv'
<1>a. IInv /\ IInv'
  BY CloseStep DEF OrderInv
<1>1. UNCHANGED <<pubVars, topic, buf, held, out, got>>
  BY DEF Close, outVars
<1>2. \A h \in Writers : gpc[h] \in {"ended", "forward"} => gpc'[h] = gpc[h]
  BY <1>a DEF Close, IInv, TypeOK
<1>3. \A z \in Subscribers, r \in Roles : <<r, z>> \in Writers
  BY DEF Writers
<1> QED
  BY <1>a, <1>1, <1>2, <1>3, SamePlaces DEF Roles

LEMMA CloseOutOrder ==
    ASSUME OrderInv, NEW s \in Subscribers, CloseOut(s) PROVE OrderInv'
<1>a. IInv /\ IInv'
  BY CloseOutStep DEF OrderInv
<1>1. UNCHANGED <<pubVars, topic, buf, held, out, got>>
  BY DEF CloseOut, brokerVars
<1>2. \A h \in Writers : gpc[h] \in {"ended", "forward"} => gpc'[h] = gpc[h]
  BY <1>a DEF CloseOut, IInv, TypeOK
<1>3. \A z \in Subscribers, r \in Roles : <<r, z>> \in Writers
  BY DEF Writers
<1> QED
  BY <1>a, <1>1, <1>2, <1>3, SamePlaces DEF Roles

\* The forwarder receives: the first of the broker's channel moves up, or goes.
LEMMA ReceiveOrder ==
    ASSUME OrderInv, NEW s \in Subscribers, Receive(s) PROVE OrderInv'
<1>a. IInv /\ IInv'
  BY ReceiveStep DEF OrderInv
<1>b. /\ UNCHANGED <<pubVars, topic, out, got>>
      /\ gpc[<<"forwarder", s>>] = "select" /\ buf[s] # <<>>
      /\ buf' = [buf EXCEPT ![s] = Tail(@)]
      /\ \/ held' = held /\ gpc' = gpc
         \/ /\ held' = [held EXCEPT ![s] = Head(buf[s])]
            /\ gpc' = [gpc EXCEPT ![<<"forwarder", s>>] = "forward"]
  BY DEF Receive
<1>c. /\ held[s] = None /\ Hold(held[s]) = {} /\ Hold(None) = {}
      /\ buf[s] \in Seq(Messages)
  BY <1>a, <1>b, PlaceTypes DEF OrderInv, HeldToForward, Hold
<1>d. /\ \A z \in Subscribers : z # s => buf'[z] = buf[z] /\ held'[z] = held[z]
      /\ buf'[s] = Tail(buf[s])
      /\ held'[s] \in {None, Head(buf[s])}
  BY <1>a, <1>b, <1>c DEF IInv, TypeOK
<1>e. Hold(held'[s]) \in {{}, {Head(buf[s])}}
  <2>1. None \notin Messages /\ Head(buf[s]) \in Messages
    BY <1>b, <1>c, NoneAssumption
  <2> QED
    BY <1>d, <2>1 DEF Hold
<1>f. Head(buf[s]) \in In(buf[s]) /\ In(Tail(buf[s])) \subseteq In(buf[s])
  <2> HIDE DEF Messages
  <2> QED
    BY <1>b, <1>c, TailChain
<1>g. \A z \in Subscribers : InLine(z)' \subseteq InLine(z)
  BY <1>b, <1>d, <1>e, <1>f DEF InLine
<1>h. \A z \in Subscribers :
         gpc[<<"resolver", z>>] = "ended" => gpc'[<<"resolver", z>>] = "ended"
  BY <1>a, <1>b DEF IInv, TypeOK, Writers, Roles
<1>1. Ordered'
  <2>1. Line(author, got[s], out[s], Hold(held[s]), buf[s])
    BY DEF OrderInv, Ordered
  <2>2. Line(author, got[s], out[s], Hold(held'[s]), Tail(buf[s]))
    <3> HIDE DEF Messages
    <3>1. Line(author, got[s], out[s], {}, buf[s])
      BY <1>c, <2>1
    <3>2. /\ Line(author, got[s], out[s], {}, Tail(buf[s]))
          /\ Line(author, got[s], out[s], {Head(buf[s])}, Tail(buf[s]))
      BY <1>b, <1>c, <3>1, LineReceive
    <3> QED
      BY <1>e, <3>2
  <2> QED
    BY <1>b, <1>d, <2>2 DEF OrderInv, Ordered, pubVars
<1>2. HeldToForward'
  <2>1. CASE held' = held /\ gpc' = gpc
    BY <2>1 DEF OrderInv, HeldToForward
  <2>2. CASE gpc' = [gpc EXCEPT ![<<"forwarder", s>>] = "forward"]
    <3>1. \A z \in Subscribers :
             gpc'[<<"forwarder", z>>] = IF z = s THEN "forward" ELSE gpc[<<"forwarder", z>>]
      BY <1>a, <2>2 DEF IInv, TypeOK, Writers, Roles
    <3> QED
      BY <1>d, <3>1 DEF OrderInv, HeldToForward
  <2> QED
    BY <1>b, <2>1, <2>2
<1>3. Published' /\ Unborn' /\ Authors' /\ Later'
  BY <1>b, <1>g, <1>h, SameLine
<1> QED
  BY <1>a, <1>1, <1>2, <1>3 DEF OrderInv

\* The forwarder passes on what it holds.
LEMMA ForwardOrder ==
    ASSUME OrderInv, NEW s \in Subscribers, Forward(s) PROVE OrderInv'
<1>a. IInv /\ IInv'
  BY ForwardStep DEF OrderInv
<1>b. /\ UNCHANGED <<pubVars, topic, buf, got>>
      /\ gpc[<<"forwarder", s>>] = "forward"
      /\ out' = [out EXCEPT ![s] = Append(@, held[s])]
      /\ held' = [held EXCEPT ![s] = None]
      /\ gpc' = [gpc EXCEPT ![<<"forwarder", s>>] = "select"]
  BY DEF Forward, brokerVars
<1>c. held[s] \in Messages /\ out[s] \in Seq(Messages)
  BY <1>a, <1>b DEF IInv, TypeOK, ForwarderHolds
<1>d. /\ \A z \in Subscribers : z # s => out'[z] = out[z] /\ held'[z] = held[z]
      /\ out'[s] = Append(out[s], held[s]) /\ held'[s] = None
  BY <1>a, <1>b DEF IInv, TypeOK
<1>e. Hold(held'[s]) = {} /\ Hold(held[s]) = {held[s]}
  BY <1>c, <1>d, NoneAssumption DEF Hold
<1>f. In(out'[s]) = In(out[s]) \cup {held[s]}
  <2> HIDE DEF Messages
  <2> QED
    BY <1>c, <1>d, AppendChain
<1>g. \A z \in Subscribers : InLine(z)' \subseteq InLine(z)
  BY <1>b, <1>d, <1>e, <1>f DEF InLine
<1>h. \A z \in Subscribers :
         /\ gpc[<<"resolver", z>>] = "ended" => gpc'[<<"resolver", z>>] = "ended"
         /\ z # s => gpc'[<<"forwarder", z>>] = gpc[<<"forwarder", z>>]
  BY <1>a, <1>b DEF IInv, TypeOK, Writers, Roles
<1>1. Ordered'
  <2>1. Line(author, got[s], out[s], Hold(held[s]), buf[s])
    BY DEF OrderInv, Ordered
  <2>2. Line(author, got[s], out'[s], {}, buf[s])
    <3> HIDE DEF Messages
    <3> QED
      BY <1>c, <1>d, <1>e, <2>1, LineForward
  <2> QED
    BY <1>b, <1>d, <1>e, <2>2 DEF OrderInv, Ordered, pubVars
<1>2. HeldToForward'
  BY <1>d, <1>h DEF OrderInv, HeldToForward
<1>3. Published' /\ Unborn' /\ Authors' /\ Later'
  BY <1>b, <1>g, <1>h, SameLine
<1> QED
  BY <1>a, <1>1, <1>2, <1>3 DEF OrderInv

\* The forwarder returns; what it holds is lost.
LEMMA LeaveOrder ==
    ASSUME OrderInv, NEW s \in Subscribers, Leave(s) PROVE OrderInv'
<1>a. IInv /\ IInv'
  BY LeaveStep DEF OrderInv
<1>b. /\ UNCHANGED <<pubVars, topic, buf, out, got>>
      /\ held' = [held EXCEPT ![s] = None]
      /\ gpc' = [gpc EXCEPT ![<<"forwarder", s>>] = "stop"]
  BY DEF Leave, brokerVars
<1>c. \A z \in Subscribers : IF z = s THEN held'[z] = None ELSE held'[z] = held[z]
  BY <1>a, <1>b DEF IInv, TypeOK
<1>d. \A z \in Subscribers : Hold(held'[z]) \subseteq Hold(held[z])
  BY <1>c DEF Hold
<1>e. \A z \in Subscribers : InLine(z)' \subseteq InLine(z)
  BY <1>b, <1>d DEF InLine
<1>f. \A z \in Subscribers :
         /\ gpc[<<"resolver", z>>] = "ended" => gpc'[<<"resolver", z>>] = "ended"
         /\ z # s => gpc'[<<"forwarder", z>>] = gpc[<<"forwarder", z>>]
  BY <1>a, <1>b DEF IInv, TypeOK, Writers, Roles
<1>1. Ordered'
  BY <1>b, <1>d DEF OrderInv, Ordered, Line, pubVars
<1>2. HeldToForward'
  BY <1>c, <1>f DEF OrderInv, HeldToForward
<1>3. Published' /\ Unborn' /\ Authors' /\ Later'
  BY <1>b, <1>e, <1>f, SameLine
<1> QED
  BY <1>a, <1>1, <1>2, <1>3 DEF OrderInv

\* The transport reads.
LEMMA ReadOrder ==
    ASSUME OrderInv, NEW s \in Subscribers, Read(s) PROVE OrderInv'
<1>a. IInv /\ IInv'
  BY ReadStep DEF OrderInv
<1>b. /\ UNCHANGED <<pubVars, topic, buf, held, gpc>>
      /\ out[s] # <<>>
      /\ got' = [got EXCEPT ![s] = Append(@, Head(out[s]))]
      /\ out' = [out EXCEPT ![s] = Tail(@)]
  BY DEF Read, brokerVars
<1>c. got[s] \in Seq(Messages) /\ out[s] \in Seq(Messages) /\ Head(out[s]) \in Messages
  BY <1>a, <1>b, PlaceTypes
<1>d. /\ \A z \in Subscribers : z # s => out'[z] = out[z] /\ got'[z] = got[z]
      /\ out'[s] = Tail(out[s]) /\ got'[s] = Append(got[s], Head(out[s]))
  BY <1>a, <1>b DEF IInv, TypeOK
<1>e. /\ In(got'[s]) = In(got[s]) \cup {Head(out[s])}
      /\ Head(out[s]) \in In(out[s]) /\ In(out'[s]) \subseteq In(out[s])
  <2> HIDE DEF Messages
  <2>1. In(got'[s]) = In(got[s]) \cup {Head(out[s])}
    BY <1>c, <1>d, AppendChain
  <2>2. Head(out[s]) \in In(out[s]) /\ In(out'[s]) \subseteq In(out[s])
    BY <1>b, <1>c, <1>d, TailChain
  <2> QED
    BY <2>1, <2>2
<1>f. \A z \in Subscribers : InLine(z)' \subseteq InLine(z)
  BY <1>b, <1>d, <1>e DEF InLine
<1>1. Ordered'
  <2>1. Line(author, got[s], out[s], Hold(held[s]), buf[s])
    BY DEF OrderInv, Ordered
  <2>2. Line(author, got'[s], out'[s], Hold(held[s]), buf[s])
    <3> HIDE DEF Messages
    <3> QED
      BY <1>b, <1>c, <1>d, <2>1, LineRead
  <2> QED
    BY <1>b, <1>d, <2>2 DEF OrderInv, Ordered, pubVars
<1>2. HeldToForward'
  BY <1>b DEF OrderInv, HeldToForward
<1>3. Published' /\ Unborn' /\ Authors' /\ Later'
  BY <1>b, <1>f, SameLine
<1> QED
  BY <1>a, <1>1, <1>2, <1>3 DEF OrderInv

\* Every step keeps the order.
LEMMA NextOrder == OrderInv /\ [Next]_vars => OrderInv'
<1> SUFFICES ASSUME OrderInv, [Next]_vars PROVE OrderInv'
  OBVIOUS
<1>1. CASE UNCHANGED vars
  <2>1. IInv'
    BY NextInvariant DEF OrderInv
  <2> QED
    BY <1>1, <2>1, SamePlaces DEF vars, brokerVars, outVars, pubVars
<1>2. CASE Next
  <2>1. ASSUME NEW p \in Publishers, NEW t \in Topics, StartPublish(p, t) PROVE OrderInv'
    <3>1. next \in Messages
      BY <2>1, MessagesAssumption DEF OrderInv, IInv, TypeOK, StartPublish, Messages
    <3> QED
      BY <2>1, <3>1, StartPublishOrder
  <2> QED
    BY <1>1, <1>2, <2>1, ReadLockOrder, SendOrder, UnlockOrder, StartSubscribeOrder,
       RequestLockOrder, RegisterOrder, CancelContextOrder, WakeOrder, EnterOnceOrder,
       CloseOrder, ReceiveOrder, ForwardOrder, LeaveOrder, CloseOutOrder, ReadOrder
    DEF Next, PublisherStep, GoroutineStep, ForwarderStep, Quiet, EndPublish, AbandonPublish
<1> QED
  BY <1>1, <1>2

\* The order of the places is the order of the stream.
LEMMA StreamInOrder == OrderInv => InOrderOnce
<1> SUFFICES ASSUME OrderInv PROVE InOrderOnce
  OBVIOUS
<1> SUFFICES ASSUME NEW s \in Subscribers
             PROVE  /\ Chain(author, Stream(s)) /\ In(Stream(s)) = InLine(s)
                    /\ Stream(s) \in Seq(Messages)
  <2>1. \A z \in Subscribers : \A x \in InLine(z) : about[x] = topic[z]
    BY DEF OrderInv, Published
  <2>2. ASSUME NEW z \in Subscribers, Stream(z) \in Seq(Messages)
        PROVE  DOMAIN Stream(z) = 1..Len(Stream(z))
    BY <2>2
  <2> QED
    BY <2>1, <2>2 DEF InOrderOnce, Chain, In, Before
<1> DEFINE H == IF held[s] = None THEN <<>> ELSE <<held[s]>>
<1>1. /\ got[s] \in Seq(Messages) /\ out[s] \in Seq(Messages) /\ buf[s] \in Seq(Messages)
      /\ held[s] \in Messages \cup {None}
  BY DEF OrderInv, IInv, TypeOK
<1>2. Line(author, got[s], out[s], Hold(held[s]), buf[s])
  BY DEF OrderInv, Ordered
<1>3. H \in Seq(Messages) /\ In(H) = Hold(held[s]) /\ Chain(author, H)
  <2> HIDE DEF Messages
  <2>1. CASE held[s] = None
    BY <2>1 DEF In, Chain, Hold
  <2>2. CASE held[s] # None
    <3>1. H = <<held[s]>> /\ held[s] \in Messages /\ Hold(held[s]) = {held[s]}
      BY <1>1, <2>2 DEF Hold
    <3>2. Len(<<held[s]>>) = 1 /\ 1..1 = {1} /\ <<held[s]>>[1] = held[s]
      OBVIOUS
    <3> QED
      BY <3>1, <3>2 DEF In, Chain
  <2> QED
    BY <2>1, <2>2
<1> HIDE DEF H, Messages
<1>4. /\ got[s] \o out[s] \in Seq(Messages) /\ Chain(author, got[s] \o out[s])
      /\ In(got[s] \o out[s]) = In(got[s]) \cup In(out[s])
  BY <1>1, <1>2, ConcatChain DEF Line
<1>5. /\ (got[s] \o out[s]) \o H \in Seq(Messages) /\ Chain(author, (got[s] \o out[s]) \o H)
      /\ In((got[s] \o out[s]) \o H) = In(got[s]) \cup In(out[s]) \cup Hold(held[s])
  BY <1>2, <1>3, <1>4, ConcatChain DEF Line
<1>6. /\ ((got[s] \o out[s]) \o H) \o buf[s] \in Seq(Messages)
      /\ Chain(author, ((got[s] \o out[s]) \o H) \o buf[s])
      /\ In(((got[s] \o out[s]) \o H) \o buf[s]) = InLine(s)
  BY <1>1, <1>2, <1>5, ConcatChain DEF Line, InLine
<1> QED
  BY <1>6 DEF Stream, H

\* A client gets a message at most once, only of its topic, and those of one
\* publisher in the order they were published (Send, Receive, Forward, Read).
THEOREM DeliveredInOrder == Spec => []InOrderOnce
<1> QED
  BY InitOrder, NextOrder, StreamInOrder, PTL DEF Spec
=============================================================================
