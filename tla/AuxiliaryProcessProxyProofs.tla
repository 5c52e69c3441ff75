--------------------- MODULE AuxiliaryProcessProxyProofs ---------------------
(***************************************************************************)
(* For any messages: every completion handler is called at most once and   *)
(* is never lost; a connection is let go only when it is invalid and       *)
(* leaves no handlers behind; a reply that is dispatched finds its         *)
(* handler; and messages arrive in the order they were sent in.            *)
(*                                                                         *)
(* The count of EveryHandlerIsCalledOnce is not inductive alone: a message *)
(* must be pending once for its handler to move to the map, and clearing   *)
(* the map replaces the handlers being called, which must be none then.    *)
(* That rests on when the three lifetimes may overlap (LifetimeInv).       *)
(*                                                                         *)
(* That replies find their handlers needs that a message and its reply are *)
(* in one place at a time (WireInv): a handler taken from the map must not *)
(* be the handler of another copy still on its way.  The order of messages *)
(* needs where in the accepted messages those received, on their way and   *)
(* pending are (OrderInv).                                                 *)
(***************************************************************************)
EXTENDS AuxiliaryProcessProxy, TLAPS

\* When the connection, the process and the proxy exist together, and where
\* handlers can be meanwhile.
LifetimeInv ==
    /\ valid => connection
    /\ connection => object = "alive"
    /\ object # "alive" => replyHandlers = {}
    /\ process \in {"none", "starting"} => object = "none"
    /\ mainThread # "clearing" => clearing = {}
    /\ mainThread = "didClose" => ~valid
    /\ mainThread = "flushing" => valid

\* The part of TypeOK the argument needs, and that messages are pending once.
HandlerTypes ==
    /\ pending \in Seq(Messages)
    /\ replyHandlers \subseteq WantsReply
    /\ clearing \subseteq WantsReply
    /\ posted \subseteq WantsReply
    /\ calls \in [WantsReply -> Nat]
    /\ \A i \in 1..Len(pending) : pending[i] \in sent
    /\ \A i, j \in 1..Len(pending) : pending[i] = pending[j] => i = j

IInv == HandlerTypes /\ LifetimeInv /\ EveryHandlerIsCalledOnce

-----------------------------------------------------------------------------

\* Stashing a message adds it to the pending ones (sendMessage, Launching).
LEMMA StashedMessages ==
    ASSUME HandlerTypes, NEW m \in Messages
    PROVE  /\ Stashed(m) \in Seq(Messages)
           /\ Range(Stashed(m)) = Range(pending) \cup {m}
           /\ Len(Stashed(m)) = Len(pending) + 1
           /\ \A i \in 1..Len(pending) : Stashed(m)[i] = pending[i]
           /\ Stashed(m)[Len(pending) + 1] = m
  <1>1. /\ Stashed(m) \in Seq(Messages)
        /\ DOMAIN Stashed(m) = 1..(Len(pending) + 1) /\ Len(Stashed(m)) = Len(pending) + 1
        /\ \A i \in 1..Len(pending) : Stashed(m)[i] = pending[i]
        /\ Stashed(m)[Len(pending) + 1] = m
    BY DEF Stashed, HandlerTypes
  <1>2. DOMAIN pending = 1..Len(pending) /\ Len(pending) \in Nat
    BY DEF HandlerTypes
  <1>3. ASSUME NEW x PROVE x \in Range(Stashed(m)) <=> x \in Range(pending) \cup {m}
    BY <1>1, <1>2 DEF Range
  <1> QED
    BY <1>1, <1>3, Zenon

\* No message is pending in an empty vector.
LEMMA NothingPending == Range(<<>>) = {}
  BY DEF Range

\* Calling a set of handlers counts one call for each of them.
LEMMA CallsCounted ==
    ASSUME HandlerTypes, NEW ms, CallHandlers(ms)
    PROVE  /\ calls' \in [WantsReply -> Nat]
           /\ \A m \in WantsReply : calls'[m] = calls[m] + One(m \in ms)
  BY DEF HandlerTypes, CallHandlers, One

\* Initially nothing exists.
LEMMA InitIInv == Init => IInv
  <1> SUFFICES ASSUME Init PROVE IInv
    BY Zenon
  <1>1. HandlerTypes
    BY DEF Init, HandlerTypes
  <1>2. LifetimeInv
    BY Zenon DEF Init, LifetimeInv
  <1>3. EveryHandlerIsCalledOnce
    BY NothingPending DEF Init, EveryHandlerIsCalledOnce, Waiting, One
  <1> QED
    BY <1>1, <1>2, <1>3, Zenon DEF IInv

-----------------------------------------------------------------------------

\* A step that leaves the handlers where they are keeps the count.
LEMMA HandlersUntouched ==
    ASSUME IInv, UNCHANGED <<pending, handlerVars, sent>>
    PROVE  HandlerTypes' /\ EveryHandlerIsCalledOnce'
  BY Zenon DEF IInv, HandlerTypes, EveryHandlerIsCalledOnce, Waiting, handlerVars

\* sendMessage in each of the three states (AuxiliaryProcessProxy::sendMessage).
LEMMA SendMessageStep ==
    ASSUME IInv, NEW m \in Messages, SendMessage(m)
    PROVE  IInv'
  <1>1. CASE SendWhileLaunching(m)
    <2>1. LifetimeInv'
      BY <1>1, Zenon DEF IInv, LifetimeInv, SendWhileLaunching, objectVars, handlerVars
    <2>2. HandlerTypes'
      <3>1. /\ pending' \in Seq(Messages) /\ Len(pending') = Len(pending) + 1 /\ Len(pending) \in Nat
            /\ \A i \in 1..Len(pending) : pending'[i] = pending[i]
            /\ pending'[Len(pending) + 1] = m
            /\ sent' = sent \cup {m} /\ m \notin sent
        BY <1>1, StashedMessages DEF IInv, HandlerTypes, SendWhileLaunching
      <3>2. \A i \in 1..Len(pending') : i \in 1..Len(pending) \/ i = Len(pending) + 1
        BY <3>1
      <3>3. /\ \A i \in 1..Len(pending') : pending'[i] \in sent'
            /\ \A i, j \in 1..Len(pending') : pending'[i] = pending'[j] => i = j
        BY <3>1, <3>2, Zenon DEF IInv, HandlerTypes
      <3> QED
        BY <1>1, <3>1, <3>3, Zenon DEF IInv, HandlerTypes, SendWhileLaunching, handlerVars
    <2>3. EveryHandlerIsCalledOnce'
      <3>1. /\ Range(pending') = Range(pending) \cup {m} /\ sent' = sent \cup {m} /\ m \notin sent
            /\ replyHandlers' = replyHandlers /\ clearing' = clearing /\ posted' = posted
            /\ calls' = calls
        BY <1>1, StashedMessages, Zenon DEF IInv, SendWhileLaunching, handlerVars
      <3> QED
        BY <3>1 DEF IInv, HandlerTypes, EveryHandlerIsCalledOnce, Waiting, One
    <2> QED
      BY <2>1, <2>2, <2>3, Zenon DEF IInv
  <1>2. CASE SendWhileRunning(m)
    <2>0. connection
      BY <1>2, Zenon DEF SendWhileRunning, State
    <2>1. LifetimeInv'
      BY <1>2, <2>0, Zenon DEF IInv, LifetimeInv, SendWhileRunning, objectVars, proxyVars
    <2>2. HandlerTypes'
      BY <1>2, Zenon DEF IInv, HandlerTypes, SendWhileRunning, proxyVars, HandlerOf
    <2>3. EveryHandlerIsCalledOnce'
      <3>1. /\ pending' = pending /\ clearing' = clearing /\ calls' = calls
            /\ replyHandlers' = replyHandlers \cup ({m} \cap WantsReply) /\ posted' = posted
            /\ sent' = sent \cup {m} /\ m \notin sent
        BY <1>2, Zenon DEF SendWhileRunning, proxyVars, HandlerOf
      <3> QED
        BY <3>1 DEF IInv, HandlerTypes, EveryHandlerIsCalledOnce, Waiting, One
    <2> QED
      BY <2>1, <2>2, <2>3, Zenon DEF IInv
  <1>3. CASE SendWhileTerminated(m)
    <2>1. LifetimeInv'
      BY <1>3, Zenon DEF IInv, LifetimeInv, SendWhileTerminated, objectVars, proxyVars
    <2>2. HandlerTypes'
      BY <1>3 DEF IInv, HandlerTypes, SendWhileTerminated, proxyVars, HandlerOf
    <2>3. EveryHandlerIsCalledOnce'
      <3>1. /\ pending' = pending /\ clearing' = clearing /\ calls' = calls
            /\ replyHandlers' = replyHandlers /\ posted' = posted \cup ({m} \cap WantsReply)
            /\ sent' = sent \cup {m} /\ m \notin sent
        BY <1>3, Zenon DEF SendWhileTerminated, proxyVars, HandlerOf
      <3> QED
        BY <3>1 DEF IInv, HandlerTypes, EveryHandlerIsCalledOnce, Waiting, One
    <2> QED
      BY <2>1, <2>2, <2>3, Zenon DEF IInv
  <1> QED
    BY <1>1, <1>2, <1>3, Zenon DEF SendMessage

\* Taking the first of the pending messages leaves the others.
LEMMA FirstPendingTaken ==
    ASSUME HandlerTypes, pending # <<>>
    PROVE  /\ Head(pending) \in Messages /\ Head(pending) = pending[1]
           /\ Tail(pending) \in Seq(Messages)
           /\ Len(pending) \in Nat \ {0} /\ Len(Tail(pending)) = Len(pending) - 1
           /\ \A i \in 1..Len(Tail(pending)) : Tail(pending)[i] = pending[i + 1]
           /\ Range(Tail(pending)) = Range(pending) \ {Head(pending)}
           /\ Head(pending) \in Range(pending)
  <1>1. /\ Head(pending) \in Messages /\ Head(pending) = pending[1]
        /\ Tail(pending) \in Seq(Messages)
        /\ Len(pending) \in Nat \ {0} /\ Len(Tail(pending)) = Len(pending) - 1
        /\ \A i \in 1..Len(Tail(pending)) : Tail(pending)[i] = pending[i + 1]
        /\ DOMAIN pending = 1..Len(pending) /\ DOMAIN Tail(pending) = 1..Len(Tail(pending))
    BY DEF HandlerTypes
  <1>2. ASSUME NEW x \in Range(Tail(pending)) PROVE x \in Range(pending) \ {Head(pending)}
    <2>1. PICK i \in 1..Len(Tail(pending)) : x = pending[i + 1]
      BY <1>1, <1>2 DEF Range
    <2>2. i + 1 \in 1..Len(pending) /\ i + 1 # 1 /\ 1 \in 1..Len(pending)
      BY <1>1, <2>1
    <2>3. pending[i + 1] # pending[1]
      BY <2>2, Zenon DEF HandlerTypes
    <2> QED
      BY <1>1, <2>1, <2>2, <2>3, Zenon DEF Range
  <1>3. ASSUME NEW x \in Range(pending) \ {Head(pending)} PROVE x \in Range(Tail(pending))
    <2>1. PICK i \in 1..Len(pending) : x = pending[i]
      BY <1>1, <1>3, Zenon DEF Range
    <2>2. i - 1 \in 1..Len(Tail(pending)) /\ (i - 1) + 1 = i
      BY <1>1, <1>3, <2>1
    <2>3. Tail(pending)[i - 1] = x
      BY <1>1, <2>1, <2>2, Zenon
    <2> QED
      BY <1>1, <2>2, <2>3, Zenon DEF Range
  <1>4. Head(pending) \in Range(pending)
    BY <1>1 DEF Range
  <1> QED
    BY <1>1, <1>2, <1>3, <1>4, Zenon

\* The loop of didFinishLaunching moves the handlers of pending messages to the
\* map, one by one.
LEMMA FlushStep ==
    ASSUME IInv, FlushSends \/ FlushSkips
    PROVE  IInv'
  <1> DEFINE m == Head(pending)
  <1>0. HandlerTypes /\ pending # <<>>
    BY Zenon DEF IInv, FlushSends, FlushSkips
  <1>1. /\ pending' \in Seq(Messages) /\ Len(pending) \in Nat \ {0} /\ Len(pending') = Len(pending) - 1
        /\ \A i \in 1..Len(pending') : pending'[i] = pending[i + 1]
        /\ Range(pending') = Range(pending) \ {m} /\ m \in Range(pending)
    BY <1>0, FirstPendingTaken, Zenon DEF FlushSends, FlushSkips
  <1>2. replyHandlers' = replyHandlers \cup ({m} \cap WantsReply)
    BY ProxyAssumption, Zenon DEF FlushSends, FlushSkips, HandlerOf, handlerVars
  <1>3. /\ clearing' = clearing /\ posted' = posted /\ calls' = calls /\ sent' = sent
    BY Zenon DEF FlushSends, FlushSkips, handlerVars, historyVars
  <1>4. LifetimeInv'
    <2>1. valid /\ object = "alive"
      BY Zenon DEF IInv, LifetimeInv, FlushSends, FlushSkips
    <2> QED
      BY <2>1, Zenon DEF IInv, LifetimeInv, FlushSends, FlushSkips, objectVars, handlerVars
  <1>5. HandlerTypes'
    <2>1. \A i \in 1..Len(pending') : i + 1 \in 1..Len(pending)
      BY <1>1
    <2>2. /\ \A i \in 1..Len(pending') : pending'[i] \in sent'
          /\ \A i, j \in 1..Len(pending') : pending'[i] = pending'[j] => i = j
      <3>1. \A i, j \in 1..Len(pending') : i + 1 = j + 1 => i = j
        OBVIOUS
      <3> QED
        BY <1>0, <1>1, <1>3, <2>1, <3>1, Zenon DEF HandlerTypes
    <2> QED
      BY <1>0, <1>1, <1>2, <1>3, <2>2, Zenon DEF HandlerTypes
  <1>6. EveryHandlerIsCalledOnce'
    <2> HIDE DEF m
    <2> SUFFICES ASSUME NEW n \in WantsReply
                 PROVE  Waiting(n)' + calls'[n] = One(n \in sent')
      BY Zenon DEF EveryHandlerIsCalledOnce
    <2>1. Waiting(n) + calls[n] = One(n \in sent) /\ calls[n] \in Nat
      BY <1>0, Zenon DEF IInv, HandlerTypes, EveryHandlerIsCalledOnce
    <2>2. n = m => n \notin replyHandlers
      BY <1>1, <2>1 DEF Waiting, One
    <2>3. Waiting(n)' = Waiting(n)
      BY <1>1, <1>2, <1>3, <2>2 DEF Waiting, One
    <2> QED
      BY <1>3, <2>1, <2>3, Zenon
  <1> QED
    BY <1>4, <1>5, <1>6, Zenon DEF IInv

\* The destructor of the proxy calls the handlers that are still pending.
LEMMA DestructStep ==
    ASSUME IInv, Destruct
    PROVE  IInv'
  <1>1. /\ calls' \in [WantsReply -> Nat]
        /\ \A m \in WantsReply : calls'[m] = calls[m] + One(m \in Range(pending))
    BY CallsCounted DEF IInv, Destruct, PendingHandlers, One
  <1>2. /\ pending' = <<>> /\ replyHandlers' = replyHandlers /\ clearing' = clearing
        /\ posted' = posted /\ sent' = sent
    BY Zenon DEF Destruct, historyVars
  <1>3. ~connection' /\ ~valid'
    BY Zenon DEF IInv, LifetimeInv, Destruct, Invalidate
  <1>4. LifetimeInv'
    BY <1>2, <1>3, Zenon DEF IInv, LifetimeInv, Destruct, ClientRuns
  <1>5. HandlerTypes'
    BY <1>1, <1>2 DEF IInv, HandlerTypes
  <1>6. EveryHandlerIsCalledOnce'
    <2> SUFFICES ASSUME NEW m \in WantsReply
                 PROVE  Waiting(m)' + calls'[m] = One(m \in sent)
      BY <1>2, Zenon DEF EveryHandlerIsCalledOnce
    <2>1. Waiting(m) + calls[m] = One(m \in sent) /\ calls[m] \in Nat
      BY Zenon DEF IInv, HandlerTypes, EveryHandlerIsCalledOnce
    <2>2. Waiting(m) \in Nat /\ Waiting(m)' \in Nat /\ One(m \in Range(pending)) \in Nat
      BY DEF Waiting, One
    <2>3. Waiting(m) = Waiting(m)' + One(m \in Range(pending))
      BY <1>2, NothingPending DEF Waiting, One
    <2>4. calls'[m] = calls[m] + One(m \in Range(pending))
      BY <1>1, Zenon
    <2> QED
      BY <2>1, <2>2, <2>3, <2>4
  <1> QED
    BY <1>4, <1>5, <1>6, Zenon DEF IInv

\* The other steps of client code move no handler.
LEMMA ClientCodeStep ==
    ASSUME IInv, ClientCode
    PROVE  IInv'
  <1>1. CASE Connect
    BY <1>1, HandlersUntouched, Zenon
    DEF Connect, IInv, LifetimeInv, objectVars, handlerVars, historyVars
  <1>2. ASSUME NEW m \in Messages, SendMessage(m) PROVE IInv'
    BY <1>2, SendMessageStep, Zenon
  <1>3. CASE ShutDownWhileLaunching
    BY <1>3, HandlersUntouched, Zenon
    DEF ShutDownWhileLaunching, IInv, LifetimeInv, objectVars, handlerVars, historyVars
  <1>4. CASE ShutDownWhileRunning
    <2>1. ~connection' /\ ~valid'
      BY <1>4, Zenon DEF ShutDownWhileRunning, Invalidate
    <2> QED
      BY <1>4, <2>1, HandlersUntouched, Zenon
      DEF ShutDownWhileRunning, ClientRuns, IInv, LifetimeInv, handlerVars, historyVars
  <1>5. CASE TerminateWhileLaunching
    BY <1>5, HandlersUntouched, Zenon
    DEF TerminateWhileLaunching, IInv, LifetimeInv, objectVars, handlerVars, historyVars
  <1>6. CASE Destruct
    BY <1>6, DestructStep, Zenon
  <1> QED
    BY <1>1, <1>2, <1>3, <1>4, <1>5, <1>6, Zenon DEF ClientCode

\* A handler that is called leaves the one place it was in.
LEMMA OneHandlerCalled ==
    ASSUME IInv, NEW m \in WantsReply,
           \A n \in WantsReply : calls'[n] = calls[n] + One(n \in {m}),
           pending' = pending, sent' = sent,
           \/ m \in posted /\ posted' = posted \ {m}
                /\ replyHandlers' = replyHandlers /\ clearing' = clearing
           \/ m \in replyHandlers /\ replyHandlers' = replyHandlers \ {m}
                /\ posted' = posted /\ clearing' = clearing
           \/ m \in clearing /\ clearing' = clearing \ {m}
                /\ posted' = posted /\ replyHandlers' = replyHandlers
    PROVE  EveryHandlerIsCalledOnce'
  <1> SUFFICES ASSUME NEW n \in WantsReply
               PROVE  Waiting(n)' + calls'[n] = One(n \in sent)
    BY Zenon DEF EveryHandlerIsCalledOnce, One
  <1>1. Waiting(n) + calls[n] = One(n \in sent) /\ calls[n] \in Nat
    BY Zenon DEF IInv, HandlerTypes, EveryHandlerIsCalledOnce
  <1>2. Waiting(n) \in Nat
    BY DEF Waiting, One
  <1>3. CASE n = m
    <2>1. Waiting(n)' = Waiting(n) - 1
      BY <1>3 DEF Waiting, One
    <2>2. calls'[n] = calls[n] + 1
      BY <1>3, Zenon DEF One
    <2> QED
      BY <1>1, <1>2, <2>1, <2>2
  <1>4. CASE n # m
    <2>1. Waiting(n)' = Waiting(n)
      BY <1>4, Zenon DEF Waiting, One
    <2>2. calls'[n] = calls[n]
      BY <1>1, <1>4 DEF One
    <2> QED
      BY <1>1, <2>1, <2>2, Zenon
  <1> QED
    BY <1>3, <1>4, Zenon

\* Functions of the main run loop that call one handler take it out of the
\* place they found it in.
LEMMA OneHandlerStep ==
    ASSUME IInv, NEW m \in WantsReply,
           RunPostedHandler(m) \/ DispatchReply(m) \/ ClearCallsHandler(m)
    PROVE  IInv'
  <1>1. CASE RunPostedHandler(m)
    <2>1. calls' \in [WantsReply -> Nat] /\ \A n \in WantsReply : calls'[n] = calls[n] + One(n \in {m})
      BY <1>1, CallsCounted, Zenon DEF IInv, RunPostedHandler
    <2>2. LifetimeInv'
      BY <1>1, Zenon DEF IInv, LifetimeInv, RunPostedHandler, proxyVars, objectVars
    <2>3. HandlerTypes'
      BY <1>1, <2>1 DEF IInv, HandlerTypes, RunPostedHandler, proxyVars, historyVars
    <2>4. EveryHandlerIsCalledOnce'
      <3>1. /\ pending' = pending /\ replyHandlers' = replyHandlers /\ clearing' = clearing
            /\ m \in posted /\ posted' = posted \ {m} /\ sent' = sent
        BY <1>1, Zenon DEF RunPostedHandler, proxyVars, historyVars
      <3> QED
        BY <2>1, <3>1, OneHandlerCalled, Zenon
    <2> QED
      BY <2>2, <2>3, <2>4, Zenon DEF IInv
  <1>2. CASE DispatchReply(m)
    <2>1. CASE valid /\ m \in replyHandlers
      <3>1. calls' \in [WantsReply -> Nat] /\ \A n \in WantsReply : calls'[n] = calls[n] + One(n \in {m})
        BY <1>2, <2>1, CallsCounted, Zenon DEF IInv, DispatchReply
      <3>2. LifetimeInv'
        BY <1>2, <2>1, Zenon DEF IInv, LifetimeInv, DispatchReply, proxyVars, objectVars
      <3>3. HandlerTypes'
        BY <1>2, <2>1, <3>1, Zenon DEF IInv, HandlerTypes, DispatchReply, proxyVars, historyVars
      <3>4. EveryHandlerIsCalledOnce'
        <4>1. /\ pending' = pending /\ clearing' = clearing /\ posted' = posted
              /\ m \in replyHandlers /\ replyHandlers' = replyHandlers \ {m} /\ sent' = sent
          BY <1>2, <2>1, Zenon DEF DispatchReply, proxyVars, historyVars
        <4> QED
          BY <3>1, <4>1, OneHandlerCalled, Zenon
      <3> QED
        BY <3>2, <3>3, <3>4, Zenon DEF IInv
    <2>2. CASE ~(valid /\ m \in replyHandlers)
      BY <1>2, <2>2, HandlersUntouched, Zenon
      DEF DispatchReply, IInv, LifetimeInv, proxyVars, objectVars, handlerVars, historyVars
    <2> QED
      BY <2>1, <2>2, Zenon
  <1>3. CASE ClearCallsHandler(m)
    <2>1. calls' \in [WantsReply -> Nat] /\ \A n \in WantsReply : calls'[n] = calls[n] + One(n \in {m})
      BY <1>3, CallsCounted, Zenon DEF IInv, ClearCallsHandler
    <2>2. LifetimeInv'
      BY <1>3, Zenon DEF IInv, LifetimeInv, ClearCallsHandler, proxyVars, objectVars
    <2>3. HandlerTypes'
      BY <1>3, <2>1 DEF IInv, HandlerTypes, ClearCallsHandler, proxyVars, historyVars
    <2>4. EveryHandlerIsCalledOnce'
      <3>1. /\ pending' = pending /\ replyHandlers' = replyHandlers /\ posted' = posted
            /\ m \in clearing /\ clearing' = clearing \ {m} /\ sent' = sent
        BY <1>3, Zenon DEF ClearCallsHandler, proxyVars, historyVars
      <3> QED
        BY <2>1, <3>1, OneHandlerCalled, Zenon
    <2> QED
      BY <2>2, <2>3, <2>4 DEF IInv
  <1> QED
    BY <1>1, <1>2, <1>3, Zenon

\* clearAsyncReplyHandlers, from connectionDidClose and from ~Connection, moves
\* every handler of the map to the ones it is going to call.
LEMMA ClearStarts ==
    ASSUME IInv, DidCloseEnds \/ DestroyConnection
    PROVE  IInv'
  <1>1. /\ clearing = {} /\ clearing' = replyHandlers /\ replyHandlers' = {}
        /\ pending' = pending /\ posted' = posted /\ calls' = calls /\ sent' = sent
    BY Zenon DEF IInv, LifetimeInv, DidCloseEnds, DestroyConnection, proxyVars, historyVars
  <1>2. HandlerTypes'
    BY <1>1, Zenon DEF IInv, HandlerTypes
  <1>3. EveryHandlerIsCalledOnce'
    BY <1>1 DEF IInv, HandlerTypes, EveryHandlerIsCalledOnce, Waiting, One
  <1>4. CASE DidCloseEnds
    <2>1. ~valid'
      BY <1>4, Zenon DEF IInv, LifetimeInv, DidCloseEnds, objectVars
    <2>2. connection' = connection \/ connection' = FALSE
      BY <1>4, Zenon DEF DidCloseEnds
    <2>3. connection' => connection
      BY <2>2, Zenon
    <2>4. LifetimeInv'
      BY <1>1, <1>4, <2>1, <2>3, Zenon DEF IInv, LifetimeInv, DidCloseEnds, objectVars
    <2> QED
      BY <1>2, <1>3, <2>4, Zenon DEF IInv
  <1>5. CASE DestroyConnection
    <2>1. process \notin {"none", "starting"}
      BY <1>5, Zenon DEF IInv, LifetimeInv, DestroyConnection
    <2>2. LifetimeInv'
      BY <1>1, <1>5, <2>1, Zenon DEF IInv, LifetimeInv, DestroyConnection, proxyVars
    <2> QED
      BY <1>2, <1>3, <2>2, Zenon DEF IInv
  <1> QED
    BY <1>4, <1>5, Zenon

\* The main run loop.
LEMMA MainRunLoopStep ==
    ASSUME IInv, MainRunLoop
    PROVE  IInv'
  <1>1. ASSUME NEW m \in WantsReply,
               RunPostedHandler(m) \/ DispatchReply(m) \/ ClearCallsHandler(m)
        PROVE  IInv'
    BY <1>1, OneHandlerStep, Zenon
  <1>2. CASE DidCloseStarts
    <2>1. ~valid'
      BY <1>2, Zenon DEF DidCloseStarts
    <2> QED
      BY <1>2, <2>1, HandlersUntouched, Zenon
      DEF DidCloseStarts, IInv, LifetimeInv, proxyVars, handlerVars, historyVars
  <1>3. CASE DidCloseEnds \/ DestroyConnection
    BY <1>3, ClearStarts, Zenon
  <1>4. CASE ClearReturns
    BY <1>4, HandlersUntouched, Zenon
    DEF ClearReturns, IInv, LifetimeInv, proxyVars, objectVars, handlerVars, historyVars
  <1>5. CASE FlushSends \/ FlushSkips
    BY <1>5, FlushStep, Zenon
  <1>6. CASE FlushReturns
    BY <1>6, HandlersUntouched, Zenon
    DEF FlushReturns, IInv, LifetimeInv, proxyVars, objectVars, handlerVars, historyVars
  <1> QED
    BY <1>1, <1>2, <1>3, <1>4, <1>5, <1>6, Zenon DEF MainRunLoop

\* The work queue and the process touch no handler.
LEMMA OtherStep ==
    ASSUME IInv, WorkQueue \/ Process
    PROVE  IInv'
  <1>1. ASSUME NEW m \in WantsReply, ReadReply(m) \/ ProcessReplies(m) PROVE IInv'
    BY <1>1, HandlersUntouched
    DEF ReadReply, ProcessReplies, IInv, LifetimeInv, proxyVars, objectVars, handlerVars, historyVars
  <1>2. CASE PlatformInvalidate \/ ConnectionDidClose
    BY <1>2, HandlersUntouched
    DEF PlatformInvalidate, ConnectionDidClose, IInv, LifetimeInv, proxyVars, handlerVars, historyVars
  <1>3. CASE DidFinishLaunching
    BY <1>3, HandlersUntouched, Zenon
    DEF DidFinishLaunching, IInv, LifetimeInv, handlerVars, historyVars
  <1>4. CASE LaunchComesToNothing
    BY <1>4, HandlersUntouched, Zenon
    DEF LaunchComesToNothing, IInv, LifetimeInv, objectVars, handlerVars, historyVars
  <1>5. CASE ProcessReceives \/ ProcessExits
    BY <1>5, HandlersUntouched
    DEF ProcessReceives, ProcessExits, IInv, LifetimeInv, proxyVars, objectVars, handlerVars,
        historyVars
  <1> QED
    BY <1>1, <1>2, <1>3, <1>4, <1>5, Zenon DEF WorkQueue, Process

\* The invariant is inductive.
LEMMA IInvStep == IInv /\ [Next]_vars => IInv'
  <1> SUFFICES ASSUME IInv, [Next]_vars PROVE IInv'
    BY Zenon
  <1>1. CASE Next
    BY <1>1, ClientCodeStep, MainRunLoopStep, OtherStep, Zenon DEF Next
  <1>2. CASE UNCHANGED vars
    BY <1>2, HandlersUntouched, Zenon
    DEF vars, proxyVars, objectVars, handlerVars, historyVars, IInv, LifetimeInv
  <1> QED
    BY <1>1, <1>2, Zenon

\* Every completion handler is in one place or has been called, once, whatever
\* the launch, the process, the connection and the proxy do.
THEOREM HandlersCalledOnce == Spec => []EveryHandlerIsCalledOnce
  <1>1. IInv => EveryHandlerIsCalledOnce
    BY Zenon DEF IInv
  <1> QED
    BY InitIInv, IInvStep, <1>1, PTL DEF Spec

\* A connection that its proxy has let go is invalid, and a connection that is
\* destroyed leaves no handlers in the map.
THEOREM ConnectionIsReleasedClean ==
    Spec => [](ReleasedConnectionIsInvalid /\ NoHandlersOfDestroyedConnection)
  <1>1. IInv => ReleasedConnectionIsInvalid /\ NoHandlersOfDestroyedConnection
    BY Zenon DEF IInv, LifetimeInv, ReleasedConnectionIsInvalid, NoHandlersOfDestroyedConnection
  <1> QED
    BY InitIInv, IInvStep, <1>1, PTL DEF Spec

------------------------------------------------------------------------------
(* Replies find their handlers. *)

\* Messages that the process has and is to reply to, and their replies.
Travelling == owed \cup replies \cup incoming

(***************************************************************************)
(* A message is in one place on its way to the process and back, and while *)
(* the connection is valid, a message on its way that wants a reply has    *)
(* its handler in the map.                                                 *)
(***************************************************************************)
WireInv ==
    /\ toProcess \in Seq(Messages \cup {ShutDown})
    /\ Travelling \subseteq WantsReply \cap sent
    /\ owed \cap replies = {} /\ owed \cap incoming = {} /\ replies \cap incoming = {}
    /\ process \in {"none", "starting"} => toProcess = <<>> /\ Travelling = {}
    /\ \A i \in 1..Len(toProcess) :
           toProcess[i] # ShutDown =>
               /\ toProcess[i] \in sent \ Travelling
               /\ \A j \in 1..Len(toProcess) : toProcess[j] = toProcess[i] => j = i
    /\ \A i \in 1..Len(pending) :
           /\ pending[i] \notin Travelling
           /\ \A j \in 1..Len(toProcess) : toProcess[j] # pending[i]
    /\ valid => /\ Travelling \subseteq replyHandlers
                /\ \A i \in 1..Len(toProcess) :
                       toProcess[i] \in WantsReply => toProcess[i] \in replyHandlers

\* Initially nothing is on its way.
LEMMA InitWireInv == Init => WireInv
  BY DEF Init, WireInv, Travelling

\* Steps that put nothing on its way and take no handler of a valid connection.
LEMMA WireUntouched ==
    ASSUME WireInv, UNCHANGED <<toProcess, owed, replies, incoming, pending>>,
           sent \subseteq sent',
           process' \in {"none", "starting"} => process \in {"none", "starting"},
           valid' => valid /\ replyHandlers \subseteq replyHandlers'
    PROVE  WireInv'
  <1>1. Travelling' = Travelling
    BY Zenon DEF Travelling
  <1> QED
    BY <1>1 DEF WireInv

\* Appending a message to those on their way to the process.
LEMMA AppendedMessage ==
    ASSUME NEW q \in Seq(Messages \cup {ShutDown}), NEW m \in Messages \cup {ShutDown}
    PROVE  /\ Append(q, m) \in Seq(Messages \cup {ShutDown})
           /\ Len(q) \in Nat /\ Len(Append(q, m)) = Len(q) + 1
           /\ \A i \in 1..Len(q) : Append(q, m)[i] = q[i]
           /\ Append(q, m)[Len(q) + 1] = m
           /\ \A i \in 1..Len(Append(q, m)) : i \in 1..Len(q) \/ i = Len(q) + 1
  OBVIOUS

\* Taking the first of them.
LEMMA FirstMessageTaken ==
    ASSUME NEW q \in Seq(Messages \cup {ShutDown}), q # <<>>
    PROVE  /\ Head(q) \in Messages \cup {ShutDown} /\ Head(q) = q[1]
           /\ Tail(q) \in Seq(Messages \cup {ShutDown})
           /\ Len(q) \in Nat \ {0} /\ Len(Tail(q)) = Len(q) - 1
           /\ \A i \in 1..Len(Tail(q)) : Tail(q)[i] = q[i + 1] /\ i + 1 \in 1..Len(q) /\ i + 1 # 1
  OBVIOUS

\* A message is sent on a valid connection that is not yet on its way, after its
\* handler is added (sendMessage, and the loop of didFinishLaunching).
LEMMA SendKeepsWire ==
    ASSUME WireInv, NEW m \in Messages, process \notin {"none", "starting"},
           toProcess' = Append(toProcess, m), UNCHANGED <<owed, replies, incoming, process, valid>>,
           replyHandlers' = replyHandlers \cup HandlerOf(m),
           m \notin Travelling, \A i \in 1..Len(toProcess) : toProcess[i] # m,
           sent \subseteq sent', m \in sent',
           \A i \in 1..Len(pending') : /\ \E j \in 1..Len(pending) : pending'[i] = pending[j]
                                       /\ pending'[i] # m
    PROVE  WireInv'
  <1>1. /\ toProcess' \in Seq(Messages \cup {ShutDown})
        /\ Len(toProcess) \in Nat /\ Len(toProcess') = Len(toProcess) + 1
        /\ \A i \in 1..Len(toProcess) : toProcess'[i] = toProcess[i]
        /\ toProcess'[Len(toProcess) + 1] = m
        /\ \A i \in 1..Len(toProcess') : i \in 1..Len(toProcess) \/ i = Len(toProcess) + 1
    BY AppendedMessage DEF WireInv
  <1>2. Travelling' = Travelling
    BY Zenon DEF Travelling
  <1>3. m # ShutDown
    BY ProxyAssumption, Zenon
  <1>4. \A i \in 1..Len(toProcess') :
            toProcess'[i] # ShutDown =>
                /\ toProcess'[i] \in sent' \ Travelling'
                /\ \A j \in 1..Len(toProcess') : toProcess'[j] = toProcess'[i] => j = i
    <2> SUFFICES ASSUME NEW i \in 1..Len(toProcess'), toProcess'[i] # ShutDown
                 PROVE  /\ toProcess'[i] \in sent' \ Travelling'
                        /\ \A j \in 1..Len(toProcess') : toProcess'[j] = toProcess'[i] => j = i
      BY Zenon
    <2>1. CASE i \in 1..Len(toProcess)
      <3>1. /\ toProcess[i] \in sent \ Travelling /\ toProcess'[i] = toProcess[i]
            /\ \A j \in 1..Len(toProcess) : toProcess[j] = toProcess[i] => j = i
        BY <1>1, <2>1, Zenon DEF WireInv
      <3> QED
        BY <1>1, <1>2, <2>1, <3>1, Zenon
    <2>2. CASE i = Len(toProcess) + 1
      BY <1>1, <1>2, <2>2, Zenon
    <2> QED
      BY <1>1, <2>1, <2>2, Zenon
  <1>5. \A i \in 1..Len(pending') :
            /\ pending'[i] \notin Travelling'
            /\ \A j \in 1..Len(toProcess') : toProcess'[j] # pending'[i]
    <2> SUFFICES ASSUME NEW i \in 1..Len(pending')
                 PROVE  /\ pending'[i] \notin Travelling'
                        /\ \A j \in 1..Len(toProcess') : toProcess'[j] # pending'[i]
      BY Zenon
    <2>1. /\ pending'[i] \notin Travelling /\ pending'[i] # m
          /\ \A j \in 1..Len(toProcess) : toProcess[j] # pending'[i]
      BY Zenon DEF WireInv
    <2> QED
      BY <1>1, <1>2, <2>1, Zenon
  <1>6. valid' => /\ Travelling' \subseteq replyHandlers'
                  /\ \A i \in 1..Len(toProcess') :
                         toProcess'[i] \in WantsReply => toProcess'[i] \in replyHandlers'
    BY <1>1, <1>2, Zenon DEF WireInv, HandlerOf
  <1> QED
    BY <1>1, <1>2, <1>4, <1>5, <1>6 DEF WireInv, Travelling

\* sendMessage.
LEMMA SendMessageKeepsWire ==
    ASSUME IInv, WireInv, NEW m \in Messages, SendMessage(m)
    PROVE  WireInv'
  <1>0. m \notin sent
    BY Zenon DEF SendMessage, SendWhileLaunching, SendWhileRunning, SendWhileTerminated
  <1>1. CASE SendWhileLaunching(m)
    <2>1. /\ UNCHANGED <<toProcess, owed, replies, incoming, process, valid, replyHandlers>>
          /\ sent' = sent \cup {m} /\ pending' = Stashed(m)
      BY <1>1, Zenon DEF SendWhileLaunching, wireVars, objectVars, handlerVars
    <2>2. /\ Len(pending) \in Nat /\ Len(pending') = Len(pending) + 1
          /\ \A i \in 1..Len(pending) : pending'[i] = pending[i]
          /\ pending'[Len(pending) + 1] = m
      BY <2>1, StashedMessages DEF IInv, HandlerTypes
    <2>3. \A i \in 1..Len(pending') : i \in 1..Len(pending) \/ i = Len(pending) + 1
      BY <2>2
    <2>4. Travelling' = Travelling /\ m \notin Travelling
      BY <1>0, <2>1, Zenon DEF Travelling, WireInv
    <2>5. \A i \in 1..Len(pending') :
              /\ pending'[i] \notin Travelling'
              /\ \A j \in 1..Len(toProcess') : toProcess'[j] # pending'[i]
      <3>1. \A j \in 1..Len(toProcess) : toProcess[j] # m
        BY <1>0, ProxyAssumption DEF WireInv
      <3>2. \A i \in 1..Len(pending) :
                pending[i] \notin Travelling /\ \A j \in 1..Len(toProcess) : toProcess[j] # pending[i]
        BY Zenon DEF WireInv
      <3>3. \A i \in 1..Len(pending') : pending'[i] = m \/ \E k \in 1..Len(pending) : pending'[i] = pending[k]
        BY <2>2, <2>3, Zenon
      <3>4. \A i \in 1..Len(pending') :
                pending'[i] \notin Travelling /\ \A j \in 1..Len(toProcess) : toProcess[j] # pending'[i]
        BY <2>4, <3>1, <3>2, <3>3, Zenon
      <3> QED
        BY <2>1, <2>4, <3>4, Zenon
    <2> QED
      BY <2>1, <2>4, <2>5 DEF WireInv, Travelling
  <1>2. CASE SendWhileRunning(m) /\ valid /\ socket
    <2>1. /\ toProcess' = Append(toProcess, m)
          /\ UNCHANGED <<owed, replies, incoming, process, valid, pending>>
          /\ replyHandlers' = replyHandlers \cup HandlerOf(m)
          /\ sent' = sent \cup {m}
      BY <1>2, Zenon DEF SendWhileRunning, proxyVars, objectVars
    <2>2. process \notin {"none", "starting"}
      BY <1>2, Zenon DEF IInv, LifetimeInv
    <2>3. /\ m \notin Travelling
          /\ \A i \in 1..Len(toProcess) : toProcess[i] # m
      BY <1>0, ProxyAssumption DEF WireInv
    <2>4. \A i \in 1..Len(pending) : pending[i] # m
      BY <1>0, Zenon DEF IInv, HandlerTypes
    <2> QED
      BY <2>1, <2>2, <2>3, <2>4, SendKeepsWire, Zenon
  <1>3. CASE SendWhileRunning(m) /\ ~(valid /\ socket)
    BY <1>3, WireUntouched, Zenon DEF SendWhileRunning, proxyVars, objectVars
  <1>4. CASE SendWhileTerminated(m)
    BY <1>4, WireUntouched, Zenon DEF SendWhileTerminated, proxyVars, objectVars, wireVars
  <1> QED
    BY <1>1, <1>2, <1>3, <1>4, Zenon DEF SendMessage

\* The loop of didFinishLaunching.
LEMMA FlushKeepsWire ==
    ASSUME IInv, WireInv, FlushSends \/ FlushSkips
    PROVE  WireInv'
  <1> DEFINE m == Head(pending)
  <1>1. HandlerTypes /\ pending # <<>> /\ pending' = Tail(pending)
    BY Zenon DEF IInv, FlushSends, FlushSkips
  <1>2. /\ m \in Messages /\ m = pending[1] /\ Len(pending) \in Nat \ {0}
        /\ Len(pending') = Len(pending) - 1
        /\ \A i \in 1..Len(pending') : pending'[i] = pending[i + 1]
    BY <1>1, FirstPendingTaken, Zenon
  <1>3. \A i \in 1..Len(pending') : i + 1 \in 1..Len(pending) /\ i + 1 # 1
    BY <1>2
  <1>4. 1 \in 1..Len(pending)
    BY <1>2
  <1>5. \A i \in 1..Len(pending') : /\ \E j \in 1..Len(pending) : pending'[i] = pending[j]
                                    /\ pending'[i] # m
    BY <1>1, <1>2, <1>3, <1>4 DEF HandlerTypes
  <1>6. /\ m \notin Travelling /\ m \in sent
        /\ \A i \in 1..Len(toProcess) : toProcess[i] # m
    BY <1>1, <1>2, <1>4 DEF WireInv, HandlerTypes
  <1> HIDE DEF m
  <1>7. CASE FlushSends /\ valid /\ socket
    <2>1. /\ toProcess' = Append(toProcess, m)
          /\ UNCHANGED <<owed, replies, incoming, process, valid, sent>>
          /\ replyHandlers' = replyHandlers \cup HandlerOf(m)
      BY <1>7, Zenon DEF FlushSends, objectVars, historyVars, m
    <2>2. process \notin {"none", "starting"}
      BY <1>7, Zenon DEF IInv, LifetimeInv
    <2> QED
      BY <1>2, <1>5, <1>6, <2>1, <2>2, SendKeepsWire, Zenon
  <1>8. CASE FlushSkips \/ ~(valid /\ socket)
    <2>1. /\ UNCHANGED <<toProcess, owed, replies, incoming, process, valid, sent>>
          /\ replyHandlers \subseteq replyHandlers'
      BY <1>8, Zenon DEF FlushSends, FlushSkips, objectVars, wireVars, handlerVars, historyVars
    <2>2. Travelling' = Travelling
      BY <2>1, Zenon DEF Travelling
    <2>3. \A i \in 1..Len(pending') :
              /\ pending'[i] \notin Travelling'
              /\ \A j \in 1..Len(toProcess') : toProcess'[j] # pending'[i]
      BY <1>5, <2>1, <2>2 DEF WireInv
    <2> QED
      BY <2>1, <2>2, <2>3 DEF WireInv
  <1> QED
    BY <1>7, <1>8, Zenon

\* The process takes the first message on its way to it.
LEMMA ReceiveKeepsWire ==
    ASSUME IInv, WireInv, ProcessReceives
    PROVE  WireInv'
  <1> DEFINE m == Head(toProcess)
  <1>1. /\ toProcess # <<>> /\ toProcess' = Tail(toProcess) /\ owed' = owed \cup HandlerOf(m)
        /\ process = "running" /\ process' \in {"running", "exited"}
        /\ UNCHANGED <<replies, incoming, pending, valid, replyHandlers, sent>>
    BY Zenon DEF ProcessReceives, proxyVars, objectVars, handlerVars
  <1>2. /\ m = toProcess[1] /\ toProcess' \in Seq(Messages \cup {ShutDown})
        /\ Len(toProcess) \in Nat \ {0}
        /\ \A i \in 1..Len(toProcess') : /\ toProcess'[i] = toProcess[i + 1]
                                         /\ i + 1 \in 1..Len(toProcess) /\ i + 1 # 1
    BY <1>1, FirstMessageTaken DEF WireInv
  <1>3. 1 \in 1..Len(toProcess)
    BY <1>2
  <1> HIDE DEF m
  <1>4. Travelling' = Travelling \cup HandlerOf(m)
    BY <1>1, Zenon DEF Travelling
  <1>5. m \in WantsReply => /\ m \in sent \ Travelling
                            /\ \A i \in 1..Len(toProcess') : toProcess'[i] # m
                            /\ \A i \in 1..Len(pending) : pending[i] # m
                            /\ valid => m \in replyHandlers
    BY <1>2, <1>3, ProxyAssumption DEF WireInv
  <1>6. \A i \in 1..Len(toProcess') :
            toProcess'[i] # ShutDown =>
                /\ toProcess'[i] \in sent' \ Travelling'
                /\ \A j \in 1..Len(toProcess') : toProcess'[j] = toProcess'[i] => j = i
    <2> SUFFICES ASSUME NEW i \in 1..Len(toProcess'), toProcess'[i] # ShutDown
                 PROVE  /\ toProcess'[i] \in sent \ (Travelling \cup HandlerOf(m))
                        /\ \A j \in 1..Len(toProcess') : toProcess'[j] = toProcess'[i] => j = i
      BY <1>1, <1>4, Zenon
    <2>1. /\ toProcess[i + 1] \in sent \ Travelling
          /\ \A j \in 1..Len(toProcess) : toProcess[j] = toProcess[i + 1] => j = i + 1
      BY <1>2, Zenon DEF WireInv
    <2>2. \A j \in 1..Len(toProcess') : j + 1 = i + 1 => j = i
      OBVIOUS
    <2>3. \A j \in 1..Len(toProcess') : toProcess'[j] = toProcess'[i] => j = i
      BY <1>2, <2>1, <2>2, Zenon
    <2>4. toProcess'[i] \notin HandlerOf(m)
      BY <1>5, Zenon DEF HandlerOf
    <2> QED
      BY <1>2, <2>1, <2>3, <2>4, Zenon
  <1>7. \A i \in 1..Len(pending') :
            /\ pending'[i] \notin Travelling'
            /\ \A j \in 1..Len(toProcess') : toProcess'[j] # pending'[i]
    BY <1>1, <1>2, <1>4, <1>5 DEF WireInv, HandlerOf
  <1>8. valid' => /\ Travelling' \subseteq replyHandlers'
                  /\ \A i \in 1..Len(toProcess') :
                         toProcess'[i] \in WantsReply => toProcess'[i] \in replyHandlers'
    BY <1>1, <1>2, <1>4, <1>5 DEF WireInv, HandlerOf
  <1>9. /\ Travelling' \subseteq WantsReply \cap sent'
        /\ owed' \cap replies' = {} /\ owed' \cap incoming' = {} /\ replies' \cap incoming' = {}
    BY <1>1, <1>4, <1>5 DEF WireInv, HandlerOf, Travelling
  <1> QED
    BY <1>1, <1>2, <1>6, <1>7, <1>8, <1>9, Zenon DEF WireInv

\* A reply goes from the process to the transport, to m_incomingMessages and to
\* its handler, or is lost.
LEMMA ReplyKeepsWire ==
    ASSUME IInv, WireInv, NEW m \in WantsReply,
           ProcessReplies(m) \/ ReadReply(m) \/ DispatchReply(m)
    PROVE  WireInv'
  <1>1. UNCHANGED <<toProcess, pending, process, valid, sent>>
    BY Zenon DEF ProcessReplies, ReadReply, DispatchReply, proxyVars, objectVars, historyVars
  <1>2. /\ Travelling' \subseteq Travelling /\ m \in Travelling
        /\ owed' \cap replies' = {} /\ owed' \cap incoming' = {} /\ replies' \cap incoming' = {}
    BY DEF ProcessReplies, ReadReply, DispatchReply, WireInv, Travelling
  <1>3. \/ replyHandlers' = replyHandlers
        \/ replyHandlers' = replyHandlers \ {m} /\ m \notin Travelling'
    BY Zenon DEF ProcessReplies, ReadReply, DispatchReply, WireInv, Travelling, handlerVars
  <1>4. m # ShutDown
    BY ProxyAssumption, Zenon
  <1>5. valid' => /\ Travelling' \subseteq replyHandlers'
                  /\ \A i \in 1..Len(toProcess') :
                         toProcess'[i] \in WantsReply => toProcess'[i] \in replyHandlers'
    BY <1>1, <1>2, <1>3, <1>4 DEF WireInv
  <1> QED
    BY <1>1, <1>2, <1>5 DEF WireInv

\* Every step keeps messages and replies in one place, and their handlers.
LEMMA WireInvStep == IInv /\ WireInv /\ [Next]_vars => WireInv'
  <1> SUFFICES ASSUME IInv, WireInv, [Next]_vars PROVE WireInv'
    BY Zenon
  <1>1. CASE \/ Connect \/ ShutDownWhileLaunching \/ TerminateWhileLaunching \/ FlushReturns
             \/ ClearReturns \/ PlatformInvalidate \/ ConnectionDidClose \/ LaunchComesToNothing
             \/ ProcessExits \/ UNCHANGED vars
    <2>1. UNCHANGED <<toProcess, owed, replies, incoming, pending, sent, valid, replyHandlers>>
      BY <1>1, Zenon DEF Connect, ShutDownWhileLaunching, TerminateWhileLaunching, FlushReturns,
         ClearReturns, PlatformInvalidate, ConnectionDidClose, LaunchComesToNothing, ProcessExits,
         vars, proxyVars, objectVars, handlerVars, wireVars, historyVars
    <2>2. process' \in {"none", "starting"} => process \in {"none", "starting"}
      BY <1>1, Zenon DEF Connect, ShutDownWhileLaunching, TerminateWhileLaunching, FlushReturns,
         ClearReturns, PlatformInvalidate, ConnectionDidClose, LaunchComesToNothing, ProcessExits,
         vars
    <2> QED
      BY <2>1, <2>2, WireUntouched, Zenon
  <1>2. ASSUME NEW m \in WantsReply, RunPostedHandler(m) \/ ClearCallsHandler(m) PROVE WireInv'
    BY <1>2, WireUntouched
    DEF RunPostedHandler, ClearCallsHandler, proxyVars, objectVars, wireVars, historyVars
  <1>3. CASE DidCloseStarts \/ DidCloseEnds \/ DestroyConnection
    <2>1. ~valid'
      BY <1>3, Zenon DEF DidCloseStarts, DidCloseEnds, DestroyConnection, IInv, LifetimeInv, objectVars
    <2> QED
      BY <1>3, <2>1, WireUntouched, Zenon
      DEF DidCloseStarts, DidCloseEnds, DestroyConnection, proxyVars, wireVars, historyVars
  <1>4. ASSUME NEW m \in Messages, SendMessage(m) PROVE WireInv'
    BY <1>4, SendMessageKeepsWire, Zenon
  <1>5. CASE FlushSends \/ FlushSkips
    BY <1>5, FlushKeepsWire, Zenon
  <1>6. CASE ProcessReceives
    BY <1>6, ReceiveKeepsWire, Zenon
  <1>7. ASSUME NEW m \in WantsReply, ProcessReplies(m) \/ ReadReply(m) \/ DispatchReply(m)
        PROVE  WireInv'
    BY <1>7, ReplyKeepsWire, Zenon
  <1>8. CASE ShutDownWhileRunning
    <2>1. ~valid'
      BY <1>8, Zenon DEF ShutDownWhileRunning, Invalidate
    <2>2. CASE toProcess' = toProcess
      BY <1>8, <2>1, <2>2, WireUntouched, Zenon DEF ShutDownWhileRunning, handlerVars, historyVars
    <2>3. CASE toProcess' = Append(toProcess, ShutDown)
      <3>1. /\ toProcess' \in Seq(Messages \cup {ShutDown})
            /\ \A i \in 1..Len(toProcess) : toProcess'[i] = toProcess[i]
            /\ toProcess'[Len(toProcess) + 1] = ShutDown
            /\ \A i \in 1..Len(toProcess') : i \in 1..Len(toProcess) \/ i = Len(toProcess) + 1
        BY <2>3, AppendedMessage DEF WireInv
      <3>2. UNCHANGED <<owed, replies, incoming, pending, process, sent>>
        BY <1>8, Zenon DEF ShutDownWhileRunning, historyVars
      <3>3. Travelling' = Travelling
        BY <3>2, Zenon DEF Travelling
      <3>4. process \notin {"none", "starting"}
        BY <1>8, Zenon DEF ShutDownWhileRunning, State, IInv, LifetimeInv
      <3>5. \A i \in 1..Len(pending) : pending[i] # ShutDown
        BY ProxyAssumption DEF IInv, HandlerTypes
      <3>6. \A i \in 1..Len(pending') :
                /\ pending'[i] \notin Travelling'
                /\ \A j \in 1..Len(toProcess') : toProcess'[j] # pending'[i]
        <4> SUFFICES ASSUME NEW i \in 1..Len(pending')
                     PROVE  /\ pending'[i] \notin Travelling'
                            /\ \A j \in 1..Len(toProcess') : toProcess'[j] # pending'[i]
          BY Zenon
        <4>1. i \in 1..Len(pending) /\ pending'[i] = pending[i]
          BY <3>2, Zenon
        <4>2. pending[i] \notin Travelling /\ \A j \in 1..Len(toProcess) : toProcess[j] # pending[i]
          BY <4>1, Zenon DEF WireInv
        <4> QED
          BY <3>1, <3>3, <3>5, <4>1, <4>2, Zenon
      <3>7. \A i \in 1..Len(toProcess') :
                toProcess'[i] # ShutDown =>
                    /\ toProcess'[i] \in sent' \ Travelling'
                    /\ \A j \in 1..Len(toProcess') : toProcess'[j] = toProcess'[i] => j = i
        <4> SUFFICES ASSUME NEW i \in 1..Len(toProcess'), toProcess'[i] # ShutDown
                     PROVE  /\ toProcess'[i] \in sent' \ Travelling'
                            /\ \A j \in 1..Len(toProcess') : toProcess'[j] = toProcess'[i] => j = i
          BY Zenon
        <4>1. i \in 1..Len(toProcess) /\ toProcess'[i] = toProcess[i]
          BY <3>1, Zenon
        <4>2. /\ toProcess[i] \in sent \ Travelling
              /\ \A j \in 1..Len(toProcess) : toProcess[j] = toProcess[i] => j = i
          BY <4>1, Zenon DEF WireInv
        <4> QED
          BY <3>1, <3>2, <3>3, <4>1, <4>2, Zenon
      <3> QED
        BY <2>1, <3>1, <3>2, <3>3, <3>4, <3>6, <3>7, Zenon DEF WireInv
    <2> QED
      BY <1>8, <2>2, <2>3, Zenon DEF ShutDownWhileRunning
  <1>9. CASE Destruct
    <2>1. /\ UNCHANGED <<toProcess, owed, replies, incoming, process, sent, replyHandlers>>
          /\ pending' = <<>> /\ (valid' => valid)
      BY <1>9, Zenon DEF Destruct, Invalidate, wireVars, historyVars
    <2>2. Travelling' = Travelling /\ Len(pending') = 0
      BY <2>1, Zenon DEF Travelling
    <2> QED
      BY <2>1, <2>2 DEF WireInv
  <1>10. CASE DidFinishLaunching
    <2>1. /\ UNCHANGED <<toProcess, owed, replies, incoming, pending, sent>>
          /\ process = "starting" /\ process' = "running"
      BY <1>10, Zenon DEF DidFinishLaunching, wireVars, historyVars
    <2>2. Travelling' = Travelling /\ Travelling = {} /\ toProcess = <<>>
      BY <2>1, Zenon DEF WireInv, Travelling
    <2> QED
      BY <2>1, <2>2 DEF WireInv
  <1> QED
    BY <1>1, <1>2, <1>3, <1>4, <1>5, <1>6, <1>7, <1>8, <1>9, <1>10, Zenon
    DEF Next, ClientCode, MainRunLoop, WorkQueue, Process

\* Whatever the order of launch, sends, closes and shutdowns, a reply that is
\* dispatched on a valid connection finds its handler in the map.
THEOREM RepliesHaveHandlers == Spec => []RepliesFindTheirHandler
  <1>1. WireInv => RepliesFindTheirHandler
    BY Zenon DEF WireInv, RepliesFindTheirHandler, Travelling
  <1> QED
    BY InitIInv, IInvStep, InitWireInv, WireInvStep, <1>1, PTL DEF Spec

-----------------------------------------------------------------------------
(* Messages arrive in order. *)

(***************************************************************************)
(* What the process received, what is on its way to it and what is still   *)
(* pending are, in this order, the accepted messages, except that messages *)
(* are lost once the connection is closed or invalidated.                  *)
(***************************************************************************)
OrderInv ==
    /\ accepted \in Seq(Messages) /\ received \in Seq(Messages \cup {ShutDown})
    /\ launcher = "launching" => process = "starting"
    /\ process = "none" => accepted = <<>> /\ pending = <<>>
    /\ process \in {"none", "starting"} => toProcess = <<>> /\ received = <<>>
    /\ launcher = "launching" => Len(accepted) = Len(pending)
    /\ mainThread = "flushing" =>
           Len(received) + Len(toProcess) + Len(pending) <= Len(accepted)
    /\ launcher = "launching" \/ mainThread = "flushing" =>
           \A i \in 1..Len(pending) : pending[i] = accepted[Len(accepted) - Len(pending) + i]
    /\ \A i \in 1..Len(received) :
           IF received[i] = ShutDown
           THEN i = Len(received) /\ ~valid /\ process = "exited"
           ELSE i <= Len(accepted) /\ received[i] = accepted[i]
    /\ \A i \in 1..Len(toProcess) :
           IF toProcess[i] = ShutDown
           THEN i = Len(toProcess) /\ ~valid
           ELSE Len(received) + i <= Len(accepted) /\ toProcess[i] = accepted[Len(received) + i]
    /\ valid /\ socket =>
           Len(received) + Len(toProcess) + (IF mainThread = "flushing" THEN Len(pending) ELSE 0)
               = Len(accepted)

\* Steps that neither accept, send nor receive a message, and open nothing.
LEMMA OrderUntouched ==
    ASSUME OrderInv, UNCHANGED <<accepted, pending, toProcess, received>>,
           launcher' = "launching" => launcher = "launching" /\ process' = process,
           process' \in {"none", "starting"} => process' = process,
           process = "exited" => process' = "exited",
           mainThread' = "flushing" <=> mainThread = "flushing",
           valid' => valid, socket' => socket
    PROVE  OrderInv'
  BY Zenon DEF OrderInv

\* The sequences are of messages, and have lengths.
LEMMA OrderLengths ==
    ASSUME IInv, WireInv, OrderInv
    PROVE  /\ accepted \in Seq(Messages) /\ Len(accepted) \in Nat
           /\ received \in Seq(Messages \cup {ShutDown}) /\ Len(received) \in Nat
           /\ toProcess \in Seq(Messages \cup {ShutDown}) /\ Len(toProcess) \in Nat
           /\ pending \in Seq(Messages) /\ Len(pending) \in Nat
  BY DEF IInv, HandlerTypes, WireInv, OrderInv

\* Accepting a message.
LEMMA AcceptedMessage ==
    ASSUME NEW q \in Seq(Messages), NEW m \in Messages
    PROVE  /\ Append(q, m) \in Seq(Messages)
           /\ Len(q) \in Nat /\ Len(Append(q, m)) = Len(q) + 1
           /\ \A i \in 1..Len(q) : Append(q, m)[i] = q[i]
           /\ Append(q, m)[Len(q) + 1] = m
           /\ \A i \in 1..Len(Append(q, m)) : i \in 1..Len(q) \/ i = Len(q) + 1
  OBVIOUS

\* sendMessage while the process is being launched.
LEMMA StashKeepsOrder ==
    ASSUME IInv, WireInv, OrderInv, NEW m \in Messages, SendWhileLaunching(m)
    PROVE  OrderInv'
  <1>1. /\ pending' = Append(pending, m) /\ accepted' = Append(accepted, m)
        /\ launcher = "launching" /\ mainThread # "flushing"
        /\ UNCHANGED <<launcher, process, received, toProcess, mainThread, valid, socket>>
    BY Zenon DEF SendWhileLaunching, Stashed, ClientRuns, State, wireVars, objectVars
  <1>2. process = "starting" /\ toProcess = <<>> /\ received = <<>> /\ Len(accepted) = Len(pending)
    BY <1>1, Zenon DEF OrderInv
  <1>3. /\ accepted' \in Seq(Messages) /\ Len(accepted') = Len(accepted) + 1 /\ Len(accepted) \in Nat
        /\ \A i \in 1..Len(accepted) : accepted'[i] = accepted[i]
        /\ accepted'[Len(accepted) + 1] = m
    BY <1>1, OrderLengths, AcceptedMessage
  <1>4. /\ Len(pending') = Len(pending) + 1 /\ Len(pending) \in Nat
        /\ \A i \in 1..Len(pending) : pending'[i] = pending[i]
        /\ pending'[Len(pending) + 1] = m
        /\ \A i \in 1..Len(pending') : i \in 1..Len(pending) \/ i = Len(pending) + 1
    BY <1>1, OrderLengths, AcceptedMessage
  <1>5. ~valid
    BY <1>2, Zenon DEF IInv, LifetimeInv
  <1>6. \A i \in 1..Len(pending) : pending[i] = accepted[i]
    BY <1>1, <1>2, <1>4 DEF OrderInv
  <1>7. \A i \in 1..Len(pending') : /\ pending'[i] = accepted'[i]
                                    /\ Len(accepted') - Len(pending') + i = i
    BY <1>2, <1>3, <1>4, <1>6
  <1>8. Len(toProcess') = 0 /\ Len(received') = 0 /\ received' \in Seq(Messages \cup {ShutDown})
    BY <1>1, <1>2
  <1> QED
    BY <1>1, <1>2, <1>3, <1>4, <1>5, <1>7, <1>8 DEF OrderInv

\* sendMessage with a connection.
LEMMA SendKeepsOrder ==
    ASSUME IInv, WireInv, OrderInv, NEW m \in Messages, SendWhileRunning(m)
    PROVE  OrderInv'
  <1>1. /\ mainThread # "flushing" /\ launcher # "launching" /\ connection
        /\ UNCHANGED <<launcher, process, received, pending, mainThread, valid, socket>>
        /\ accepted' = IF valid THEN Append(accepted, m) ELSE accepted
        /\ toProcess' = IF valid /\ socket THEN Append(toProcess, m) ELSE toProcess
    BY Zenon DEF SendWhileRunning, ClientRuns, State, proxyVars, objectVars
  <1>2. process \notin {"none", "starting"}
    BY <1>1, Zenon DEF IInv, LifetimeInv
  <1>3. CASE ~valid
    BY <1>1, <1>3, OrderUntouched, Zenon
  <1>4. CASE valid
    <2>1. /\ accepted' \in Seq(Messages) /\ Len(accepted') = Len(accepted) + 1
          /\ Len(accepted) \in Nat
          /\ \A i \in 1..Len(accepted) : accepted'[i] = accepted[i]
          /\ accepted'[Len(accepted) + 1] = m
      BY <1>1, <1>4, OrderLengths, AcceptedMessage
    <2>2. Len(received) \in Nat /\ Len(toProcess) \in Nat
      BY OrderLengths, Zenon
    <2>3. \A i \in 1..Len(received) :
              received[i] # ShutDown /\ i <= Len(accepted') /\ received[i] = accepted'[i]
      BY <1>4, <2>1, <2>2 DEF OrderInv
    <2>4. \A i \in 1..Len(toProcess) :
              /\ toProcess[i] # ShutDown
              /\ Len(received) + i <= Len(accepted) /\ Len(received) + i \in 1..Len(accepted)
              /\ toProcess[i] = accepted[Len(received) + i]
      BY <1>4, <2>1, <2>2 DEF OrderInv
    <2>5. CASE ~socket
      BY <1>1, <1>2, <1>4, <2>1, <2>2, <2>3, <2>4, <2>5 DEF OrderInv
    <2>6. CASE socket
      <3>1. /\ Len(toProcess') = Len(toProcess) + 1
            /\ \A i \in 1..Len(toProcess) : toProcess'[i] = toProcess[i]
            /\ toProcess'[Len(toProcess) + 1] = m
            /\ \A i \in 1..Len(toProcess') : i \in 1..Len(toProcess) \/ i = Len(toProcess) + 1
        BY <1>1, <1>4, <2>6, OrderLengths, AppendedMessage
      <3>2. Len(received) + Len(toProcess) = Len(accepted)
        BY <1>1, <1>4, <2>1, <2>2, <2>6 DEF OrderInv
      <3>3. m # ShutDown
        BY ProxyAssumption, Zenon
      <3>4. Len(received) + (Len(toProcess) + 1) = Len(accepted) + 1
        BY <2>1, <2>2, <3>2
      <3>5. \A i \in 1..Len(toProcess') :
                /\ toProcess'[i] # ShutDown /\ Len(received) + i <= Len(accepted')
                /\ toProcess'[i] = accepted'[Len(received) + i]
        <4> SUFFICES ASSUME NEW i \in 1..Len(toProcess')
                     PROVE  /\ toProcess'[i] # ShutDown /\ Len(received) + i <= Len(accepted')
                            /\ toProcess'[i] = accepted'[Len(received) + i]
          BY Zenon
        <4>1. CASE i \in 1..Len(toProcess)
          <5>1. toProcess'[i] = toProcess[i]
            BY <3>1, <4>1, Zenon
          <5>2. /\ toProcess[i] # ShutDown /\ Len(received) + i \in 1..Len(accepted)
                /\ toProcess[i] = accepted[Len(received) + i]
            BY <2>4, <4>1, Zenon
          <5>3. Len(received) + i <= Len(accepted')
            BY <2>1, <5>2
          <5> QED
            BY <2>1, <5>1, <5>2, <5>3, Zenon
        <4>2. CASE i = Len(toProcess) + 1
          BY <2>1, <2>2, <3>1, <3>3, <3>4, <4>2
        <4> QED
          BY <3>1, <4>1, <4>2, Zenon
      <3> QED
        <4>1. Len(received') + Len(toProcess') = Len(accepted')
          BY <1>1, <2>1, <3>1, <3>4, Zenon
        <4>2. /\ accepted' \in Seq(Messages) /\ received' \in Seq(Messages \cup {ShutDown})
              /\ launcher' # "launching" /\ mainThread' # "flushing"
              /\ process' \notin {"none", "starting"}
          BY <1>1, <1>2, <2>1, Zenon DEF OrderInv
        <4>3. \A i \in 1..Len(received') :
                  received'[i] # ShutDown /\ i <= Len(accepted') /\ received'[i] = accepted'[i]
          BY <1>1, <2>3, Zenon
        <4>4. \A i \in 1..Len(toProcess') :
                  /\ toProcess'[i] # ShutDown /\ Len(received') + i <= Len(accepted')
                  /\ toProcess'[i] = accepted'[Len(received') + i]
          BY <1>1, <3>5, Zenon
        <4>5. Len(received') + Len(toProcess') \in Nat
          BY <1>1, <2>2, <3>1
        <4> QED
          BY <4>1, <4>2, <4>3, <4>4, <4>5 DEF OrderInv
    <2> QED
      BY <2>5, <2>6, Zenon
  <1> QED
    BY <1>3, <1>4, Zenon

\* What is accepted, in two parts.
LEMMA ConcatenatedMessages ==
    ASSUME NEW q \in Seq(Messages), NEW t \in Seq(Messages)
    PROVE  /\ q \o t \in Seq(Messages) /\ Len(q \o t) = Len(q) + Len(t)
           /\ \A i \in 1..Len(q) : (q \o t)[i] = q[i]
           /\ \A i \in 1..Len(t) : (q \o t)[Len(q) + i] = t[i]
  OBVIOUS

\* The loop of didFinishLaunching.
LEMMA FlushKeepsOrder ==
    ASSUME IInv, WireInv, OrderInv, FlushSends \/ FlushSkips
    PROVE  OrderInv'
  <1> DEFINE m == Head(pending)
             n == Len(accepted) - Len(pending)
  <1>1. /\ pending # <<>> /\ pending' = Tail(pending) /\ mainThread = "flushing"
        /\ UNCHANGED <<launcher, process, received, mainThread, valid, socket>>
    BY Zenon DEF FlushSends, FlushSkips, objectVars, historyVars
  <1>2. /\ m \in Messages /\ m = pending[1] /\ Len(pending) \in Nat \ {0}
        /\ pending' \in Seq(Messages) /\ Len(pending') = Len(pending) - 1
        /\ \A i \in 1..Len(pending') : pending'[i] = pending[i + 1]
    BY <1>1, FirstPendingTaken, Zenon DEF IInv
  <1>3. valid /\ process \notin {"none", "starting"} /\ launcher # "launching"
    BY <1>1, Zenon DEF IInv, LifetimeInv, OrderInv
  <1>4. /\ accepted \in Seq(Messages) /\ Len(accepted) \in Nat
        /\ Len(received) \in Nat /\ Len(toProcess) \in Nat
        /\ received \in Seq(Messages \cup {ShutDown})
    BY OrderLengths, Zenon
  <1>5. /\ n \in Nat /\ Len(received) + Len(toProcess) <= n
        /\ \A i \in 1..Len(pending) : pending[i] = accepted[n + i]
    BY <1>1, <1>2, <1>4 DEF OrderInv
  <1>6. \A i \in 1..Len(received) : received[i] # ShutDown /\ i \in 1..n /\ received[i] = accepted[i]
    BY <1>3, <1>4, <1>5 DEF OrderInv
  <1>7. \A i \in 1..Len(toProcess) : /\ toProcess[i] # ShutDown /\ Len(received) + i \in 1..n
                                     /\ toProcess[i] = accepted[Len(received) + i]
    BY <1>3, <1>4, <1>5 DEF OrderInv
  <1>8. ASSUME socket PROVE Len(received) + Len(toProcess) = n
    <2>1. Len(received) + Len(toProcess) + Len(pending) = Len(accepted)
      BY <1>1, <1>3, <1>8, Zenon DEF OrderInv
    <2> QED
      BY <1>2, <1>4, <2>1
  <1>9. CASE FlushSends
    <2>1. /\ accepted' = accepted /\ toProcess' = IF socket THEN Append(toProcess, m) ELSE toProcess
      BY <1>3, <1>9, Zenon DEF FlushSends, historyVars
    <2> HIDE DEF m
    <2>2. \A i \in 1..Len(pending') : pending'[i] = accepted'[Len(accepted') - Len(pending') + i]
      <3> SUFFICES ASSUME NEW i \in 1..Len(pending')
                   PROVE  pending'[i] = accepted[Len(accepted) - Len(pending') + i]
        BY <2>1, Zenon
      <3>1. i + 1 \in 1..Len(pending) /\ n + (i + 1) = Len(accepted) - Len(pending') + i
        BY <1>2, <1>4
      <3> QED
        BY <1>2, <1>5, <3>1, Zenon
    <2>3. CASE ~socket
      <3>1. toProcess' = toProcess
        BY <2>1, <2>3, Zenon
      <3>2. Len(received) + Len(toProcess) + Len(pending') <= Len(accepted)
        BY <1>2, <1>4, <1>5
      <3> QED
        BY <1>1, <1>3, <1>4, <1>6, <1>7, <2>1, <2>2, <2>3, <3>1, <3>2 DEF OrderInv
    <2>4. CASE socket
      <3>1. /\ Len(toProcess') = Len(toProcess) + 1
            /\ \A i \in 1..Len(toProcess) : toProcess'[i] = toProcess[i]
            /\ toProcess'[Len(toProcess) + 1] = m
            /\ \A i \in 1..Len(toProcess') : i \in 1..Len(toProcess) \/ i = Len(toProcess) + 1
        BY <1>2, <2>1, <2>4, OrderLengths, AppendedMessage
      <3>2. Len(received) + Len(toProcess') + Len(pending') = Len(accepted)
        <4>1. Len(received) + Len(toProcess) = n
          BY <1>8, <2>4, Zenon
        <4>2. /\ Len(toProcess') = Len(toProcess) + 1 /\ Len(pending') = Len(pending) - 1
              /\ Len(pending) \in Nat /\ Len(accepted) \in Nat
              /\ Len(received) \in Nat /\ Len(toProcess) \in Nat
          BY <1>2, <1>4, <3>1, Zenon
        <4> QED
          BY <4>1, <4>2
      <3>3. m # ShutDown /\ m = accepted[n + 1] /\ n + 1 = Len(received) + (Len(toProcess) + 1)
        BY <1>2, <1>4, <1>5, <1>8, <2>4, ProxyAssumption
      <3>4. \A i \in 1..Len(toProcess') :
                /\ toProcess'[i] # ShutDown /\ Len(received) + i <= Len(accepted)
                /\ toProcess'[i] = accepted[Len(received) + i]
        <4> SUFFICES ASSUME NEW i \in 1..Len(toProcess')
                     PROVE  /\ toProcess'[i] # ShutDown /\ Len(received) + i <= Len(accepted)
                            /\ toProcess'[i] = accepted[Len(received) + i]
          BY Zenon
        <4>1. Len(received) + i <= Len(accepted)
          BY <1>2, <1>4, <3>1, <3>2
        <4>2. CASE i \in 1..Len(toProcess)
          BY <1>7, <3>1, <4>1, <4>2, Zenon
        <4>3. CASE i = Len(toProcess) + 1
          BY <3>1, <3>3, <4>1, <4>3, Zenon
        <4> QED
          BY <3>1, <4>2, <4>3, Zenon
      <3> QED
        <4>1. /\ accepted' \in Seq(Messages) /\ received' \in Seq(Messages \cup {ShutDown})
              /\ launcher' # "launching" /\ mainThread' = "flushing"
              /\ process' \notin {"none", "starting"}
          BY <1>1, <1>3, <1>4, <2>1, Zenon
        <4>2. \A i \in 1..Len(received') :
                  received'[i] # ShutDown /\ i <= Len(accepted') /\ received'[i] = accepted'[i]
          BY <1>1, <1>2, <1>4, <1>6, <2>1
        <4>3. \A i \in 1..Len(toProcess') :
                  /\ toProcess'[i] # ShutDown /\ Len(received') + i <= Len(accepted')
                  /\ toProcess'[i] = accepted'[Len(received') + i]
          BY <1>1, <2>1, <3>4, Zenon
        <4>4. /\ Len(received') + Len(toProcess') + Len(pending') = Len(accepted')
              /\ Len(accepted') \in Nat
          BY <1>1, <1>4, <2>1, <3>2, Zenon
        <4> QED
          BY <2>2, <4>1, <4>2, <4>3, <4>4 DEF OrderInv
    <2> QED
      BY <2>3, <2>4, Zenon
  <1>10. CASE FlushSkips
    <2>1. accepted' = SubSeq(accepted, 1, n) \o pending' /\ toProcess' = toProcess
      BY <1>1, <1>10, Zenon DEF FlushSkips, wireVars
    <2>2. /\ SubSeq(accepted, 1, n) \in Seq(Messages) /\ Len(SubSeq(accepted, 1, n)) = n
          /\ \A i \in 1..n : SubSeq(accepted, 1, n)[i] = accepted[i]
      BY <1>2, <1>4, <1>5
    <2> HIDE DEF m
    <2>3. /\ accepted' \in Seq(Messages) /\ Len(accepted') = n + Len(pending')
          /\ \A i \in 1..n : accepted'[i] = accepted[i]
          /\ \A i \in 1..Len(pending') : accepted'[n + i] = pending'[i]
      <3> DEFINE q == SubSeq(accepted, 1, n)
      <3>1. /\ q \in Seq(Messages) /\ Len(q) = n /\ \A i \in 1..n : q[i] = accepted[i]
            /\ accepted' = q \o pending'
        BY <2>1, <2>2, Zenon
      <3> HIDE DEF q
      <3>2. /\ accepted' \in Seq(Messages) /\ Len(accepted') = Len(q) + Len(pending')
            /\ \A i \in 1..Len(q) : accepted'[i] = q[i]
            /\ \A i \in 1..Len(pending') : accepted'[Len(q) + i] = pending'[i]
        BY <1>2, <3>1, ConcatenatedMessages, ZenonT(30)
      <3> QED
        BY <3>1, <3>2, Zenon
    <2>4. Len(accepted') - Len(pending') = n /\ Len(pending') \in Nat /\ n <= Len(accepted')
      BY <1>2, <1>5, <2>3
    <2> HIDE DEF n
    <2>5. \A i \in 1..Len(pending') : pending'[i] = accepted'[Len(accepted') - Len(pending') + i]
      BY <2>3, <2>4, Zenon
    <2>6. \A i \in 1..Len(received) :
              received[i] # ShutDown /\ i <= Len(accepted') /\ received[i] = accepted'[i]
      BY <1>5, <1>6, <2>3, <2>4
    <2>7. \A i \in 1..Len(toProcess) :
              /\ toProcess[i] # ShutDown /\ Len(received) + i <= Len(accepted')
              /\ toProcess[i] = accepted'[Len(received) + i]
      BY <1>4, <1>5, <1>7, <2>3, <2>4
    <2>8. /\ Len(received) + Len(toProcess) + Len(pending') <= Len(accepted')
          /\ socket => Len(received) + Len(toProcess) + Len(pending') = Len(accepted')
      <3>1. Len(received) + Len(toProcess) + Len(pending') <= Len(accepted')
        BY <1>4, <1>5, <2>3, <2>4
      <3>2. ASSUME socket PROVE Len(received) + Len(toProcess) + Len(pending') = Len(accepted')
        <4>1. Len(received) + Len(toProcess) = n
          BY <1>8, <3>2, Zenon
        <4> QED
          BY <2>3, <4>1, Zenon
      <3> QED
        BY <3>1, <3>2, Zenon
    <2> QED
      BY <1>1, <1>3, <1>4, <2>1, <2>3, <2>5, <2>6, <2>7, <2>8, ZenonT(30) DEF OrderInv
  <1> QED
    BY <1>9, <1>10, Zenon

\* The process receives the next message.
LEMMA ReceiveKeepsOrder ==
    ASSUME IInv, WireInv, OrderInv, ProcessReceives
    PROVE  OrderInv'
  <1> DEFINE m == Head(toProcess)
  <1>1. /\ toProcess # <<>> /\ toProcess' = Tail(toProcess) /\ received' = Append(received, m)
        /\ process = "running" /\ process' = IF m = ShutDown THEN "exited" ELSE "running"
        /\ UNCHANGED <<launcher, accepted, pending, mainThread, valid, socket>>
    BY Zenon DEF ProcessReceives, proxyVars, objectVars
  <1>2. /\ m \in Messages \cup {ShutDown} /\ m = toProcess[1]
        /\ Len(toProcess) \in Nat \ {0} /\ Len(toProcess') = Len(toProcess) - 1
        /\ \A i \in 1..Len(toProcess') : toProcess'[i] = toProcess[i + 1] /\ i + 1 \in 1..Len(toProcess)
    BY <1>1, OrderLengths, FirstMessageTaken, Zenon
  <1> HIDE DEF m
  <1>3. /\ received' \in Seq(Messages \cup {ShutDown})
        /\ Len(received) \in Nat /\ Len(received') = Len(received) + 1
        /\ \A i \in 1..Len(received) : received'[i] = received[i]
        /\ received'[Len(received) + 1] = m
        /\ \A i \in 1..Len(received') : i \in 1..Len(received) \/ i = Len(received) + 1
    BY <1>1, <1>2, OrderLengths, AppendedMessage
  <1>4. Len(accepted) \in Nat /\ Len(pending) \in Nat
    BY OrderLengths, Zenon
  <1>5. launcher # "launching"
    BY <1>1, Zenon DEF OrderInv
  <1>6. IF m = ShutDown THEN Len(toProcess) = 1 /\ ~valid
        ELSE Len(received) + 1 <= Len(accepted) /\ m = accepted[Len(received) + 1]
    <2>1. 1 \in 1..Len(toProcess)
      BY <1>2
    <2> QED
      BY <1>2, <2>1, Zenon DEF OrderInv
  <1>7. \A i \in 1..Len(received') :
            IF received'[i] = ShutDown
            THEN i = Len(received') /\ ~valid' /\ process' = "exited"
            ELSE i <= Len(accepted') /\ received'[i] = accepted'[i]
    <2> SUFFICES ASSUME NEW i \in 1..Len(received')
                 PROVE  IF received'[i] = ShutDown
                        THEN i = Len(received') /\ ~valid /\ process' = "exited"
                        ELSE i <= Len(accepted) /\ received'[i] = accepted[i]
      BY <1>1, Zenon
    <2>1. CASE i \in 1..Len(received)
      <3>1. received[i] # ShutDown /\ i <= Len(accepted) /\ received[i] = accepted[i]
        BY <1>1, <2>1, Zenon DEF OrderInv
      <3> QED
        BY <1>3, <2>1, <3>1, Zenon
    <2>2. CASE i = Len(received) + 1
      BY <1>1, <1>3, <1>6, <2>2, Zenon
    <2> QED
      BY <1>3, <2>1, <2>2, Zenon
  <1>8. \A i \in 1..Len(toProcess') :
            IF toProcess'[i] = ShutDown
            THEN i = Len(toProcess') /\ ~valid'
            ELSE Len(received') + i <= Len(accepted') /\ toProcess'[i] = accepted'[Len(received') + i]
    <2> SUFFICES ASSUME NEW i \in 1..Len(toProcess')
                 PROVE  IF toProcess'[i] = ShutDown
                        THEN i = Len(toProcess') /\ ~valid
                        ELSE Len(received') + i <= Len(accepted) /\ toProcess'[i] = accepted[Len(received') + i]
      BY <1>1, Zenon
    <2>1. toProcess'[i] = toProcess[i + 1] /\ i + 1 \in 1..Len(toProcess)
      BY <1>2, Zenon
    <2>2. IF toProcess[i + 1] = ShutDown
          THEN i + 1 = Len(toProcess) /\ ~valid
          ELSE /\ Len(received) + (i + 1) <= Len(accepted)
               /\ toProcess[i + 1] = accepted[Len(received) + (i + 1)]
      BY <2>1, Zenon DEF OrderInv
    <2>3. Len(received') + i = Len(received) + (i + 1) /\ (i + 1 = Len(toProcess) => i = Len(toProcess'))
      BY <1>2, <1>3
    <2> QED
      BY <2>1, <2>2, <2>3, Zenon
  <1>9. Len(received') + Len(toProcess') = Len(received) + Len(toProcess)
    BY <1>2, <1>3
  <1>10. ASSUME mainThread = "flushing"
         PROVE  Len(received') + Len(toProcess') + Len(pending) <= Len(accepted)
    <2>1. Len(received) + Len(toProcess) + Len(pending) <= Len(accepted)
      BY <1>10, Zenon DEF OrderInv
    <2> QED
      BY <1>9, <2>1, Zenon
  <1>11. ASSUME valid, socket
         PROVE  Len(received') + Len(toProcess')
                    + (IF mainThread = "flushing" THEN Len(pending) ELSE 0) = Len(accepted)
    <2>1. Len(received) + Len(toProcess)
              + (IF mainThread = "flushing" THEN Len(pending) ELSE 0) = Len(accepted)
      BY <1>11, Zenon DEF OrderInv
    <2> QED
      BY <1>9, <2>1, Zenon
  <1>12. mainThread = "flushing" =>
             \A i \in 1..Len(pending) : pending[i] = accepted[Len(accepted) - Len(pending) + i]
    BY Zenon DEF OrderInv
  <1>13. accepted \in Seq(Messages) /\ process' \notin {"none", "starting"}
    BY <1>1, OrderLengths, Zenon
  <1> QED
    BY <1>1, <1>3, <1>5, <1>7, <1>8, <1>10, <1>11, <1>12, <1>13, Zenon DEF OrderInv

\* Every step keeps the order.
LEMMA OrderInvStep == IInv /\ WireInv /\ OrderInv /\ [Next]_vars => OrderInv'
  <1> SUFFICES ASSUME IInv, WireInv, OrderInv, [Next]_vars PROVE OrderInv'
    BY Zenon
  <1>1. CASE Connect
    <2>1. /\ process = "none" /\ process' = "starting" /\ launcher' = "launching" /\ mainThread = "idle"
          /\ UNCHANGED <<accepted, pending, toProcess, received, mainThread, valid, socket>>
      BY <1>1, Zenon DEF Connect, objectVars, wireVars, historyVars
    <2>2. accepted = <<>> /\ pending = <<>> /\ toProcess = <<>> /\ received = <<>>
      BY <2>1, Zenon DEF OrderInv
    <2> QED
      BY <2>1, <2>2 DEF OrderInv
  <1>2. ASSUME NEW m \in Messages, SendMessage(m) PROVE OrderInv'
    <2>1. CASE SendWhileLaunching(m)
      BY <2>1, StashKeepsOrder, Zenon
    <2>2. CASE SendWhileRunning(m)
      BY <2>2, SendKeepsOrder
    <2>3. CASE SendWhileTerminated(m)
      BY <2>3, OrderUntouched, Zenon DEF SendWhileTerminated, proxyVars, objectVars, wireVars
    <2> QED
      BY <1>2, <2>1, <2>2, <2>3, Zenon DEF SendMessage
  <1>3. CASE ShutDownWhileLaunching \/ TerminateWhileLaunching \/ LaunchComesToNothing
    BY <1>3, OrderUntouched DEF ShutDownWhileLaunching, TerminateWhileLaunching,
       LaunchComesToNothing, objectVars, wireVars, historyVars
  <1>4. CASE PlatformInvalidate \/ ConnectionDidClose \/ ProcessExits \/ UNCHANGED vars
    <2>1. UNCHANGED <<accepted, pending, toProcess, received, launcher, mainThread, valid>>
      BY <1>4, Zenon DEF PlatformInvalidate, ConnectionDidClose, ProcessExits, vars, proxyVars, objectVars,
         wireVars, historyVars
    <2>2. process' \in {"none", "starting"} => process' = process
      BY <1>4, Zenon DEF PlatformInvalidate, ConnectionDidClose, ProcessExits, vars
    <2>3. /\ launcher = "launching" => process' = process
          /\ process = "exited" => process' = "exited"
      BY <1>4, Zenon DEF OrderInv, PlatformInvalidate, ConnectionDidClose, ProcessExits, vars
    <2>4. socket' => socket
      BY <1>4, Zenon DEF PlatformInvalidate, ConnectionDidClose, ProcessExits, vars, objectVars
    <2> QED
      BY <2>1, <2>2, <2>3, <2>4, OrderUntouched, Zenon
  <1>5. ASSUME NEW m \in WantsReply,
               \/ RunPostedHandler(m) \/ DispatchReply(m) \/ ClearCallsHandler(m)
               \/ ReadReply(m) \/ ProcessReplies(m)
        PROVE  OrderInv'
    <2>1. UNCHANGED <<accepted, pending, toProcess, received, launcher, process, mainThread, valid, socket>>
      BY <1>5, Zenon DEF RunPostedHandler, DispatchReply, ClearCallsHandler, ReadReply, ProcessReplies,
         proxyVars, objectVars, wireVars, historyVars
    <2> QED
      BY <2>1, OrderUntouched, Zenon
  <1>6. CASE DidCloseStarts \/ DidCloseEnds \/ DestroyConnection \/ ClearReturns
    <2>1. UNCHANGED <<accepted, pending, toProcess, received, launcher, process, socket>>
      BY <1>6, Zenon DEF DidCloseStarts, DidCloseEnds, DestroyConnection, ClearReturns,
         proxyVars, objectVars, wireVars, historyVars
    <2>2. mainThread # "flushing" /\ mainThread' # "flushing"
      BY <1>6, Zenon DEF DidCloseStarts, DidCloseEnds, DestroyConnection, ClearReturns
    <2>3. valid' => valid
      BY <1>6, Zenon DEF DidCloseStarts, DidCloseEnds, DestroyConnection, ClearReturns, objectVars
    <2> QED
      BY <2>1, <2>2, <2>3, OrderUntouched, Zenon
  <1>7. CASE FlushSends \/ FlushSkips
    BY <1>7, FlushKeepsOrder, Zenon
  <1>8. CASE FlushReturns
    <2>1. /\ mainThread' = "idle" /\ pending = <<>>
          /\ UNCHANGED <<accepted, pending, toProcess, received, launcher, process, valid, socket>>
      BY <1>8, Zenon DEF FlushReturns, proxyVars, objectVars, wireVars, historyVars
    <2>2. Len(pending) = 0 /\ Len(received) \in Nat /\ Len(toProcess) \in Nat
      BY <2>1, OrderLengths, Zenon
    <2>3. ASSUME valid, socket PROVE Len(received) + Len(toProcess) + 0 = Len(accepted)
      BY <1>8, <2>2, <2>3 DEF OrderInv, FlushReturns
    <2> QED
      BY <2>1, <2>3 DEF OrderInv
  <1>9. CASE ProcessReceives
    BY <1>9, ReceiveKeepsOrder, Zenon
  <1>10. CASE ShutDownWhileRunning
    <2>1. /\ ~valid' /\ mainThread # "flushing"
          /\ toProcess' = IF valid /\ socket THEN Append(toProcess, ShutDown) ELSE toProcess
          /\ UNCHANGED <<accepted, pending, received, launcher, process, mainThread, socket>>
      BY <1>10, Zenon DEF ShutDownWhileRunning, ClientRuns, Invalidate, historyVars
    <2>2. CASE ~(valid /\ socket)
      BY <2>1, <2>2, OrderUntouched, Zenon
    <2>3. CASE valid /\ socket
      <3>1. /\ Len(toProcess') = Len(toProcess) + 1
            /\ \A i \in 1..Len(toProcess) : toProcess'[i] = toProcess[i]
            /\ toProcess'[Len(toProcess) + 1] = ShutDown
            /\ \A i \in 1..Len(toProcess') : i \in 1..Len(toProcess) \/ i = Len(toProcess) + 1
        BY <2>1, <2>3, OrderLengths, AppendedMessage
      <3>2. process \notin {"none", "starting"} /\ launcher # "launching"
        BY <2>3, Zenon DEF IInv, LifetimeInv, OrderInv
      <3>3. \A i \in 1..Len(toProcess') :
                IF toProcess'[i] = ShutDown
                THEN i = Len(toProcess') /\ ~valid'
                ELSE Len(received) + i <= Len(accepted) /\ toProcess'[i] = accepted[Len(received) + i]
        BY <2>1, <2>3, <3>1 DEF OrderInv
      <3> QED
        BY <2>1, <3>2, <3>3, Zenon DEF OrderInv
    <2> QED
      BY <2>2, <2>3, Zenon
  <1>11. CASE Destruct
    <2>1. /\ pending' = <<>> /\ launcher' = "none" /\ mainThread # "flushing"
          /\ UNCHANGED <<accepted, toProcess, received, process, mainThread, socket>>
      BY <1>11, Zenon DEF Destruct, ClientRuns, wireVars, historyVars
    <2>2. valid' => valid
      BY <1>11, Zenon DEF Destruct, Invalidate
    <2> QED
      BY <2>1, <2>2, Zenon DEF OrderInv
  <1>12. CASE DidFinishLaunching
    <2>1. /\ launcher = "launching" /\ launcher' = "launched" /\ process' = "running"
          /\ process = "starting" /\ mainThread' = "flushing"
          /\ UNCHANGED <<accepted, pending, toProcess, received>>
      BY <1>12, Zenon DEF DidFinishLaunching, wireVars, historyVars
    <2>2. /\ toProcess = <<>> /\ received = <<>> /\ Len(accepted) = Len(pending)
          /\ \A i \in 1..Len(pending) : pending[i] = accepted[Len(accepted) - Len(pending) + i]
      BY <2>1, Zenon DEF OrderInv
    <2>3. Len(toProcess) = 0 /\ Len(received) = 0 /\ Len(pending) \in Nat /\ accepted \in Seq(Messages)
      BY <2>2, OrderLengths, Zenon
    <2> QED
      BY <2>1, <2>2, <2>3 DEF OrderInv
  <1> QED
    BY <1>1, <1>2, <1>3, <1>4, <1>5, <1>6, <1>7, <1>8, <1>9, <1>10, <1>11, <1>12, Zenon
    DEF Next, ClientCode, MainRunLoop, WorkQueue, Process

\* Messages reach the process in the order in which sendMessage accepted them
\* and without gaps, through the launch, the flush of what was pending, and
\* sends on the open connection.
THEOREM MessagesArriveAsSent == Spec => []MessagesArriveInOrder
  <1>1. Init => OrderInv
    BY DEF Init, OrderInv
  <1>2. OrderInv => MessagesArriveInOrder
    BY Zenon DEF OrderInv, MessagesArriveInOrder
  <1> QED
    BY InitIInv, IInvStep, InitWireInv, WireInvStep, OrderInvStep, <1>1, <1>2, PTL DEF Spec
=============================================================================
