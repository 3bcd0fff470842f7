--------------------------- MODULE WebSocket_proofs ---------------------------
(***************************************************************************)
(* Theorems about WebSocket, for both protocol classes and every number of  *)
(* messages.                                                                *)
(***************************************************************************)
EXTENDS WebSocket, TLAPS

-----------------------------------------------------------------------------
(* Type correctness                                                         *)

\* The transport only ever moves towards its end, and writing may pause it.
LEMMA ClosedType ==
    ASSUME transport \in {"open", "closing", "lost"}
    PROVE  /\ Closed(transport) \in {"closing", "lost"}
           /\ Closed(transport) = "lost" <=> transport = "lost"
  BY DEF Closed

\* The queue stays a queue of events whatever is put in it or taken from it.
LEMMA QueueType ==
    ASSUME queue \in Seq(Events)
    PROVE  /\ \A e \in Events : Put(e) => queue' \in Seq(Events)
           /\ queue # <<>> => Tail(queue) \in Seq(Events) /\ Head(queue) \in Events
  BY DEF Put

\* WsTypeOK with its Booleans one by one.
FlagsOK ==
    /\ pingTimeout \in BOOLEAN /\ listed \in BOOLEAN /\ told \in BOOLEAN
    /\ inFeed \in BOOLEAN /\ handshakeComplete \in BOOLEAN /\ closeSent \in BOOLEAN
    /\ disconnected \in BOOLEAN /\ responding \in BOOLEAN /\ pingTimer \in BOOLEAN
    /\ pongTimer \in BOOLEAN /\ pending \in BOOLEAN /\ readPaused \in BOOLEAN
    /\ writable \in BOOLEAN /\ gone \in BOOLEAN

OthersOK ==
    /\ impl \in Impls /\ transport \in {"open", "closing", "lost"}
    /\ conn \in {"connecting", "rejecting", "open", "closing", "closed"}
    /\ closeTimer \in {"none", "armed", "fired"}
    /\ queue \in Seq(Events) /\ messages \in 0 .. MaxMessages
    /\ task \in {"none", "running", "done"} /\ sending \in {"no", "waiting", "woken"}

\* The types in two parts, in this state
LEMMA TypeParts == WsTypeOK <=> FlagsOK /\ OthersOK
  BY DEF WsTypeOK, FlagsOK, OthersOK

\* and in the next.
LEMMA TypePartsNext == WsTypeOK' <=> FlagsOK' /\ OthersOK'
  BY DEF WsTypeOK, FlagsOK, OthersOK

\* The initial state is in the types,
LEMMA WsTypeInit == Init => WsTypeOK
  <1> SUFFICES ASSUME Init PROVE WsTypeOK
    OBVIOUS
  <1>1. FlagsOK
    BY Zenon DEF Init, FlagsOK
  <1>2. OthersOK
    <2>1. queue \in Seq(Events) /\ messages \in 0 .. MaxMessages
      BY WebSocketAssumption DEF Init
    <2> QED BY <2>1 DEF Init, OthersOK
  <1> QED BY <1>1, <1>2, TypeParts

\* and every step keeps the flags in theirs,
LEMMA FlagsStep == WsTypeOK /\ [Next]_vars => FlagsOK'
  <1> SUFFICES ASSUME FlagsOK, [Next]_vars PROVE FlagsOK'
    BY TypeParts
  <1>w. Write => writable' \in BOOLEAN
    BY DEF FlagsOK, Write
  <1> USE DEF FlagsOK, connVars, closeVars, aliveVars, appVars, StopKeepalive
  <1>1. CASE HandleConnect
    BY <1>w, <1>1 DEF HandleConnect
  <1>2. CASE RefuseHandshake
    BY <1>w, <1>2 DEF RefuseHandshake
  <1>3. CASE DataReceived
    BY <1>w, <1>3 DEF DataReceived
  <1>4. CASE FeedDone
    BY <1>w, <1>4 DEF FeedDone
  <1>5. CASE HandleMessage
    <2>1. readPaused' \in BOOLEAN
      BY <1>5 DEF HandleMessage
    <2> QED BY <1>5, <2>1 DEF HandleMessage
  <1>6. CASE HandleBadMessage
    BY <1>w, <1>6 DEF HandleBadMessage
  <1>7. CASE HandlePong
    BY <1>w, <1>7 DEF HandlePong
  <1>8. CASE HandleClose
    <2>1. writable' \in BOOLEAN /\ inFeed' \in BOOLEAN
      BY <1>w, <1>8 DEF HandleClose, PeerCloses
    <2> QED BY <1>8, <2>1 DEF HandleClose
  <1>9. CASE Receive
    BY <1>w, <1>9 DEF Receive
  <1>10. CASE SendWaits
    BY <1>w, <1>10 DEF SendWaits
  <1>11. CASE SendRaises
    BY <1>w, <1>11 DEF SendRaises, SendPasses, Unsent
  <1>12. CASE SendMessage
    BY <1>w, <1>12 DEF SendMessage, SendPasses, Unsent
  <1>13. ASSUME NEW m \in Messages, SansioHandshake(m) PROVE FlagsOK'
    BY <1>w, <1>13 DEF SansioHandshake, SendPasses, Unsent
  <1>14. ASSUME NEW m \in Messages, WsprotoHandshake(m) PROVE FlagsOK'
    <2>1. /\ writable' \in BOOLEAN /\ handshakeComplete' \in BOOLEAN
          /\ closeSent' \in BOOLEAN /\ responding' \in BOOLEAN
      BY <1>w, <1>14 DEF WsprotoHandshake, Unsent
    <2>2. pingTimer' \in BOOLEAN /\ UNCHANGED <<pongTimer, pending, readPaused>>
      BY <1>14 DEF WsprotoHandshake, Unsent
    <2> QED BY <1>14, <2>1, <2>2 DEF WsprotoHandshake, SendPasses
  <1>15. CASE SansioClose
    BY <1>w, <1>15 DEF SansioClose, SendPasses, Unsent
  <1>16. CASE WsprotoClose
    BY <1>w, <1>16 DEF WsprotoClose, SendPasses, Unsent
  <1>17. ASSUME NEW last \in BOOLEAN, SendBody(last) PROVE FlagsOK'
    BY <1>w, <1>17 DEF SendBody, SendPasses, Unsent
  <1>18. CASE AppEnds
    BY <1>w, <1>18 DEF AppEnds
  <1>19. CASE CloseTimeout
    BY <1>w, <1>19 DEF CloseTimeout
  <1>20. CASE TransportEnds
    BY <1>w, <1>20 DEF TransportEnds
  <1>21. CASE SendKeepalivePing
    <2>1. /\ writable' \in BOOLEAN /\ pending' \in BOOLEAN
          /\ pongTimer' \in BOOLEAN /\ pingTimer' \in BOOLEAN
      BY <1>w, <1>21 DEF SendKeepalivePing
    <2> QED BY <1>21, <2>1 DEF SendKeepalivePing
  <1>22. CASE KeepaliveTimeout
    BY <1>w, <1>22 DEF KeepaliveTimeout
  <1>23. CASE Shutdown
    BY <1>w, <1>23 DEF Shutdown
  <1>24. CASE ConnectionLost
    BY <1>w, <1>24 DEF ConnectionLost
  <1>25. CASE ResumeWriting
    BY <1>w, <1>25 DEF ResumeWriting
  <1>26. CASE UNCHANGED vars
    BY <1>w, <1>26 DEF vars
  <1> QED BY <1>1, <1>2, <1>3, <1>4, <1>5, <1>6, <1>7, <1>8, <1>9, <1>10, <1>11, <1>12,
             <1>13, <1>14, <1>15, <1>16, <1>17, <1>18, <1>19, <1>20, <1>21, <1>22, <1>23, <1>24, <1>25, <1>26
          DEF Next

\* the other variables in theirs,
LEMMA OthersStep == WsTypeOK /\ [Next]_vars => OthersOK'
  <1> SUFFICES ASSUME OthersOK, [Next]_vars PROVE OthersOK'
    BY TypeParts
  <1>q. /\ \A e \in Events : Put(e) => queue' \in Seq(Events)
        /\ queue # <<>> => Tail(queue) \in Seq(Events)
        /\ {"connect", "receive", "late", "disconnect"} \subseteq Events
    BY QueueType DEF OthersOK, Events
  <1> USE DEF OthersOK, connVars, closeVars, appVars, Closed
  <1>1. CASE HandleConnect \/ RefuseHandshake \/ DataReceived \/ FeedDone
    BY <1>q, <1>1 DEF HandleConnect, RefuseHandshake, DataReceived, FeedDone
  <1>2. CASE HandleMessage
    BY <1>q, <1>2, WebSocketAssumption DEF HandleMessage, MessageEvent
  <1>3. CASE HandleBadMessage
    BY <1>q, <1>3 DEF HandleBadMessage
  <1>4. CASE HandlePong \/ HandleClose
    BY <1>q, <1>4 DEF HandlePong, HandleClose, PeerCloses
  <1>5. CASE Receive \/ SendWaits
    BY <1>q, <1>5 DEF Receive, SendWaits
  <1>6. CASE SendRaises \/ SendMessage
    BY <1>6 DEF SendRaises, SendMessage, SendPasses, Unsent
  <1>7. ASSUME NEW m \in Messages, SansioHandshake(m) PROVE OthersOK'
    BY <1>q, <1>7 DEF SansioHandshake, SendPasses, Unsent
  <1>8. ASSUME NEW m \in Messages, WsprotoHandshake(m) PROVE OthersOK'
    BY <1>q, <1>8 DEF WsprotoHandshake, SendPasses, Unsent
  <1>9. CASE SansioClose \/ WsprotoClose
    BY <1>q, <1>9 DEF SansioClose, WsprotoClose, SendPasses
  <1>10. ASSUME NEW last \in BOOLEAN, SendBody(last) PROVE OthersOK'
    BY <1>q, <1>10 DEF SendBody, SendPasses
  <1>11. CASE AppEnds \/ CloseTimeout \/ TransportEnds
    BY <1>11 DEF AppEnds, CloseTimeout, TransportEnds
  <1>12. CASE SendKeepalivePing \/ KeepaliveTimeout
    BY <1>12 DEF SendKeepalivePing, KeepaliveTimeout
  <1>13. CASE Shutdown
    BY <1>q, <1>13 DEF Shutdown
  <1>14. CASE ConnectionLost \/ ResumeWriting
    BY <1>q, <1>14 DEF ConnectionLost, ResumeWriting, Wake
  <1>15. CASE UNCHANGED vars
    BY <1>15 DEF vars
  <1> QED BY <1>1, <1>2, <1>3, <1>4, <1>5, <1>6, <1>7, <1>8, <1>9, <1>10, <1>11, <1>12,
             <1>13, <1>14, <1>15 DEF Next

\* so all of them.
LEMMA WsTypeStep == WsTypeOK /\ [Next]_vars => WsTypeOK'
  BY FlagsStep, OthersStep, TypePartsNext

-----------------------------------------------------------------------------
(* The handshake's flags, the library's state and the transport             *)

\* Before the upgrade request nothing is open, queued or sent.
LEMMA HandshakeInit == Init => HandshakeInv /\ NothingAfterDisconnect
  BY DEF Init, HandshakeInv, NothingAfterDisconnect, ToSet

\* Every step keeps the handshake, the library and the transport together.
LEMMA HandshakeStep == WsTypeOK /\ HandshakeInv /\ [Next]_vars => HandshakeInv'
  <1> SUFFICES ASSUME WsTypeOK, HandshakeInv, [Next]_vars PROVE HandshakeInv'
    OBVIOUS
  <1>0. FlagsOK /\ OthersOK
    BY TypeParts
  <1> USE DEF HandshakeInv, FlagsOK, OthersOK, connVars, closeVars, aliveVars, appVars,
              Closed, Write
  <1>1. CASE HandleConnect
    BY <1>0, <1>1 DEF HandleConnect
  <1>2. CASE RefuseHandshake
    BY <1>0, <1>2 DEF RefuseHandshake
  <1>3. CASE DataReceived \/ FeedDone
    BY <1>0, <1>3 DEF DataReceived, FeedDone
  <1>4. CASE HandleMessage
    BY <1>0, <1>4 DEF HandleMessage, Parses
  <1>5. CASE HandleBadMessage
    BY <1>0, <1>5 DEF HandleBadMessage, Parses
  <1>6. CASE HandlePong
    BY <1>0, <1>6 DEF HandlePong, Parses
  <1>7. CASE HandleClose
    BY <1>0, <1>7 DEF HandleClose, PeerCloses, Parses
  <1>8. CASE Receive \/ SendWaits
    BY <1>0, <1>8 DEF Receive, SendWaits
  <1>9. CASE SendRaises \/ SendMessage
    BY <1>0, <1>9 DEF SendRaises, SendMessage, SendPasses, Unsent
  <1>10. ASSUME NEW m \in Messages, SansioHandshake(m) PROVE HandshakeInv'
    BY <1>0, <1>10 DEF SansioHandshake, SendPasses, Unsent
  <1>11. ASSUME NEW m \in Messages, WsprotoHandshake(m) PROVE HandshakeInv'
    BY <1>0, <1>11 DEF WsprotoHandshake, SendPasses, Unsent
  <1>12. CASE SansioClose
    BY <1>0, <1>12 DEF SansioClose, SendPasses
  <1>13. CASE WsprotoClose
    BY <1>0, <1>13 DEF WsprotoClose, SendPasses
  <1>14. ASSUME NEW last \in BOOLEAN, SendBody(last) PROVE HandshakeInv'
    BY <1>0, <1>14 DEF SendBody, SendPasses
  <1>15. CASE AppEnds
    BY <1>0, <1>15 DEF AppEnds, Answered
  <1>16. CASE CloseTimeout \/ TransportEnds
    BY <1>0, <1>16 DEF CloseTimeout, TransportEnds
  <1>17. CASE SendKeepalivePing
    BY <1>0, <1>17 DEF SendKeepalivePing
  <1>18. CASE KeepaliveTimeout
    BY <1>0, <1>18 DEF KeepaliveTimeout
  <1>19. CASE Shutdown
    BY <1>0, <1>19 DEF Shutdown, StopKeepalive
  <1>20. CASE ConnectionLost
    BY <1>0, <1>20 DEF ConnectionLost, StopKeepalive
  <1>21. CASE ResumeWriting
    BY <1>0, <1>21 DEF ResumeWriting, Wake
  <1>22. CASE UNCHANGED vars
    BY <1>0, <1>22 DEF vars
  <1> QED BY <1>1, <1>2, <1>3, <1>4, <1>5, <1>6, <1>7, <1>8, <1>9, <1>10, <1>11, <1>12,
             <1>13, <1>14, <1>15, <1>16, <1>17, <1>18, <1>19, <1>20, <1>21, <1>22
          DEF Next
-----------------------------------------------------------------------------
(* The queue                                                                *)

\* What comes behind a disconnect is a disconnect, or late.
Behind == {"disconnect", "late"}
Ordered(q) == \A i, j \in DOMAIN q : i < j /\ q[i] = "disconnect" => q[j] \in Behind

\* What asyncio.Queue does to an ordered queue.
LEMMA OrderedQueue ==
    ASSUME NEW q \in Seq(Events), Ordered(q)
    PROVE  /\ \A e \in Behind : Ordered(Append(q, e))
           /\ \A e \in Events : "disconnect" \notin ToSet(q) => Ordered(Append(q, e))
           /\ q # <<>> => /\ Ordered(Tail(q)) /\ ToSet(Tail(q)) \subseteq ToSet(q)
                          /\ Head(q) \in ToSet(q)
                          /\ Head(q) = "disconnect" => "receive" \notin ToSet(q)
           /\ \A e \in Events : ToSet(Append(q, e)) = ToSet(q) \cup {e}
  <1> USE DEF Ordered, Behind, ToSet
  <1>1. ASSUME NEW e \in Events
        PROVE  /\ DOMAIN Append(q, e) = 1 .. Len(q) + 1 /\ Append(q, e)[Len(q) + 1] = e
               /\ \A i \in 1 .. Len(q) : Append(q, e)[i] = q[i]
               /\ DOMAIN q = 1 .. Len(q) /\ Len(q) \in Nat
    OBVIOUS
  <1>2. Behind \subseteq Events
    BY DEF Events
  <1>3. ASSUME NEW e \in Behind PROVE Ordered(Append(q, e))
    <2> SUFFICES ASSUME NEW i \in 1 .. Len(q) + 1, NEW j \in 1 .. Len(q) + 1, i < j,
                        Append(q, e)[i] = "disconnect"
                 PROVE  Append(q, e)[j] \in Behind
      BY <1>1, <1>2
    <2>1. CASE j = Len(q) + 1
      BY <1>1, <1>2, <2>1
    <2>2. CASE j # Len(q) + 1
      <3>1. i \in 1 .. Len(q) /\ j \in 1 .. Len(q)
        BY <1>1, <1>2, <2>2
      <3> QED BY <1>1, <1>2, <3>1
    <2> QED BY <2>1, <2>2
  <1>4. ASSUME NEW e \in Events, "disconnect" \notin ToSet(q) PROVE Ordered(Append(q, e))
    <2> SUFFICES ASSUME NEW i \in 1 .. Len(q) + 1, NEW j \in 1 .. Len(q) + 1, i < j,
                        Append(q, e)[i] = "disconnect"
                 PROVE  FALSE
      BY <1>1
    <2>1. i \in 1 .. Len(q) /\ q[i] = "disconnect"
      BY <1>1
    <2> QED BY <1>1, <1>4, <2>1
  <1>5. ASSUME q # <<>>
        PROVE  /\ Ordered(Tail(q)) /\ ToSet(Tail(q)) \subseteq ToSet(q)
               /\ Head(q) \in ToSet(q)
               /\ Head(q) = "disconnect" => "receive" \notin ToSet(q)
    <2>1. /\ Len(q) \in Nat \ {0} /\ DOMAIN q = 1 .. Len(q) /\ Head(q) = q[1]
          /\ DOMAIN Tail(q) = 1 .. Len(q) - 1
          /\ \A i \in 1 .. Len(q) - 1 : Tail(q)[i] = q[i + 1]
      BY <1>5
    <2>2. \A i \in 1 .. Len(q) - 1 : i + 1 \in 1 .. Len(q)
      BY <2>1
    <2>3. Ordered(Tail(q))
      <3> SUFFICES ASSUME NEW i \in 1 .. Len(q) - 1, NEW j \in 1 .. Len(q) - 1, i < j,
                          Tail(q)[i] = "disconnect"
                   PROVE  Tail(q)[j] \in Behind
        BY <2>1
      <3>1. i + 1 \in DOMAIN q /\ j + 1 \in DOMAIN q /\ i + 1 < j + 1
        BY <2>1, <2>2
      <3> QED BY <2>1, <3>1
    <2>4. ToSet(Tail(q)) \subseteq ToSet(q) /\ Head(q) \in ToSet(q)
      BY <2>1, <2>2
    <2>5. ASSUME Head(q) = "disconnect", NEW j \in DOMAIN q PROVE q[j] \in Behind
      BY <2>1, <2>5
    <2> QED BY <2>3, <2>4, <2>5
  <1>6. ASSUME NEW e \in Events PROVE ToSet(Append(q, e)) = ToSet(q) \cup {e}
    <2>1. Len(q) + 1 \in 1 .. Len(q) + 1 /\ \A i \in 1 .. Len(q) : i \in 1 .. Len(q) + 1
      BY <1>1
    <2>2. \A i \in 1 .. Len(q) + 1 : i = Len(q) + 1 \/ i \in 1 .. Len(q)
      BY <1>1
    <2> QED BY <1>1, <2>1, <2>2
  <1> QED BY <1>3, <1>4, <1>5, <1>6

\* The queue's own part of what is to be kept.
QueueInv ==
    /\ Ordered(queue) /\ NothingAfterDisconnect
    /\ gone => "receive" \notin ToSet(queue)

\* A disconnect may be put in the queue when nothing more is read.
LEMMA PutDisconnect ==
    ASSUME WsTypeOK, QueueInv, Put("disconnect"), UNCHANGED gone,
           \/ closeSent' \/ (~inFeed' /\ transport' # "open")
           \/ handshakeComplete' /\ conn' \notin {"open", "closing"}
    PROVE  QueueInv'
  <1>1. /\ queue \in Seq(Events) /\ "disconnect" \in Events \cap Behind
        /\ queue' = Append(queue, "disconnect")
    BY DEF WsTypeOK, Put, Events, Behind
  <1>2. Ordered(queue') /\ ToSet(queue') = ToSet(queue) \cup {"disconnect"}
    BY <1>1, OrderedQueue DEF QueueInv
  <1> QED BY <1>2 DEF QueueInv, NothingAfterDisconnect

\* The queue stays, and so does the reason why nothing more is read.
LEMMA QueueStays ==
    ASSUME QueueInv, UNCHANGED <<queue, gone>>,
           closeSent => closeSent', ~inFeed /\ transport # "open" => ~inFeed' /\ transport' # "open",
           handshakeComplete /\ conn \notin {"open", "closing"} =>
               \/ closeSent' \/ (~inFeed' /\ transport' # "open")
               \/ handshakeComplete' /\ conn' \notin {"open", "closing"}
    PROVE  QueueInv'
  BY DEF QueueInv, NothingAfterDisconnect

\* Every step queues nothing behind a disconnect, and gives it last.
LEMMA QueueStep ==
    WsTypeOK /\ HandshakeInv /\ QueueInv /\ [Next]_vars => QueueInv'
  <1> SUFFICES ASSUME WsTypeOK, HandshakeInv, QueueInv, [Next]_vars PROVE QueueInv'
    OBVIOUS
  <1>0. FlagsOK /\ OthersOK
    BY TypeParts
  <1> USE DEF FlagsOK, OthersOK, connVars, closeVars, appVars, Closed
  <1>1. CASE HandleConnect
    <2>1. queue' = <<"connect">> /\ ~gone' /\ queue = <<>>
      BY <1>0, <1>1 DEF HandleConnect, HandshakeInv, Put
    <2> QED BY <2>1 DEF QueueInv, NothingAfterDisconnect, Ordered, ToSet
  <1>2. CASE RefuseHandshake
    <2>1. queue' = <<>> /\ ~gone'
      BY <1>0, <1>2 DEF RefuseHandshake, HandshakeInv
    <2> QED BY <2>1 DEF QueueInv, NothingAfterDisconnect, Ordered, ToSet
  <1>3. CASE DataReceived \/ FeedDone
    BY <1>0, <1>3, QueueStays DEF DataReceived, FeedDone
  <1>4. CASE HandleMessage
    <2>1. CASE closeSent /\ UNCHANGED <<queue, readPaused>>
      BY <1>0, <1>4, <2>1, QueueStays DEF HandleMessage
    <2>2. CASE ~closeSent /\ Put("receive") /\ conn # "closed"
      <3>1. "disconnect" \notin ToSet(queue) /\ ~gone
        BY <1>0, <1>4, <2>2 DEF HandleMessage, Parses, QueueInv, NothingAfterDisconnect
      <3>2. queue' = Append(queue, "receive") /\ "receive" \in Events /\ ~gone'
        BY <1>0, <1>4, <2>2, <3>1 DEF HandleMessage, Put, Events
      <3>3. Ordered(queue') /\ ToSet(queue') = ToSet(queue) \cup {"receive"}
        BY <1>0, <3>1, <3>2, OrderedQueue DEF QueueInv
      <3> QED BY <3>1, <3>2, <3>3 DEF QueueInv, NothingAfterDisconnect
    <2>3. CASE ~closeSent /\ Put("late") /\ conn = "closed"
      <3>1. /\ queue' = Append(queue, "late") /\ "late" \in Events \cap Behind
            /\ UNCHANGED <<gone, conn, handshakeComplete, transport>>
        BY <1>4, <2>3 DEF HandleMessage, Put, Events, Behind
      <3>2. Ordered(queue') /\ ToSet(queue') = ToSet(queue) \cup {"late"}
        BY <1>0, <3>1, OrderedQueue DEF QueueInv
      <3> QED BY <1>0, <1>4, <2>3, <3>1, <3>2
              DEF HandleMessage, QueueInv, NothingAfterDisconnect
    <2> QED BY <1>4, <2>1, <2>2, <2>3 DEF HandleMessage, MessageEvent
  <1>5. CASE HandleBadMessage
    BY <1>5, PutDisconnect DEF HandleBadMessage
  <1>6. CASE HandlePong
    BY <1>6, QueueStays DEF HandlePong
  <1>7. CASE HandleClose
    <2>1. CASE closeSent
      <3>1. closeSent' /\ inFeed /\ UNCHANGED <<queue, gone>>
        BY <1>7, <2>1 DEF HandleClose, Parses
      <3> QED BY <2>1, <3>1, QueueStays
    <2>2. CASE ~closeSent
      <3>1. /\ Put("disconnect") /\ transport' # "open"
            /\ UNCHANGED <<gone, handshakeComplete>>
            /\ ~inFeed' \/ conn' = "closed"
        BY <1>0, <1>7, <2>2 DEF HandleClose, PeerCloses
      <3>2. handshakeComplete
        BY <1>0, <1>7, <2>2 DEF HandleClose, Parses, HandshakeInv
      <3> QED BY <3>1, <3>2, PutDisconnect
    <2> QED BY <2>1, <2>2
  <1>8. CASE Receive
    <2>1. /\ queue # <<>> /\ queue' = Tail(queue) /\ queue \in Seq(Events)
          /\ gone' = (gone \/ Head(queue) = "disconnect")
          /\ UNCHANGED <<closeSent, inFeed, transport, handshakeComplete, conn>>
      BY <1>0, <1>8 DEF Receive
    <2>2. /\ Ordered(queue') /\ ToSet(queue') \subseteq ToSet(queue)
          /\ Head(queue) \in ToSet(queue)
          /\ Head(queue) = "disconnect" => "receive" \notin ToSet(queue)
      BY <2>1, OrderedQueue DEF QueueInv
    <2>3. gone' => "receive" \notin ToSet(queue')
      BY <2>1, <2>2 DEF QueueInv
    <2>4. gone' \/ "disconnect" \in ToSet(queue') => gone \/ "disconnect" \in ToSet(queue)
      BY <2>1, <2>2
    <2> QED BY <2>1, <2>2, <2>3, <2>4 DEF QueueInv, NothingAfterDisconnect
  <1>9. CASE SendWaits
    BY <1>9, QueueStays DEF SendWaits
  <1>10. CASE SendRaises \/ SendMessage
    BY <1>10, QueueStays DEF SendRaises, SendMessage, SendPasses, Unsent
  <1>11. ASSUME NEW m \in Messages, SansioHandshake(m) \/ WsprotoHandshake(m) PROVE QueueInv'
    <2>1. ~handshakeComplete /\ UNCHANGED <<gone, inFeed>> /\ ~inFeed
      BY <1>11 DEF SansioHandshake, WsprotoHandshake, SendPasses
    <2>2. CASE m = "close"
      <3>1. Put("disconnect") /\ closeSent'
        BY <1>11, <2>2 DEF SansioHandshake, WsprotoHandshake
      <3> QED BY <2>1, <3>1, PutDisconnect
    <2>3. CASE m # "close"
      <3>1. /\ UNCHANGED <<queue, closeSent, transport>>
        BY <1>11, <2>3 DEF SansioHandshake, WsprotoHandshake, Unsent
      <3> QED BY <1>0, <2>1, <3>1, QueueStays
    <2> QED BY <2>2, <2>3
  <1>12. CASE SansioClose
    <2>1. CASE transport = "open"
      BY <1>12, <2>1, PutDisconnect DEF SansioClose, SendPasses
    <2>2. CASE transport # "open"
      BY <1>12, <2>2, QueueStays DEF SansioClose, SendPasses
    <2> QED BY <2>1, <2>2
  <1>13. CASE WsprotoClose
    BY <1>13, PutDisconnect DEF WsprotoClose, SendPasses
  <1>14. CASE SendBody(TRUE)
    BY <1>14, PutDisconnect DEF SendBody, SendPasses
  <1>15. CASE SendBody(FALSE)
    BY <1>15, QueueStays DEF SendBody, SendPasses
  <1>16. CASE AppEnds
    BY <1>0, <1>16, QueueStays DEF AppEnds
  <1>17. CASE CloseTimeout \/ TransportEnds
    BY <1>0, <1>17, QueueStays DEF CloseTimeout, TransportEnds
  <1>18. CASE SendKeepalivePing
    BY <1>18, QueueStays DEF SendKeepalivePing
  <1>19. CASE KeepaliveTimeout
    BY <1>0, <1>19, QueueStays DEF KeepaliveTimeout
  <1>20. CASE Shutdown
    <2>1. CASE closeSent
      BY <1>0, <1>20, <2>1, QueueStays DEF Shutdown
    <2>2. CASE ~closeSent /\ handshakeComplete
      <3>1. /\ Put("disconnect") /\ UNCHANGED <<gone, inFeed, handshakeComplete>> /\ ~inFeed
            /\ IF conn = "open" THEN transport' # "open" ELSE UNCHANGED <<conn, transport>>
        BY <1>0, <1>20, <2>2 DEF Shutdown
      <3>2. conn = "closing" => transport # "open"
        BY <2>2 DEF HandshakeInv
      <3> QED BY <1>0, <2>2, <3>1, <3>2, PutDisconnect
    <2>3. CASE ~closeSent /\ ~handshakeComplete
      BY <1>0, <1>20, <2>3, QueueStays DEF Shutdown
    <2> QED BY <2>1, <2>2, <2>3
  <1>21. CASE ConnectionLost
    BY <1>21, PutDisconnect DEF ConnectionLost
  <1>22. CASE ResumeWriting
    BY <1>22, QueueStays DEF ResumeWriting
  <1>23. CASE UNCHANGED vars
    BY <1>23, QueueStays DEF vars
  <1> QED BY <1>1, <1>2, <1>3, <1>4, <1>5, <1>6, <1>7, <1>8, <1>9, <1>10, <1>11, <1>12,
             <1>13, <1>14, <1>15, <1>16, <1>17, <1>18, <1>19, <1>20, <1>21, <1>22, <1>23
          DEF Next
-----------------------------------------------------------------------------
(* Who holds the connection up                                              *)

\* The queue's part: what pauses reading is still to be taken.
LEMMA PauseStep ==
    WsTypeOK /\ HandshakeInv /\ NoLostWakeup /\ [Next]_vars =>
        (readPaused /\ transport = "open" /\ task = "running" =>
            queue # <<>> /\ ~closeSent)'
  <1> DEFINE P == readPaused /\ transport = "open" /\ task = "running" =>
                      queue # <<>> /\ ~closeSent
  <1> SUFFICES ASSUME WsTypeOK, HandshakeInv, P, [Next]_vars PROVE P'
    BY DEF NoLostWakeup
  <1>0. FlagsOK /\ OthersOK
    BY TypeParts
  <1>q. \A e \in Events : Put(e) => queue' # <<>>
    <2> SUFFICES ASSUME NEW e \in Events, Put(e), queue' = <<>> PROVE FALSE
      OBVIOUS
    <2>1. queue \in Seq(Events) /\ queue' = Append(queue, e)
      BY <1>0 DEF Put, OthersOK
    <2>2. Len(Append(queue, e)) = Len(queue) + 1 /\ Len(queue) \in Nat
      BY <2>1
    <2>3. Len(queue') = 0
      OBVIOUS
    <2> QED BY <2>1, <2>2, <2>3
  <1>e. {"connect", "receive", "late", "disconnect"} \subseteq Events
    BY DEF Events
  <1> USE DEF FlagsOK, OthersOK, connVars, closeVars, appVars, Closed
  <1>1. CASE HandleConnect \/ RefuseHandshake
    BY <1>0, <1>1 DEF HandleConnect, RefuseHandshake, HandshakeInv
  <1>2. CASE DataReceived \/ FeedDone
    BY <1>2 DEF DataReceived, FeedDone
  <1>3. CASE HandleMessage
    BY <1>0, <1>3, <1>q, <1>e DEF HandleMessage, MessageEvent
  <1>4. CASE HandleBadMessage
    BY <1>4 DEF HandleBadMessage
  <1>5. CASE HandlePong
    BY <1>5 DEF HandlePong
  <1>6. CASE HandleClose
    BY <1>6, <1>q, <1>e DEF HandleClose
  <1>7. CASE Receive
    BY <1>0, <1>7 DEF Receive
  <1>8. CASE SendWaits
    BY <1>8 DEF SendWaits
  <1>9. CASE SendRaises \/ SendMessage
    BY <1>9 DEF SendRaises, SendMessage, SendPasses, Unsent
  <1>10. ASSUME NEW m \in Messages, SansioHandshake(m) \/ WsprotoHandshake(m) PROVE P'
    BY <1>0, <1>10 DEF SansioHandshake, WsprotoHandshake, SendPasses, Unsent, HandshakeInv
  <1>11. CASE SansioClose
    BY <1>11 DEF SansioClose, SendPasses
  <1>12. CASE WsprotoClose
    <2>1. CASE conn = "open" /\ transport = "open"
      BY <1>0, <1>12, <2>1 DEF WsprotoClose
    <2>2. CASE ~(conn = "open" /\ transport = "open")
      <3>1. UNCHANGED <<readPaused, transport>> /\ ~closeSent
        BY <1>12, <2>2 DEF WsprotoClose
      <3>2. transport = "open" => ~readPaused
        BY <1>0, <2>2, <3>1 DEF HandshakeInv
      <3> QED BY <3>1, <3>2
    <2> QED BY <2>1, <2>2
  <1>13. CASE SendBody(TRUE)
    BY <1>0, <1>13 DEF SendBody, SendPasses
  <1>14. CASE SendBody(FALSE)
    BY <1>14 DEF SendBody, SendPasses
  <1>15. CASE AppEnds
    BY <1>15 DEF AppEnds
  <1>16. CASE CloseTimeout \/ TransportEnds
    BY <1>0, <1>16 DEF CloseTimeout, TransportEnds
  <1>17. CASE SendKeepalivePing
    BY <1>17 DEF SendKeepalivePing
  <1>18. CASE KeepaliveTimeout
    BY <1>0, <1>18 DEF KeepaliveTimeout
  <1>19. CASE Shutdown
    BY <1>0, <1>19, <1>q, <1>e DEF Shutdown
  <1>20. CASE ConnectionLost \/ ResumeWriting
    BY <1>20 DEF ConnectionLost, ResumeWriting
  <1>21. CASE UNCHANGED vars
    BY <1>21 DEF vars
  <1> QED BY <1>1, <1>2, <1>3, <1>4, <1>5, <1>6, <1>7, <1>8, <1>9, <1>10, <1>11, <1>12,
             <1>13, <1>14, <1>15, <1>16, <1>17, <1>18, <1>19, <1>20, <1>21 DEF Next

\* send()'s part: who waits for writable waits for something to come.
LEMMA WritableStep ==
    WsTypeOK /\ HandshakeInv /\ NoLostWakeup /\ [Next]_vars =>
        (sending = "waiting" => ~writable /\ transport # "lost")'
  <1> DEFINE P == sending = "waiting" => ~writable /\ transport # "lost"
  <1> SUFFICES ASSUME WsTypeOK, HandshakeInv, P, [Next]_vars PROVE P'
    BY DEF NoLostWakeup
  <1>0. FlagsOK /\ OthersOK
    BY TypeParts
  <1>l. Closed(transport) = "lost" <=> transport = "lost"
    BY DEF Closed
  <1>w. Write => (~writable => ~writable')
    BY DEF Write
  <1> USE DEF FlagsOK, OthersOK, connVars, closeVars, appVars
  <1>1. CASE HandleConnect \/ DataReceived
    BY <1>1 DEF HandleConnect, DataReceived
  <1>2. CASE RefuseHandshake
    BY <1>2, <1>l DEF RefuseHandshake
  <1>3. CASE FeedDone
    BY <1>0, <1>3, <1>w DEF FeedDone
  <1>4. CASE HandleMessage \/ HandlePong
    BY <1>4 DEF HandleMessage, HandlePong
  <1>5. CASE HandleBadMessage
    BY <1>0, <1>5, <1>l, <1>w DEF HandleBadMessage
  <1>6. CASE HandleClose
    BY <1>0, <1>6, <1>l, <1>w DEF HandleClose, PeerCloses
  <1>7. CASE Receive
    BY <1>7 DEF Receive
  <1>8. CASE SendWaits
    BY <1>0, <1>8 DEF SendWaits, HandshakeInv
  <1>9. ASSUME SendPasses PROVE P'
    BY <1>9 DEF SendPasses
  <1>10. CASE SendRaises \/ SendMessage \/ SansioClose \/ WsprotoClose
    BY <1>9, <1>10 DEF SendRaises, SendMessage, SansioClose, WsprotoClose
  <1>11. ASSUME NEW m \in Messages, SansioHandshake(m) \/ WsprotoHandshake(m) PROVE P'
    BY <1>9, <1>11 DEF SansioHandshake, WsprotoHandshake
  <1>12. ASSUME NEW last \in BOOLEAN, SendBody(last) PROVE P'
    BY <1>9, <1>12 DEF SendBody
  <1>13. CASE AppEnds
    BY <1>0, <1>13, <1>l DEF AppEnds
  <1>14. CASE CloseTimeout \/ TransportEnds
    BY <1>0, <1>14, <1>l DEF CloseTimeout, TransportEnds
  <1>15. CASE SendKeepalivePing
    BY <1>0, <1>15, <1>w DEF SendKeepalivePing
  <1>16. CASE KeepaliveTimeout
    BY <1>0, <1>16, <1>l, <1>w DEF KeepaliveTimeout
  <1>17. CASE Shutdown
    BY <1>0, <1>17, <1>l, <1>w DEF Shutdown
  <1>18. CASE ConnectionLost \/ ResumeWriting
    BY <1>18 DEF ConnectionLost, ResumeWriting, Wake
  <1>19. CASE UNCHANGED vars
    BY <1>19 DEF vars
  <1> QED BY <1>1, <1>2, <1>3, <1>4, <1>5, <1>6, <1>7, <1>8, <1>10, <1>11, <1>12, <1>13,
             <1>14, <1>15, <1>16, <1>17, <1>18, <1>19 DEF Next

-----------------------------------------------------------------------------
(* The keep-alive loop                                                      *)

\* Every step keeps one ping or timer going on an open connection.
LEMMA KeepaliveStep ==
    WsTypeOK /\ HandshakeInv /\ KeepaliveRuns /\ [Next]_vars => KeepaliveRuns'
  <1> SUFFICES ASSUME WsTypeOK, HandshakeInv, KeepaliveRuns, [Next]_vars
               PROVE  KeepaliveRuns'
    OBVIOUS
  <1>0. FlagsOK /\ OthersOK
    BY TypeParts
  <1> USE DEF KeepaliveRuns, FlagsOK, OthersOK, connVars, closeVars, aliveVars, Closed
  <1>1. CASE HandleConnect \/ RefuseHandshake \/ DataReceived \/ FeedDone
    BY <1>0, <1>1 DEF HandleConnect, RefuseHandshake, DataReceived, FeedDone
  <1>2. CASE HandleMessage \/ HandleBadMessage
    BY <1>0, <1>2 DEF HandleMessage, HandleBadMessage
  <1>3. CASE HandlePong
    BY <1>0, <1>3 DEF HandlePong, Parses
  <1>4. CASE HandleClose
    BY <1>0, <1>4 DEF HandleClose, PeerCloses, Parses
  <1>5. CASE Receive \/ SendWaits
    BY <1>5 DEF Receive, SendWaits
  <1>6. CASE SendRaises \/ SendMessage
    BY <1>6 DEF SendRaises, SendMessage, SendPasses, Unsent
  <1>7. ASSUME NEW m \in Messages, SansioHandshake(m) PROVE KeepaliveRuns'
    BY <1>0, <1>7 DEF SansioHandshake, SendPasses, Unsent, HandshakeInv
  <1>8. ASSUME NEW m \in Messages, WsprotoHandshake(m) PROVE KeepaliveRuns'
    BY <1>0, <1>8 DEF WsprotoHandshake, SendPasses, Unsent, HandshakeInv
  <1>9. CASE SansioClose \/ WsprotoClose
    BY <1>0, <1>9 DEF SansioClose, WsprotoClose, SendPasses
  <1>10. ASSUME NEW last \in BOOLEAN, SendBody(last) PROVE KeepaliveRuns'
    BY <1>0, <1>10 DEF SendBody, SendPasses
  <1>11. CASE AppEnds \/ CloseTimeout \/ TransportEnds
    BY <1>0, <1>11 DEF AppEnds, CloseTimeout, TransportEnds
  <1>12. CASE SendKeepalivePing
    BY <1>0, <1>12 DEF SendKeepalivePing, HandshakeInv
  <1>13. CASE KeepaliveTimeout
    BY <1>0, <1>13 DEF KeepaliveTimeout, HandshakeInv
  <1>14. CASE Shutdown \/ ConnectionLost
    BY <1>14 DEF Shutdown, ConnectionLost
  <1>15. CASE ResumeWriting
    BY <1>15 DEF ResumeWriting
  <1>16. CASE UNCHANGED vars
    BY <1>16 DEF vars
  <1> QED BY <1>1, <1>2, <1>3, <1>4, <1>5, <1>6, <1>7, <1>8, <1>9, <1>10, <1>11, <1>12,
             <1>13, <1>14, <1>15, <1>16 DEF Next
-----------------------------------------------------------------------------
(* The theorems                                                             *)

\* The invariant holds before the first byte
LEMMA WsInit == Init => WsInv
  <1> SUFFICES ASSUME Init PROVE WsInv
    OBVIOUS
  <1>1. HandshakeInv /\ NothingAfterDisconnect /\ WsTypeOK
    BY HandshakeInit, WsTypeInit
  <1>2. /\ queue = <<>> /\ ~gone /\ ~readPaused /\ sending = "no" /\ conn = "connecting"
    BY Zenon DEF Init
  <1> QED BY <1>1, <1>2 DEF WsInv, DisconnectIsLast, NoLostWakeup, KeepaliveRuns, ToSet

\* and after every step.
LEMMA WsStep == WsInv /\ [Next]_vars => WsInv'
  <1> SUFFICES ASSUME WsInv, [Next]_vars PROVE WsInv'
    OBVIOUS
  <1>1. WsTypeOK /\ HandshakeInv /\ NoLostWakeup /\ KeepaliveRuns
    BY DEF WsInv, DisconnectIsLast
  <1>2. QueueInv
    BY DEF WsInv, DisconnectIsLast, QueueInv, Ordered, Behind
  <1>3. WsTypeOK' /\ HandshakeInv' /\ KeepaliveRuns'
    BY <1>1, WsTypeStep, HandshakeStep, KeepaliveStep
  <1>4. QueueInv'
    BY <1>1, <1>2, QueueStep
  <1>5. NoLostWakeup'
    BY <1>1, PauseStep, WritableStep DEF NoLostWakeup
  <1> QED BY <1>3, <1>4, <1>5 DEF WsInv, DisconnectIsLast, QueueInv, Ordered, Behind

\* The handshake's flags, the library's state, the queue, the pauses and the
\* timers keep in step, whichever class serves the connection.
THEOREM WsInductive == Spec => []WsInv
  BY WsInit, WsStep, PTL DEF Spec

\* The application is given no message after a websocket.disconnect, but those that a
\* peer sends behind its own close frame.
THEOREM DisconnectLast == Spec => []DisconnectIsLast
  <1>1. WsInv => DisconnectIsLast
    BY DEF WsInv
  <1> QED BY <1>1, WsInductive, PTL

\* Reading is paused only for a message still to be taken and never during a
\* closing handshake, and no send() waits for a transport that is lost.
THEOREM NobodyIsStuck == Spec => []NoLostWakeup
  <1>1. WsInv => NoLostWakeup
    BY DEF WsInv
  <1> QED BY <1>1, WsInductive, PTL

\* An open connection has its next ping or the deadline of the last one
\* scheduled, never both and never neither.
THEOREM KeepaliveGoesOn == Spec => []KeepaliveRuns
  <1>1. WsInv => KeepaliveRuns
    BY DEF WsInv
  <1> QED BY <1>1, WsInductive, PTL
=============================================================================
