------------------------ MODULE SSLConnectionProofs ------------------------
(***************************************************************************)
(* Theorems about SSLConnection, for any buffer size and any number of     *)
(* bytes and packets: its invariants, and that it implements Transport.    *)
(***************************************************************************)
EXTENDS SSLConnection, TLAPS

Fields == {"connected", "disconnected", "disconnecting", "aborting", "error",
           "accepting", "accepted", "shutting", "reading", "writing",
           "handshakeOp", "readOp", "writeOp", "shutdownOp", "closesPosted",
           "front", "rest", "producer", "paused"}

Shape(s) == DOMAIN s = Fields

(* The types that the argument needs.                                      *)
Flags(s) ==
    /\ s.connected \in BOOLEAN /\ s.disconnected \in BOOLEAN
    /\ s.disconnecting \in BOOLEAN /\ s.aborting \in BOOLEAN
    /\ s.accepting \in BOOLEAN /\ s.accepted \in BOOLEAN
    /\ s.shutting \in BOOLEAN /\ s.reading \in BOOLEAN /\ s.writing \in BOOLEAN

Counts(s) == s.closesPosted \in Nat /\ s.front \in Nat /\ s.rest \in Nat

(* What a connection that ends has gone through.                           *)
Phases(s) ==
    /\ s.disconnecting => s.connected /\ ~s.disconnected /\ s.error # "none"
    /\ s.disconnected => ~s.connected
    /\ s.accepted \/ s.accepting \/ s.closesPosted > 0 => s.connected \/ s.disconnected
    /\ s.aborting => s.disconnecting /\ s.error # "Done"
    /\ s.accepting => ~s.accepted

(* The flags tell which operations are outstanding, all of them come after *)
(* the handshake, and a posted close comes before.                         *)
Operations(s) ==
    /\ s.reading <=> s.readOp # "none"
    /\ s.writing <=> s.writeOp # "none"
    /\ s.shutting <=> s.shutdownOp # "none"
    /\ s.accepting <=> s.handshakeOp # "none"
    /\ s.reading \/ s.writing \/ s.shutting => s.accepted
    /\ s.shutting => s.disconnecting
    /\ s.closesPosted > 0 => /\ ~s.reading /\ ~s.writing /\ ~s.shutting
                             /\ s.disconnecting \/ s.disconnected

(* Only an abort cancels a read or a write before the connection is closed.*)
Cancelled(s) ==
    s.readOp = "aborted" \/ s.writeOp = "aborted" => s.aborting \/ s.disconnected

Sound(s) == Shape(s) /\ Flags(s) /\ Counts(s) /\ Phases(s) /\ Operations(s) /\ Cancelled(s)

(* What is known in a callback.                                            *)
InCallback(s, i) ==
    /\ i = "connectionMade" => s.connected /\ ~s.accepting /\ ~s.accepted
    /\ i = "dataReceived" => ~s.reading /\ s.accepted

(* A producer is paused inside a write of an open connection: no close is   *)
(* posted for what has shaken hands.                                       *)
Pausing(s, n) ==
    n \in Nat /\ (n > 0 => s.connected /\ (s.accepted => s.closesPosted = 0))

LossCounted == lossSeen = (IF ssl.disconnected THEN 1 ELSE 0) /\ ~asserted

SSLInv == /\ Sound(ssl) /\ InCallback(ssl, inside) /\ LossCounted /\ Pausing(ssl, pausing)
          /\ GracefulSendsAll /\ SSLNeverStalls /\ written \in Nat /\ flushed \in Nat

-----------------------------------------------------------------------------
LEMMA SSLInitInv == SSLInit => SSLInv
<1> SUFFICES ASSUME SSLInit PROVE SSLInv
  OBVIOUS
<1> USE DEF SSLInit
<1>1. Shape(ssl) /\ Flags(ssl)
  BY DEF Shape, Flags, Fields
<1>2. Counts(ssl) /\ Phases(ssl) /\ Operations(ssl) /\ Cancelled(ssl)
  BY DEF Counts, Phases, Operations, Cancelled
<1>3. InCallback(ssl, inside) /\ LossCounted /\ Pausing(ssl, pausing)
  BY DEF InCallback, LossCounted, Pausing
<1>4. GracefulSendsAll /\ SSLNeverStalls /\ written \in Nat /\ flushed \in Nat
  BY DEF GracefulSendsAll, SSLNeverStalls
<1> QED BY <1>1, <1>2, <1>3, <1>4 DEF SSLInv, Sound

(* The operators on the state.                                             *)
LEMMA CancelSound ==
    ASSUME NEW s, Sound(s), s.disconnected \/ s.aborting \/ ~s.accepted
    PROVE  Sound(CancelAll(s))
<1> DEFINE t == CancelAll(s)
<1> USE DEF CancelAll, CancelOp
<1>1. Shape(t) /\ Flags(t)
  BY DEF Sound, Shape, Flags, Fields
<1>2. Counts(t)
  BY DEF Sound, Shape, Counts, Fields
<1>3. Phases(t)
  BY DEF Sound, Shape, Flags, Phases, Fields
<1>4. Operations(t)
  BY DEF Sound, Shape, Flags, Operations, Fields
<1>5. Cancelled(t)
  BY DEF Sound, Shape, Flags, Cancelled, Operations, Fields
<1> QED BY <1>1, <1>2, <1>3, <1>4, <1>5 DEF Sound

LEMMA CloseSound ==
    ASSUME NEW s, NEW e, Sound(s), ~s.shutting
    PROVE  Sound(CloseSocketSSL(s, e))
<1> DEFINE t == CloseSocketSSL(s, e)
<1> USE DEF CloseSocketSSL, CancelAll, CancelOp
<1>1. Shape(t) /\ Flags(t)
  BY DEF Sound, Shape, Flags, Fields
<1>2. Counts(t)
  BY DEF Sound, Shape, Counts, Fields
<1>3. Phases(t)
  BY DEF Sound, Shape, Flags, Phases, Fields
<1>4. Operations(t)
  BY DEF Sound, Shape, Flags, Phases, Operations, Fields
<1>5. Cancelled(t)
  BY DEF Sound, Shape, Flags, Cancelled, Phases, Operations, Fields
<1> QED BY <1>1, <1>2, <1>3, <1>4, <1>5 DEF Sound

LEMMA ShutdownSound ==
    ASSUME NEW s, Sound(s), s.disconnecting, s.accepted, s.closesPosted = 0
    PROVE  Sound(StartShutdown(s))
<1> DEFINE t == StartShutdown(s)
<1> USE DEF StartShutdown
<1>1. Shape(t) /\ Flags(t)
  BY DEF Sound, Shape, Flags, Fields
<1>2. Counts(t)
  BY DEF Sound, Shape, Counts, Fields
<1>3. Phases(t)
  BY DEF Sound, Shape, Flags, Phases, Fields
<1>4. Operations(t)
  BY DEF Sound, Shape, Flags, Phases, Operations, Fields
<1>5. Cancelled(t)
  BY DEF Sound, Shape, Flags, Cancelled, Phases, Operations, Fields
<1> QED BY <1>1, <1>2, <1>3, <1>4, <1>5 DEF Sound

LEMMA WriteSound ==
    ASSUME NEW s, Sound(s), s.accepted, s.closesPosted = 0
    PROVE  Sound(DoWriteSSL(s))
<1> DEFINE t == DoWriteSSL(s)
<1> USE DEF DoWriteSSL
<1>1. Shape(t) /\ Flags(t)
  BY DEF Sound, Shape, Flags, Fields
<1>2. Counts(t)
  BY DEF Sound, Shape, Counts, Fields
<1>3. Phases(t)
  BY DEF Sound, Shape, Flags, Phases, Fields
<1>4. Operations(t)
  BY DEF Sound, Shape, Flags, Phases, Operations, Fields
<1>5. Cancelled(t)
  BY DEF Sound, Shape, Flags, Cancelled, Phases, Operations, Fields
<1> QED BY <1>1, <1>2, <1>3, <1>4, <1>5 DEF Sound

LEMMA ReadSound ==
    ASSUME NEW s, Sound(s), s.accepted, s.closesPosted = 0
    PROVE  Sound(DoReadSSL(s))
<1> DEFINE t == DoReadSSL(s)
<1> USE DEF DoReadSSL
<1>1. Shape(t) /\ Flags(t)
  BY DEF Sound, Shape, Flags, Fields
<1>2. Counts(t)
  BY DEF Sound, Shape, Counts, Fields
<1>3. Phases(t)
  BY DEF Sound, Shape, Flags, Phases, Fields
<1>4. Operations(t)
  BY DEF Sound, Shape, Flags, Phases, Operations, Fields
<1>5. Cancelled(t)
  BY DEF Sound, Shape, Flags, Cancelled, Phases, Operations, Fields
<1> QED BY <1>1, <1>2, <1>3, <1>4, <1>5 DEF Sound

LEMMA PostSound ==
    ASSUME NEW s, Sound(s), ~s.accepted, s.disconnecting
    PROVE  Sound(PostClose(s))
<1> DEFINE t == PostClose(s)
<1> USE DEF PostClose, CancelAll, CancelOp
<1>1. Shape(t) /\ Flags(t)
  BY DEF Sound, Shape, Flags, Fields
<1>2. Counts(t)
  BY DEF Sound, Shape, Counts, Fields
<1>3. Phases(t)
  BY DEF Sound, Shape, Flags, Phases, Fields
<1>4. Operations(t)
  BY DEF Sound, Shape, Flags, Phases, Operations, Fields
<1>5. Cancelled(t)
  BY DEF Sound, Shape, Flags, Cancelled, Phases, Operations, Fields
<1> QED BY <1>1, <1>2, <1>3, <1>4, <1>5 DEF Sound

LEMMA FailedSound ==
    ASSUME NEW s, NEW op, Sound(s), s.accepted, s.closesPosted = 0,
           op = "aborted" => s.aborting \/ s.disconnected
    PROVE  Sound(OperationFailed(s, op))
<1> DEFINE t == OperationFailed(s, op)
<1> USE DEF OperationFailed, StartShutdown
<1>1. Shape(t) /\ Flags(t)
  BY DEF Sound, Shape, Flags, Fields
<1>2. Counts(t)
  BY DEF Sound, Shape, Counts, Fields
<1>3. Phases(t)
  BY DEF Sound, Shape, Flags, Phases, Fields
<1>4. Operations(t)
  BY DEF Sound, Shape, Flags, Phases, Operations, Fields
<1>5. Cancelled(t)
  BY DEF Sound, Shape, Flags, Cancelled, Phases, Operations, Fields
<1> QED BY <1>1, <1>2, <1>3, <1>4, <1>5 DEF Sound

-----------------------------------------------------------------------------
(* Calls of the application.                                               *)

(* While a connection is not shut, no close was posted.                    *)
LEMMA NotShut ==
    ASSUME NEW s, Sound(s), ~s.disconnecting, ~s.disconnected
    PROVE  s.closesPosted = 0 /\ ~s.shutting /\ ~s.aborting
<1>1. ~s.shutting /\ ~s.aborting /\ ~(s.closesPosted > 0)
  BY DEF Sound, Phases, Operations
<1>2. s.closesPosted \in Nat
  BY DEF Sound, Counts
<1> QED BY <1>1, <1>2

(* Bytes are added to one of the two ends of the queue.                    *)
AddTo(s, n) ==
    IF s.front = 0 /\ s.rest = 0 THEN [s EXCEPT !.front = n] ELSE [s EXCEPT !.rest = @ + n]

LEMMA QueuedSound ==
    ASSUME NEW s, NEW n \in Nat, NEW q, Sound(s),
           q = AddTo(s, n) \/ q = [AddTo(s, n) EXCEPT !.paused = TRUE]
    PROVE  /\ Sound(q) /\ q.front + q.rest = s.front + s.rest + n
           /\ \A f \in Fields \ {"front", "rest", "paused"} : q[f] = s[f]
<1> DEFINE t == AddTo(s, n)
<1>1. Shape(t)
  BY DEF AddTo, Sound, Shape, Fields
<1>2. \A f \in Fields \ {"front", "rest", "paused"} : t[f] = s[f]
  BY DEF AddTo, Sound, Shape, Fields
<1>3. Counts(t) /\ t.front + t.rest = s.front + s.rest + n
  BY DEF AddTo, Sound, Shape, Counts, Fields
<1> HIDE DEF t
<1>4. /\ Shape(q) /\ q.front = t.front /\ q.rest = t.rest
      /\ \A f \in Fields \ {"paused"} : q[f] = t[f]
  BY <1>1 DEF t, Shape, Fields
<1>5. \A f \in Fields \ {"front", "rest", "paused"} : q[f] = s[f]
  BY <1>2, <1>4
<1>6. /\ q.connected = s.connected /\ q.disconnected = s.disconnected
      /\ q.disconnecting = s.disconnecting /\ q.aborting = s.aborting
      /\ q.error = s.error /\ q.accepting = s.accepting /\ q.accepted = s.accepted
      /\ q.shutting = s.shutting /\ q.reading = s.reading /\ q.writing = s.writing
      /\ q.handshakeOp = s.handshakeOp /\ q.readOp = s.readOp /\ q.writeOp = s.writeOp
      /\ q.shutdownOp = s.shutdownOp /\ q.closesPosted = s.closesPosted
  BY <1>5 DEF Fields
<1>7. Flags(q) /\ Phases(q) /\ Operations(q) /\ Cancelled(q)
  BY <1>6 DEF Sound, Flags, Phases, Operations, Cancelled
<1>8. Counts(q) /\ q.front + q.rest = s.front + s.rest + n
  BY <1>3, <1>4, <1>6 DEF Sound, Counts
<1> QED BY <1>4, <1>5, <1>7, <1>8 DEF Sound

(* What startWriting leaves alone; it writes all that waits.               *)
LEMMA StartWritingSound ==
    ASSUME NEW q, Sound(q), q.accepted => q.closesPosted = 0
    PROVE  LET t == StartWriting(q) IN
           /\ Sound(t) /\ t.front + t.rest = q.front + q.rest
           /\ t.connected = q.connected /\ t.disconnected = q.disconnected
           /\ t.disconnecting = q.disconnecting /\ t.shutting = q.shutting
           /\ t.accepting = q.accepting /\ t.accepted = q.accepted
           /\ t.closesPosted = q.closesPosted /\ t.error = q.error
           /\ t.reading = q.reading /\ (q.accepted => t.writing)
<1> DEFINE t == StartWriting(q)
<1>1. CASE ~q.writing /\ q.accepted
  <2>1. t = DoWriteSSL(q)
    BY <1>1 DEF StartWriting
  <2> HIDE DEF t
  <2>2. Sound(t)
    BY <1>1, <2>1, WriteSound
  <2>3. t.front + t.rest = q.front + q.rest
    BY <2>1 DEF DoWriteSSL, Sound, Shape, Counts, Fields
  <2>4. /\ t.connected = q.connected /\ t.disconnected = q.disconnected
        /\ t.disconnecting = q.disconnecting /\ t.shutting = q.shutting
        /\ t.accepting = q.accepting /\ t.accepted = q.accepted
        /\ t.closesPosted = q.closesPosted /\ t.error = q.error
        /\ t.reading = q.reading /\ t.writing
    BY <2>1 DEF DoWriteSSL, Sound, Shape, Fields
  <2> QED BY <2>2, <2>3, <2>4 DEF t
<1>2. CASE q.writing \/ ~q.accepted
  <2>1. t = q
    BY <1>2 DEF StartWriting
  <2> QED BY <1>2, <2>1
<1> QED BY <1>1, <1>2

(* write queues, and pauses the producer or starts the writing.            *)
LEMMA WriteInv == ASSUME NEW n \in 1..MaxSSLBytes, SSLInv, WriteSSL(n) PROVE SSLInv'
<1>1. PICK q :
        /\ q = AddTo(ssl, n) \/ q = [AddTo(ssl, n) EXCEPT !.paused = TRUE]
        /\ \/ ssl' = q /\ pausing' = pausing + 1 /\ lapses' = lapses
           \/ /\ ssl' = StartWriting(q) /\ pausing' = pausing
              /\ lapses' = lapses \ {"write"}
        /\ UNCHANGED <<inside, lossSeen, asserted, flushed>>
        /\ written' = written + n /\ ~IsShut(ssl)
  BY DEF WriteSSL, Enqueued, AddTo, ghostVars
<1>2. n \in Nat
  OBVIOUS
<1>3. /\ Sound(q) /\ q.front + q.rest = ssl.front + ssl.rest + n
      /\ \A f \in Fields \ {"front", "rest", "paused"} : q[f] = ssl[f]
  BY <1>1, <1>2, QueuedSound DEF SSLInv
<1>4. /\ q.connected = ssl.connected /\ q.disconnected = ssl.disconnected
      /\ q.disconnecting = ssl.disconnecting /\ q.shutting = ssl.shutting
      /\ q.accepting = ssl.accepting /\ q.accepted = ssl.accepted
      /\ q.reading = ssl.reading /\ q.writing = ssl.writing
  BY <1>3 DEF Fields
<1>5. q.closesPosted = 0 /\ ~q.shutting /\ ~q.disconnecting /\ ~q.disconnected /\ q.connected
  BY <1>1, <1>3, <1>4, NotShut DEF IsShut
<1>6. /\ Sound(ssl') /\ ssl'.front + ssl'.rest = q.front + q.rest
      /\ ssl'.connected = q.connected /\ ssl'.disconnected = q.disconnected
      /\ ssl'.disconnecting = q.disconnecting /\ ssl'.shutting = q.shutting
      /\ ssl'.accepting = q.accepting /\ ssl'.accepted = q.accepted
      /\ ssl'.closesPosted = q.closesPosted /\ ssl'.reading = q.reading
      /\ q.accepted => ssl'.writing \/ pausing' = pausing + 1
  <2>1. CASE ssl' = q /\ pausing' = pausing + 1
    BY <1>3, <2>1
  <2>2. CASE ssl' = StartWriting(q)
    BY <1>3, <1>5, <2>2, StartWritingSound
  <2> QED BY <1>1, <2>1, <2>2
<1>7. InCallback(ssl, inside)'
  BY <1>1, <1>4, <1>6 DEF SSLInv, InCallback
<1>8. LossCounted'
  BY <1>1, <1>4, <1>6 DEF SSLInv, LossCounted
<1>9. GracefulSendsAll'
  <2>1. written' = flushed' + ssl'.front + ssl'.rest
    <3>1. q.front \in Nat /\ q.rest \in Nat /\ ssl'.front \in Nat /\ ssl'.rest \in Nat
          /\ ssl.front \in Nat /\ ssl.rest \in Nat
      BY <1>3, <1>6 DEF SSLInv, Sound, Counts
    <3> QED BY <1>1, <1>3, <1>6, <3>1 DEF SSLInv, GracefulSendsAll
  <2> QED BY <2>1, <1>5, <1>6 DEF GracefulSendsAll
<1>10. Pausing(ssl', pausing')
  BY <1>1, <1>5, <1>6 DEF SSLInv, Pausing
<1>11. SSLNeverStalls'
  <2>1. inside' = "nothing" => ssl'.accepting \/ ssl'.reading \/ "read" \in lapses'
    BY <1>1, <1>4, <1>5, <1>6 DEF SSLInv, SSLNeverStalls, IsLive
  <2>2. ssl'.accepted => ssl'.writing \/ pausing' > 0
    BY <1>6 DEF SSLInv, Pausing
  <2> QED BY <2>1, <2>2 DEF SSLNeverStalls
<1>12. written' \in Nat /\ flushed' \in Nat
  BY <1>1 DEF SSLInv
<1> QED BY <1>6, <1>7, <1>8, <1>9, <1>10, <1>11, <1>12 DEF SSLInv

(* pauseProducing returns to its write, whatever it did meanwhile.         *)
LEMMA PauseReturnsInv == ASSUME SSLInv, PauseReturnsSSL PROVE SSLInv'
<1>1. /\ pausing \in Nat /\ pausing > 0 /\ pausing' = pausing - 1
      /\ ssl' = StartWriting(ssl) /\ lapses' = lapses \ {"write"}
      /\ UNCHANGED <<inside, lossSeen, asserted, written, flushed>>
      /\ Sound(ssl) /\ ssl.connected /\ (ssl.accepted => ssl.closesPosted = 0)
  BY DEF PauseReturnsSSL, SSLInv, Pausing, ghostVars
<1>2. /\ Sound(ssl') /\ ssl'.front + ssl'.rest = ssl.front + ssl.rest
      /\ ssl'.connected = ssl.connected /\ ssl'.disconnected = ssl.disconnected
      /\ ssl'.disconnecting = ssl.disconnecting /\ ssl'.shutting = ssl.shutting
      /\ ssl'.accepting = ssl.accepting /\ ssl'.accepted = ssl.accepted
      /\ ssl'.closesPosted = ssl.closesPosted /\ ssl'.error = ssl.error
      /\ ssl'.reading = ssl.reading /\ (ssl.accepted => ssl'.writing)
  BY <1>1, StartWritingSound
<1>3. InCallback(ssl, inside)' /\ LossCounted' /\ Pausing(ssl', pausing')
  BY <1>1, <1>2 DEF SSLInv, InCallback, LossCounted, Pausing
<1>4. GracefulSendsAll'
  <2>1. /\ ssl'.front \in Nat /\ ssl'.rest \in Nat /\ ssl.front \in Nat /\ ssl.rest \in Nat
        /\ written \in Nat /\ flushed \in Nat
    BY <1>1, <1>2 DEF SSLInv, Sound, Counts
  <2>2. written' = flushed' + ssl'.front + ssl'.rest
    BY <1>1, <1>2, <2>1 DEF SSLInv, GracefulSendsAll
  <2> QED BY <1>1, <1>2, <2>2 DEF SSLInv, GracefulSendsAll
<1>5. SSLNeverStalls'
  BY <1>1, <1>2 DEF SSLInv, SSLNeverStalls, IsLive
<1> QED BY <1>1, <1>2, <1>3, <1>4, <1>5 DEF SSLInv

(* Exceptions leave the connection as it is, and a lapse behind.           *)
LEMMA FailsInv == ASSUME SSLInv, CallbackFailsSSL PROVE SSLInv'
<1>1. ssl' = ssl /\ UNCHANGED <<lossSeen, asserted, written, flushed>>
  BY DEF CallbackFailsSSL, CallbackThrowsSSL, PauseThrowsSSL, ghostVars
<1>2. /\ pausing' \in {pausing, pausing - 1} /\ pausing' \in Nat
      /\ inside' \in {inside, "nothing"}
      /\ "close" \in lapses' <=> "close" \in lapses
  BY DEF CallbackFailsSSL, CallbackThrowsSSL, PauseThrowsSSL, SSLInv, Pausing
<1>3. InCallback(ssl, inside)' /\ LossCounted' /\ GracefulSendsAll'
  BY <1>1, <1>2 DEF SSLInv, InCallback, LossCounted, GracefulSendsAll
<1>4. Pausing(ssl', pausing')
  BY <1>1, <1>2 DEF SSLInv, Pausing
<1>5. SSLNeverStalls'
  <2>1. CASE CallbackThrowsSSL
    BY <1>1, <2>1 DEF CallbackThrowsSSL, SSLInv, SSLNeverStalls, IsLive
  <2>2. CASE PauseThrowsSSL
    <3>1. /\ inside' = inside /\ ("read" \in lapses => "read" \in lapses')
          /\ ssl.accepted /\ ~ssl.writing => "write" \in lapses'
      BY <2>2 DEF PauseThrowsSSL
    <3> QED BY <1>1, <3>1 DEF SSLInv, SSLNeverStalls, IsLive, Sound, Flags
  <2> QED BY <2>1, <2>2 DEF CallbackFailsSSL
<1> QED BY <1>1, <1>3, <1>4, <1>5 DEF SSLInv

(* What the application does to a connection that it ends: nothing is      *)
(* outstanding in the state it ends in but what was before.                *)
Ends(s, e, abort) ==
    [s EXCEPT !.error = e, !.disconnecting = TRUE, !.aborting = abort]

LEMMA EndsSound ==
    ASSUME NEW s, NEW e \in {"Done", "Abort"}, Sound(s), s.connected, ~s.disconnecting,
           ~s.disconnected
    PROVE  /\ Sound(Ends(s, e, e = "Abort"))
           /\ \A f \in Fields \ {"error", "disconnecting", "aborting"} :
                Ends(s, e, e = "Abort")[f] = s[f]
           /\ Ends(s, e, e = "Abort").disconnecting
           /\ Ends(s, e, e = "Abort").aborting = (e = "Abort")
           /\ Ends(s, e, e = "Abort").error = e
<1> DEFINE t == Ends(s, e, e = "Abort")
<1> USE DEF Ends
<1>0. ~s.aborting /\ ~s.shutting /\ s.closesPosted = 0
  BY NotShut
<1>1. Shape(t) /\ Flags(t)
  BY DEF Sound, Shape, Flags, Fields
<1>2. Counts(t)
  BY DEF Sound, Shape, Counts, Fields
<1>3. Phases(t)
  BY <1>0 DEF Sound, Shape, Flags, Phases, Fields
<1>4. Operations(t)
  BY <1>0 DEF Sound, Shape, Flags, Phases, Operations, Fields
<1>5. Cancelled(t)
  BY <1>0 DEF Sound, Shape, Flags, Cancelled, Phases, Operations, Fields
<1>6. /\ \A f \in Fields \ {"error", "disconnecting", "aborting"} : t[f] = s[f]
      /\ t.disconnecting /\ t.aborting = (e = "Abort") /\ t.error = e
  BY DEF Sound, Shape, Fields
<1> QED BY <1>1, <1>2, <1>3, <1>4, <1>5, <1>6 DEF Sound

(* What the operators leave alone.                                         *)
LEMMA PostFrame ==
    ASSUME NEW s, Sound(s)
    PROVE  \A f \in {"connected", "disconnected", "disconnecting", "accepting",
                     "accepted", "reading", "writing", "shutting", "front", "rest", "error"} :
                PostClose(s)[f] = s[f]
BY DEF PostClose, CancelAll, Sound, Shape, Fields

LEMMA StartFrame ==
    ASSUME NEW s, Sound(s)
    PROVE  \A f \in {"connected", "disconnected", "disconnecting", "accepting",
                     "accepted", "reading", "writing", "front", "rest", "error",
                     "closesPosted"} :
                StartShutdown(s)[f] = s[f]
BY DEF StartShutdown, Sound, Shape, Fields

LEMMA CancelFrame ==
    ASSUME NEW s, Sound(s)
    PROVE  \A f \in {"connected", "disconnected", "disconnecting", "aborting", "accepting",
                     "accepted", "reading", "writing", "shutting", "front", "rest", "error",
                     "closesPosted"} :
                CancelAll(s)[f] = s[f]
BY DEF CancelAll, Sound, Shape, Fields

(* loseConnection and abortConnection leave the rest of SSLInv as it was.  *)
LEMMA EndedInv ==
    ASSUME SSLInv, Sound(ssl'),
           UNCHANGED <<inside, pausing, lossSeen, asserted, written, flushed>>,
           lapses \subseteq lapses',
           ssl'.disconnecting, ~ssl'.disconnected, ~ssl.disconnected,
           ssl'.connected = ssl.connected,
           ssl'.accepting = ssl.accepting, ssl'.accepted = ssl.accepted,
           ssl'.reading = ssl.reading,
           ssl'.front = ssl.front, ssl'.rest = ssl.rest,
           ssl'.accepted => ssl'.closesPosted = ssl.closesPosted,
           ssl'.shutting /\ ssl'.error = "Done" /\ "close" \notin lapses' =>
                ssl.front + ssl.rest = 0
    PROVE  SSLInv'
<1>1. InCallback(ssl, inside)' /\ Pausing(ssl', pausing')
  BY DEF SSLInv, InCallback, Pausing
<1>2. LossCounted'
  BY DEF SSLInv, LossCounted
<1>3. GracefulSendsAll'
  <2>1. ssl.front \in Nat /\ ssl.rest \in Nat /\ written \in Nat /\ flushed \in Nat
    BY DEF SSLInv, Sound, Counts
  <2>2. written' = flushed' + ssl'.front + ssl'.rest
    BY DEF SSLInv, GracefulSendsAll
  <2>3. ssl'.shutting /\ ssl'.error = "Done" /\ "close" \notin lapses' => flushed' = written'
    BY <2>1 DEF SSLInv, GracefulSendsAll
  <2> QED BY <2>2, <2>3 DEF GracefulSendsAll
<1>4. SSLNeverStalls'
  BY DEF SSLNeverStalls, IsLive
<1>5. written' \in Nat /\ flushed' \in Nat
  BY DEF SSLInv
<1> QED BY <1>1, <1>2, <1>3, <1>4, <1>5 DEF SSLInv

LEMMA LoseInv == ASSUME SSLInv, LoseConnectionSSL PROVE SSLInv'
<1> DEFINE s == Ends(ssl, "Done", FALSE)
<1>0. /\ ~ssl.disconnecting /\ ~ssl.disconnected /\ ssl.connected
      /\ UNCHANGED <<inside, pausing, lossSeen, asserted, written, flushed>>
      /\ lapses \subseteq lapses'
  BY DEF LoseConnectionSSL, IsShut, ghostVars
<1>1. ~ssl.aborting /\ ~ssl.shutting /\ ssl.closesPosted = 0 /\ Sound(ssl)
  BY <1>0, NotShut DEF SSLInv
<1>2. s = [ssl EXCEPT !.error = "Done", !.disconnecting = TRUE]
  BY <1>1 DEF Ends, Sound, Shape, Flags, Fields
<1>3. ssl' = DoCloseSSL(s)
  BY <1>2 DEF LoseConnectionSSL
<1>4. s = Ends(ssl, "Done", "Done" = "Abort")
  OBVIOUS
<1> HIDE DEF s
<1>5. /\ Sound(s) /\ s.disconnecting /\ s.error = "Done"
      /\ \A f \in Fields \ {"error", "disconnecting", "aborting"} : s[f] = ssl[f]
  BY <1>0, <1>1, <1>4, EndsSound
<1>6. /\ s.connected = ssl.connected /\ s.disconnected = ssl.disconnected
      /\ s.accepting = ssl.accepting /\ s.accepted = ssl.accepted
      /\ s.reading = ssl.reading /\ s.writing = ssl.writing /\ s.shutting = ssl.shutting
      /\ s.front = ssl.front /\ s.rest = ssl.rest /\ s.closesPosted = ssl.closesPosted
  BY <1>5 DEF Fields
<1>7. CASE ~s.accepted
  <2>1. ssl' = PostClose(s)
    BY <1>3, <1>7 DEF DoCloseSSL
  <2>2. Sound(ssl')
    BY <1>5, <1>7, <2>1, PostSound
  <2>3. /\ ssl'.connected = s.connected /\ ssl'.disconnected = s.disconnected
        /\ ssl'.disconnecting = s.disconnecting /\ ssl'.accepting = s.accepting
        /\ ssl'.accepted = s.accepted /\ ssl'.reading = s.reading
        /\ ssl'.shutting = s.shutting /\ ssl'.front = s.front /\ ssl'.rest = s.rest
    BY <1>5, <2>1, PostFrame
  <2> QED BY <1>0, <1>1, <1>5, <1>6, <1>7, <2>2, <2>3, EndedInv
<1>8. CASE s.accepted /\ s.writing
  <2>1. ssl' = s
    BY <1>3, <1>8 DEF DoCloseSSL
  <2> QED BY <1>0, <1>1, <1>5, <1>6, <2>1, EndedInv
<1>9. CASE s.accepted /\ ~s.writing
  <2>1. ssl' = StartShutdown(s)
    BY <1>3, <1>9 DEF DoCloseSSL
  <2>2. Sound(ssl')
    BY <1>1, <1>5, <1>6, <1>9, <2>1, ShutdownSound
  <2>3. /\ ssl'.connected = s.connected /\ ssl'.disconnected = s.disconnected
        /\ ssl'.disconnecting = s.disconnecting /\ ssl'.accepting = s.accepting
        /\ ssl'.accepted = s.accepted /\ ssl'.reading = s.reading
        /\ ssl'.front = s.front /\ ssl'.rest = s.rest
        /\ ssl'.closesPosted = s.closesPosted
    BY <1>5, <2>1, StartFrame
  <2>4. "close" \notin lapses' => ssl.front + ssl.rest = 0
    <3>1. "close" \notin lapses' => ~(ssl.front + ssl.rest > 0)
      BY <1>6, <1>9 DEF LoseConnectionSSL
    <3>2. ssl.front \in Nat /\ ssl.rest \in Nat
      BY <1>1 DEF Sound, Counts
    <3> QED BY <3>1, <3>2
  <2> QED BY <1>0, <1>1, <1>5, <1>6, <2>2, <2>3, <2>4, EndedInv
<1> QED BY <1>7, <1>8, <1>9

LEMMA AbortInv == ASSUME SSLInv, AbortConnectionSSL PROVE SSLInv'
<1> DEFINE s == Ends(ssl, "Abort", TRUE)
<1>0. /\ ~ssl.disconnecting /\ ~ssl.disconnected /\ ssl.connected
      /\ UNCHANGED <<callVars, lossSeen, asserted, written, flushed>>
  BY DEF AbortConnectionSSL, IsShut, ghostVars
<1>1. ~ssl.aborting /\ ~ssl.shutting /\ ssl.closesPosted = 0 /\ Sound(ssl)
  BY <1>0, NotShut DEF SSLInv
<1>2. s = [ssl EXCEPT !.error = "Abort", !.disconnecting = TRUE, !.aborting = TRUE]
  BY DEF Ends
<1>3. ssl' = DoAbortSSL(s)
  BY <1>2 DEF AbortConnectionSSL
<1>4. s = Ends(ssl, "Abort", "Abort" = "Abort")
  OBVIOUS
<1> HIDE DEF s
<1>5. /\ Sound(s) /\ s.disconnecting /\ s.error = "Abort" /\ s.aborting
      /\ \A f \in Fields \ {"error", "disconnecting", "aborting"} : s[f] = ssl[f]
  BY <1>0, <1>1, <1>4, EndsSound
<1>6. /\ s.connected = ssl.connected /\ s.disconnected = ssl.disconnected
      /\ s.accepting = ssl.accepting /\ s.accepted = ssl.accepted
      /\ s.reading = ssl.reading /\ s.writing = ssl.writing /\ s.shutting = ssl.shutting
      /\ s.front = ssl.front /\ s.rest = ssl.rest /\ s.closesPosted = ssl.closesPosted
  BY <1>5 DEF Fields
<1>7. CASE ~s.accepted
  <2>1. ssl' = PostClose(s)
    BY <1>3, <1>7 DEF DoAbortSSL
  <2>2. Sound(ssl')
    BY <1>5, <1>7, <2>1, PostSound
  <2>3. /\ ssl'.connected = s.connected /\ ssl'.disconnected = s.disconnected
        /\ ssl'.disconnecting = s.disconnecting /\ ssl'.accepting = s.accepting
        /\ ssl'.accepted = s.accepted /\ ssl'.reading = s.reading
        /\ ssl'.shutting = s.shutting /\ ssl'.front = s.front /\ ssl'.rest = s.rest
    BY <1>5, <2>1, PostFrame
  <2> QED BY <1>0, <1>1, <1>5, <1>6, <1>7, <2>2, <2>3, EndedInv DEF callVars
<1>8. CASE s.accepted
  <2> DEFINE c == IF s.writing THEN CancelAll(s) ELSE s
  <2>1. ssl' = StartShutdown(c)
    BY <1>3, <1>8 DEF DoAbortSSL
  <2>2. Sound(c)
    BY <1>5, CancelSound
  <2>3. /\ c.connected = s.connected /\ c.disconnected = s.disconnected
        /\ c.disconnecting = s.disconnecting /\ c.accepting = s.accepting
        /\ c.accepted = s.accepted /\ c.reading = s.reading /\ c.error = s.error
        /\ c.front = s.front /\ c.rest = s.rest /\ c.closesPosted = s.closesPosted
    BY <1>5, CancelFrame
  <2> HIDE DEF c
  <2>4. Sound(ssl')
    BY <1>1, <1>5, <1>6, <1>8, <2>1, <2>2, <2>3, ShutdownSound
  <2>5. /\ ssl'.connected = c.connected /\ ssl'.disconnected = c.disconnected
        /\ ssl'.disconnecting = c.disconnecting /\ ssl'.accepting = c.accepting
        /\ ssl'.accepted = c.accepted /\ ssl'.reading = c.reading /\ ssl'.error = c.error
        /\ ssl'.front = c.front /\ ssl'.rest = c.rest /\ ssl'.closesPosted = c.closesPosted
    BY <2>1, <2>2, StartFrame
  <2> QED BY <1>0, <1>1, <1>5, <1>6, <2>3, <2>4, <2>5, EndedInv DEF callVars
<1> QED BY <1>7, <1>8

-----------------------------------------------------------------------------
(* Callbacks.                                                              *)

LEMMA ProducerInv == ASSUME SSLInv, RegisterProducerSSL PROVE SSLInv'
<1> PICK kind : ssl' = [ssl EXCEPT !.producer = kind]
  BY DEF RegisterProducerSSL
<1>0. /\ UNCHANGED <<inside, pausing, lapses, lossSeen, asserted, written, flushed>>
      /\ Sound(ssl)
  BY DEF RegisterProducerSSL, callVars, ghostVars, SSLInv
<1>1. Shape(ssl')
  BY <1>0 DEF Sound, Shape, Fields
<1>2. \A f \in Fields \ {"producer"} : ssl'[f] = ssl[f]
  BY <1>0 DEF Sound, Shape, Fields
<1>3. /\ ssl'.connected = ssl.connected /\ ssl'.disconnected = ssl.disconnected
      /\ ssl'.disconnecting = ssl.disconnecting /\ ssl'.aborting = ssl.aborting
      /\ ssl'.error = ssl.error /\ ssl'.accepting = ssl.accepting
      /\ ssl'.accepted = ssl.accepted /\ ssl'.shutting = ssl.shutting
      /\ ssl'.reading = ssl.reading /\ ssl'.writing = ssl.writing
      /\ ssl'.handshakeOp = ssl.handshakeOp /\ ssl'.readOp = ssl.readOp
      /\ ssl'.writeOp = ssl.writeOp /\ ssl'.shutdownOp = ssl.shutdownOp
      /\ ssl'.closesPosted = ssl.closesPosted
      /\ ssl'.front = ssl.front /\ ssl'.rest = ssl.rest
  BY <1>2 DEF Fields
<1>4. Counts(ssl')
  BY <1>0, <1>3 DEF Sound, Counts
<1>5. Flags(ssl') /\ Phases(ssl') /\ Operations(ssl') /\ Cancelled(ssl')
  BY <1>0, <1>3 DEF Sound, Flags, Phases, Operations, Cancelled
<1>6. InCallback(ssl, inside)' /\ LossCounted' /\ Pausing(ssl', pausing') /\ SSLNeverStalls'
  BY <1>0, <1>3 DEF SSLInv, InCallback, LossCounted, Pausing, SSLNeverStalls, IsLive
<1>7. GracefulSendsAll' /\ written' \in Nat /\ flushed' \in Nat
  BY <1>0, <1>3 DEF SSLInv, GracefulSendsAll
<1> QED BY <1>1, <1>4, <1>5, <1>6, <1>7 DEF SSLInv, Sound

LEMMA ConnectInv == ASSUME SSLInv, CbConnectSSL PROVE SSLInv'
<1>0. /\ ~ssl.connected /\ ~ssl.disconnected /\ Sound(ssl)
      /\ ssl' = [ssl EXCEPT !.connected = TRUE]
      /\ pausing = 0 /\ UNCHANGED <<pausing, lapses>>
      /\ inside' = "connectionMade" /\ UNCHANGED <<asserted, written, flushed>>
  BY DEF CbConnectSSL, Becomes, Within, SSLInv
<1>1. Shape(ssl') /\ Flags(ssl')
  BY <1>0 DEF Sound, Shape, Flags, Fields
<1>2. Counts(ssl')
  BY <1>0 DEF Sound, Shape, Counts, Fields
<1>3. Phases(ssl')
  BY <1>0 DEF Sound, Shape, Flags, Phases, Fields
<1>4. Operations(ssl')
  BY <1>0 DEF Sound, Shape, Flags, Phases, Operations, Fields
<1>5. Cancelled(ssl')
  BY <1>0 DEF Sound, Shape, Flags, Cancelled, Phases, Operations, Fields
<1>6. /\ ssl'.connected /\ ssl'.disconnected = ssl.disconnected
      /\ ssl'.accepting = ssl.accepting /\ ssl'.accepted = ssl.accepted
      /\ ssl'.shutting = ssl.shutting /\ ssl'.error = ssl.error
      /\ ssl'.front = ssl.front /\ ssl'.rest = ssl.rest
  BY <1>0 DEF Sound, Shape, Fields
<1>7. ~ssl.accepting /\ ~ssl.accepted
  BY <1>0 DEF Sound, Phases
<1>8. InCallback(ssl, inside)' /\ SSLNeverStalls' /\ Pausing(ssl', pausing')
  BY <1>0, <1>6, <1>7 DEF InCallback, SSLNeverStalls, Pausing
<1>9. LossCounted'
  BY <1>0, <1>6 DEF CbConnectSSL, Becomes, SSLInv, LossCounted
<1>10. GracefulSendsAll' /\ written' \in Nat /\ flushed' \in Nat
  BY <1>0, <1>6 DEF SSLInv, GracefulSendsAll
<1> QED BY <1>1, <1>2, <1>3, <1>4, <1>5, <1>8, <1>9, <1>10 DEF SSLInv, Sound

LEMMA MadeInv == ASSUME SSLInv, ConnectionMadeReturnsSSL PROVE SSLInv'
<1>0. /\ inside = "connectionMade" /\ inside' = "nothing" /\ Sound(ssl)
      /\ ssl.connected /\ ~ssl.accepting /\ ~ssl.accepted /\ pausing = 0
      /\ UNCHANGED <<pausing, lapses, lossSeen, asserted, written, flushed>>
  BY DEF ConnectionMadeReturnsSSL, Within, ghostVars, SSLInv, InCallback
<1>1. CASE ssl.disconnecting
  <2>1. ssl' = ssl
    BY <1>1 DEF ConnectionMadeReturnsSSL
  <2> QED BY <1>0, <1>1, <2>1 DEF SSLInv, InCallback, LossCounted, Pausing, GracefulSendsAll,
                                   SSLNeverStalls, IsLive
<1>2. CASE ~ssl.disconnecting
  <2>0. ssl' = [ssl EXCEPT !.accepting = TRUE, !.handshakeOp = "pending"]
    BY <1>0, <1>2 DEF ConnectionMadeReturnsSSL, DoHandshake
  <2>1. Shape(ssl') /\ Flags(ssl')
    BY <1>0, <2>0 DEF Sound, Shape, Flags, Fields
  <2>2. Counts(ssl')
    BY <1>0, <2>0 DEF Sound, Shape, Counts, Fields
  <2>3. Phases(ssl')
    BY <1>0, <2>0 DEF Sound, Shape, Flags, Phases, Fields
  <2>4. Operations(ssl')
    BY <1>0, <2>0 DEF Sound, Shape, Flags, Phases, Operations, Fields
  <2>5. Cancelled(ssl')
    BY <1>0, <2>0 DEF Sound, Shape, Flags, Cancelled, Phases, Operations, Fields
  <2>6. /\ ssl'.disconnected = ssl.disconnected /\ ssl'.accepted = ssl.accepted
        /\ ssl'.shutting = ssl.shutting /\ ssl'.error = ssl.error
        /\ ssl'.front = ssl.front /\ ssl'.rest = ssl.rest /\ ssl'.accepting
    BY <1>0, <2>0 DEF Sound, Shape, Fields
  <2>7. InCallback(ssl, inside)' /\ SSLNeverStalls' /\ Pausing(ssl', pausing')
    BY <1>0, <2>6 DEF InCallback, SSLNeverStalls, Pausing
  <2>8. LossCounted'
    BY <1>0, <2>6 DEF SSLInv, LossCounted
  <2>9. GracefulSendsAll' /\ written' \in Nat /\ flushed' \in Nat
    BY <1>0, <2>6 DEF SSLInv, GracefulSendsAll
  <2> QED BY <2>1, <2>2, <2>3, <2>4, <2>5, <2>7, <2>8, <2>9 DEF SSLInv, Sound
<1> QED BY <1>1, <1>2

LEMMA ReceivedInv == ASSUME SSLInv, DataReceivedReturnsSSL PROVE SSLInv'
<1>0. /\ inside = "dataReceived" /\ inside' = "nothing" /\ Sound(ssl)
      /\ ~ssl.reading /\ ssl.accepted /\ pausing = 0
      /\ UNCHANGED <<pausing, lapses, lossSeen, asserted, written, flushed>>
  BY DEF DataReceivedReturnsSSL, Within, ghostVars, SSLInv, InCallback
<1>1. CASE ~IsLive(ssl)
  <2>1. ssl' = ssl
    BY <1>1 DEF DataReceivedReturnsSSL
  <2> QED BY <1>0, <1>1, <2>1 DEF SSLInv, InCallback, LossCounted, Pausing, GracefulSendsAll,
                                   SSLNeverStalls, IsLive
<1>2. CASE IsLive(ssl)
  <2>0. ssl' = DoReadSSL(ssl)
    BY <1>2 DEF DataReceivedReturnsSSL
  <2>1. ssl.closesPosted = 0
    BY <1>0, <1>2, NotShut DEF IsLive
  <2>2. Sound(ssl')
    BY <1>0, <2>0, <2>1, ReadSound
  <2>3. /\ ssl'.disconnected = ssl.disconnected /\ ssl'.accepted = ssl.accepted
        /\ ssl'.disconnecting = ssl.disconnecting /\ ssl'.connected = ssl.connected
        /\ ssl'.shutting = ssl.shutting /\ ssl'.error = ssl.error
        /\ ssl'.front = ssl.front /\ ssl'.rest = ssl.rest
        /\ ssl'.writing = ssl.writing /\ ssl'.reading
    BY <1>0, <2>0 DEF DoReadSSL, Sound, Shape, Fields
  <2>4. InCallback(ssl, inside)' /\ SSLNeverStalls' /\ Pausing(ssl', pausing')
    BY <1>0, <2>3 DEF SSLInv, InCallback, SSLNeverStalls, IsLive, Pausing
  <2>5. LossCounted'
    BY <1>0, <2>3 DEF SSLInv, LossCounted
  <2>6. GracefulSendsAll' /\ written' \in Nat /\ flushed' \in Nat
    BY <1>0, <2>3 DEF SSLInv, GracefulSendsAll
  <2> QED BY <2>2, <2>4, <2>5, <2>6 DEF SSLInv
<1> QED BY <1>1, <1>2

-----------------------------------------------------------------------------
(* Handlers.                                                               *)

(* A handler leaves SSLInv when the state it ends in is sound, keeps its   *)
(* bytes, and either reads on or is about to call the application.         *)
LEMMA HandlerInv ==
    ASSUME SSLInv, NEW t, Sound(t), Becomes(t),
           ssl.disconnected => t.disconnected,
           InCallback(t, inside'), ~asserted', flushed' \in Nat,
           written = flushed' + t.front + t.rest,
           t.shutting /\ t.error = "Done" /\ "close" \notin lapses => flushed' = written,
           t.connected /\ IsLive(t) =>
                /\ inside' = "nothing" => t.accepting \/ t.reading \/ "read" \in lapses
                /\ t.accepted /\ t.front + t.rest > 0 => t.writing \/ "write" \in lapses
    PROVE  SSLInv'
<1>1. ssl' = t /\ written' = written /\ lapses' = lapses /\ pausing' = 0
  BY DEF Becomes, Within
<1>2. LossCounted'
  <2>1. lossSeen' = IF t.disconnected /\ ~ssl.disconnected THEN lossSeen + 1 ELSE lossSeen
    BY DEF Becomes
  <2>2. lossSeen = IF ssl.disconnected THEN 1 ELSE 0
    BY DEF SSLInv, LossCounted
  <2>3. lossSeen' = IF t.disconnected THEN 1 ELSE 0
    BY <2>1, <2>2
  <2> QED BY <1>1, <2>3 DEF LossCounted
<1>3. GracefulSendsAll' /\ SSLNeverStalls' /\ InCallback(ssl, inside)'
  BY <1>1 DEF GracefulSendsAll, SSLNeverStalls, InCallback, IsLive
<1>4. Pausing(ssl', pausing')
  BY <1>1 DEF Pausing
<1>5. written' \in Nat
  BY <1>1 DEF SSLInv
<1> QED BY <1>1, <1>2, <1>3, <1>4, <1>5 DEF SSLInv

LEMMA CloseFrame ==
    ASSUME NEW s, NEW e, Sound(s)
    PROVE  LET t == CloseSocketSSL(s, e) IN
           /\ t.disconnected /\ ~t.connected /\ t.shutting = s.shutting
           /\ t.front = s.front /\ t.rest = s.rest
BY DEF CloseSocketSSL, CancelAll, Sound, Shape, Fields

(* An idle handler: the state before it, if only its own operation went.   *)
LEMMA Idle == ASSUME SSLInv, NEW t, Becomes(t) PROVE inside = "nothing" /\ Sound(ssl)
                /\ ssl.front \in Nat /\ ssl.rest \in Nat
BY DEF Becomes, Within, SSLInv, Sound, Counts

LEMMA PostedInv == ASSUME SSLInv, PostedCloseSSL PROVE SSLInv'
<1> DEFINE s == [ssl EXCEPT !.closesPosted = @ - 1]
           t == IF s.disconnected THEN s ELSE CloseSocketSSL(s, s.error)
<1>0. /\ ssl.closesPosted > 0 /\ Becomes(t) /\ UNCHANGED <<inside, asserted, flushed>>
  BY DEF PostedCloseSSL
<1>1. inside = "nothing" /\ Sound(ssl)
  BY <1>0, Idle
<1>2. Shape(s) /\ Flags(s)
  BY <1>1 DEF Sound, Shape, Flags, Fields
<1>3. Counts(s)
  BY <1>0, <1>1 DEF Sound, Shape, Counts, Fields
<1>4. /\ s.connected = ssl.connected /\ s.disconnected = ssl.disconnected
      /\ s.disconnecting = ssl.disconnecting /\ s.aborting = ssl.aborting
      /\ s.error = ssl.error /\ s.accepting = ssl.accepting
      /\ s.accepted = ssl.accepted /\ s.shutting = ssl.shutting
      /\ s.reading = ssl.reading /\ s.writing = ssl.writing
      /\ s.handshakeOp = ssl.handshakeOp /\ s.readOp = ssl.readOp
      /\ s.writeOp = ssl.writeOp /\ s.shutdownOp = ssl.shutdownOp
      /\ s.front = ssl.front /\ s.rest = ssl.rest
  BY <1>1 DEF Sound, Shape, Fields
<1>5. Phases(s) /\ Operations(s) /\ Cancelled(s) /\ ~s.shutting
  BY <1>0, <1>1, <1>4 DEF Sound, Phases, Operations, Cancelled
<1>6. Sound(s)
  BY <1>2, <1>3, <1>5 DEF Sound
<1> HIDE DEF s
<1>7. Sound(t) /\ t.disconnected /\ ~t.shutting /\ t.front = s.front /\ t.rest = s.rest
  <2>1. CASE s.disconnected
    BY <1>5, <1>6, <2>1
  <2>2. CASE ~s.disconnected
    BY <1>5, <1>6, <2>2, CloseSound, CloseFrame
  <2> QED BY <2>1, <2>2
<1> HIDE DEF t
<1>8. InCallback(t, inside') /\ ~asserted' /\ flushed' \in Nat
  BY <1>0, <1>1 DEF InCallback, SSLInv, LossCounted
<1>9. written = flushed' + t.front + t.rest
  BY <1>0, <1>4, <1>7 DEF SSLInv, GracefulSendsAll
<1> QED BY <1>0, <1>7, <1>8, <1>9, HandlerInv DEF IsLive

LEMMA ShutInv == ASSUME SSLInv, CbShutdown PROVE SSLInv'
<1> DEFINE s == [ssl EXCEPT !.shutting = FALSE, !.shutdownOp = "none"]
           t == CloseSocketSSL(s, IF ssl.shutdownOp = "err" THEN "Sys" ELSE s.error)
<1>0. /\ ssl.shutdownOp # "none" /\ Becomes(t) /\ UNCHANGED <<inside, flushed>>
      /\ asserted' = (asserted \/ ssl.disconnected)
  BY DEF CbShutdown
<1>1. inside = "nothing" /\ Sound(ssl)
  BY <1>0, Idle
<1>2. ~ssl.disconnected
  BY <1>0, <1>1 DEF Sound, Operations, Phases
<1>3. Shape(s) /\ Flags(s)
  BY <1>1 DEF Sound, Shape, Flags, Fields
<1>4. Counts(s)
  BY <1>1 DEF Sound, Shape, Counts, Fields
<1>5. /\ s.connected = ssl.connected /\ s.disconnected = ssl.disconnected
      /\ s.disconnecting = ssl.disconnecting /\ s.aborting = ssl.aborting
      /\ s.error = ssl.error /\ s.accepting = ssl.accepting
      /\ s.accepted = ssl.accepted /\ s.shutting = FALSE
      /\ s.reading = ssl.reading /\ s.writing = ssl.writing
      /\ s.handshakeOp = ssl.handshakeOp /\ s.readOp = ssl.readOp
      /\ s.writeOp = ssl.writeOp /\ s.shutdownOp = "none"
      /\ s.closesPosted = ssl.closesPosted
      /\ s.front = ssl.front /\ s.rest = ssl.rest
  BY <1>1 DEF Sound, Shape, Fields
<1>6. Phases(s) /\ Operations(s) /\ Cancelled(s)
  BY <1>1, <1>5 DEF Sound, Phases, Operations, Cancelled
<1>7. Sound(s)
  BY <1>3, <1>4, <1>6 DEF Sound
<1> HIDE DEF s
<1>8. Sound(t) /\ t.disconnected /\ ~t.shutting /\ t.front = s.front /\ t.rest = s.rest
  BY <1>5, <1>7, CloseSound, CloseFrame
<1> HIDE DEF t
<1>9. InCallback(t, inside') /\ ~asserted' /\ flushed' \in Nat
  BY <1>0, <1>1, <1>2 DEF InCallback, SSLInv, LossCounted
<1>10. written = flushed' + t.front + t.rest
  BY <1>0, <1>5, <1>8 DEF SSLInv, GracefulSendsAll
<1> QED BY <1>0, <1>8, <1>9, <1>10, HandlerInv DEF IsLive

LEMMA FailFrame ==
    ASSUME NEW s, NEW op, Sound(s), op # "none"
    PROVE  LET t == OperationFailed(s, op) IN
           /\ t.front = s.front /\ t.rest = s.rest /\ t.accepted = s.accepted
           /\ t.connected = s.connected /\ t.disconnected = s.disconnected
           /\ t.aborting = s.aborting /\ t.closesPosted = s.closesPosted
           /\ s.disconnected => t = s
           /\ ~s.disconnected => t.disconnecting
           /\ ~s.disconnected /\ op = "aborted" => t.error = s.error
           /\ ~s.disconnected /\ op # "aborted" => t.error \in {"Eof", "Sys"}
BY DEF OperationFailed, StartShutdown, Sound, Shape, Fields

LEMMA ReadInv == ASSUME SSLInv, CbReadSSL PROVE SSLInv'
<1> DEFINE s == [ssl EXCEPT !.reading = FALSE, !.readOp = "none"]
           op == ssl.readOp
           t == IF op = "ok" THEN s ELSE OperationFailed(s, op)
<1>0. /\ op # "none" /\ Becomes(t) /\ UNCHANGED flushed
      /\ inside' = IF op = "ok" /\ ~s.disconnecting THEN "dataReceived" ELSE inside
      /\ asserted' = (asserted \/ NoReason(op))
  BY DEF CbReadSSL
<1>1. inside = "nothing" /\ Sound(ssl) /\ ssl.front \in Nat /\ ssl.rest \in Nat
  BY <1>0, Idle
<1>2. Shape(s) /\ Flags(s)
  BY <1>1 DEF Sound, Shape, Flags, Fields
<1>3. Counts(s)
  BY <1>1 DEF Sound, Shape, Counts, Fields
<1>4. /\ s.connected = ssl.connected /\ s.disconnected = ssl.disconnected
      /\ s.disconnecting = ssl.disconnecting /\ s.aborting = ssl.aborting
      /\ s.error = ssl.error /\ s.accepting = ssl.accepting
      /\ s.accepted = ssl.accepted /\ s.shutting = ssl.shutting
      /\ s.reading = FALSE /\ s.writing = ssl.writing
      /\ s.handshakeOp = ssl.handshakeOp /\ s.readOp = "none"
      /\ s.writeOp = ssl.writeOp /\ s.shutdownOp = ssl.shutdownOp
      /\ s.closesPosted = ssl.closesPosted
      /\ s.front = ssl.front /\ s.rest = ssl.rest
  BY <1>1 DEF Sound, Shape, Fields
<1>5. Phases(s) /\ Operations(s) /\ Cancelled(s)
  BY <1>1, <1>4 DEF Sound, Phases, Operations, Cancelled
<1>6. Sound(s)
  BY <1>2, <1>3, <1>5 DEF Sound
<1>7. /\ s.accepted /\ ~(s.closesPosted > 0)
      /\ op = "aborted" => s.aborting \/ s.disconnected
      /\ s.aborting => s.error # "Done" /\ s.error # "none"
  BY <1>0, <1>1, <1>4 DEF Sound, Operations, Phases, Cancelled
<1>8. s.closesPosted = 0
  BY <1>7, <1>3 DEF Counts
<1>9. ~asserted' /\ flushed' \in Nat
  <2>1. ~NoReason(op)
    BY <1>4, <1>7 DEF NoReason
  <2> QED BY <1>0, <2>1 DEF SSLInv, LossCounted
<1> HIDE DEF s, op
<1>10. CASE op = "ok"
  <2>1. t = s /\ Sound(t)
    BY <1>6, <1>10
  <2>2. InCallback(t, inside')
    BY <1>0, <1>1, <1>4, <1>7, <2>1 DEF InCallback
  <2>3. written = flushed' + t.front + t.rest
    BY <1>0, <1>4, <2>1 DEF SSLInv, GracefulSendsAll
  <2>4. t.shutting /\ t.error = "Done" /\ "close" \notin lapses => flushed' = written
    BY <1>0, <1>4, <2>1 DEF SSLInv, GracefulSendsAll
  <2>5. t.connected /\ IsLive(t) =>
            /\ inside' = "dataReceived"
            /\ t.accepted /\ t.front + t.rest > 0 => t.writing \/ "write" \in lapses
    <3>1. pausing = 0
      BY <1>0 DEF Becomes, Within
    <3> QED BY <1>0, <1>4, <1>10, <2>1, <3>1 DEF IsLive, SSLInv, SSLNeverStalls
  <2>6. ssl.disconnected => t.disconnected
    BY <1>4, <2>1
  <2> HIDE DEF t
  <2> QED BY <1>0, <1>9, <2>1, <2>2, <2>3, <2>4, <2>5, <2>6, HandlerInv
<1>11. CASE op # "ok"
  <2>1. t = OperationFailed(s, op) /\ inside' = "nothing"
    BY <1>0, <1>1, <1>11
  <2>2. Sound(t)
    BY <1>6, <1>7, <1>8, <2>1, FailedSound
  <2>3. /\ t.front = s.front /\ t.rest = s.rest /\ t.accepted = s.accepted
        /\ t.disconnected = s.disconnected
        /\ s.disconnected => t = s
        /\ ~s.disconnected => t.disconnecting
        /\ ~s.disconnected /\ op = "aborted" => t.error = s.error
        /\ ~s.disconnected /\ op # "aborted" => t.error \in {"Eof", "Sys"}
    BY <1>0, <1>6, <2>1, FailFrame
  <2> HIDE DEF t
  <2>4. InCallback(t, inside')
    BY <2>1 DEF InCallback
  <2>5. written = flushed' + t.front + t.rest
    BY <1>0, <1>4, <2>3 DEF SSLInv, GracefulSendsAll
  <2>6. t.shutting /\ t.error = "Done" /\ "close" \notin lapses => flushed' = written
    BY <1>0, <1>4, <1>7, <2>3 DEF SSLInv, GracefulSendsAll
  <2>7. ~IsLive(t)
    BY <2>3 DEF IsLive
  <2> QED BY <1>0, <1>4, <1>9, <2>2, <2>3, <2>4, <2>5, <2>6, <2>7, HandlerInv
<1> QED BY <1>10, <1>11

(* The rest of cbWrite: the bytes stay, and are being written if they must.*)
WrittenOn(s, t) ==
    /\ Sound(t) /\ t.front + t.rest = s.front + s.rest
    /\ t.front \in Nat /\ t.rest \in Nat
    /\ t.disconnected = s.disconnected /\ t.disconnecting = s.disconnecting
    /\ t.connected = s.connected /\ t.accepted = s.accepted
    /\ t.reading = s.reading
    /\ t.shutting = s.shutting /\ t.error = s.error
    /\ ~s.aborting /\ ~s.disconnected /\ t.front + t.rest > 0 => t.writing

LEMMA WriteOnSound ==
    ASSUME NEW s, Sound(s), s.accepted, s.closesPosted = 0
    PROVE  WrittenOn(s, WriteOn(s))
<1> DEFINE t == WriteOn(s)
<1> SUFFICES WrittenOn(s, t)
  OBVIOUS
<1>1. s.front \in Nat /\ s.rest \in Nat
  BY DEF Sound, Counts
<1>2. CASE s.aborting \/ s.disconnected
  <2>1. t = s
    BY <1>2 DEF WriteOn
  <2> QED BY <1>1, <1>2, <2>1 DEF WrittenOn
<1>3. CASE ~(s.aborting \/ s.disconnected) /\ s.front + s.rest > 0
  <2>1. t = DoWriteSSL(s)
    BY <1>3 DEF WriteOn
  <2>2. Sound(t)
    BY <2>1, WriteSound
  <2>3. t.front = s.front + s.rest /\ t.rest = 0 /\ t.writing
    BY <2>1 DEF DoWriteSSL, Sound, Shape, Fields
  <2>4. /\ t.disconnected = s.disconnected /\ t.disconnecting = s.disconnecting
        /\ t.connected = s.connected /\ t.accepted = s.accepted
        /\ t.reading = s.reading
        /\ t.shutting = s.shutting /\ t.error = s.error
    BY <2>1 DEF DoWriteSSL, Sound, Shape, Fields
  <2> HIDE DEF t
  <2>5. t.front + t.rest = s.front + s.rest /\ t.front \in Nat /\ t.rest \in Nat
    BY <1>1, <2>3
  <2> QED BY <2>2, <2>3, <2>4, <2>5 DEF WrittenOn
<1>4. CASE ~(s.aborting \/ s.disconnected) /\ ~(s.front + s.rest > 0)
  <2>1. t = ResumeProducer(s)
    BY <1>4 DEF WriteOn
  <2>2. Shape(t)
    BY <2>1 DEF ResumeProducer, Sound, Shape, Fields
  <2>3. /\ t.connected = s.connected /\ t.disconnected = s.disconnected
        /\ t.disconnecting = s.disconnecting /\ t.aborting = s.aborting
        /\ t.error = s.error /\ t.accepting = s.accepting
        /\ t.accepted = s.accepted /\ t.shutting = s.shutting
        /\ t.reading = s.reading /\ t.writing = s.writing
        /\ t.handshakeOp = s.handshakeOp /\ t.readOp = s.readOp
        /\ t.writeOp = s.writeOp /\ t.shutdownOp = s.shutdownOp
        /\ t.closesPosted = s.closesPosted
        /\ t.front = s.front /\ t.rest = s.rest
    BY <2>1 DEF ResumeProducer, Sound, Shape, Fields
  <2> HIDE DEF t
  <2>4. Counts(t)
    BY <2>3 DEF Sound, Counts
  <2>5. Flags(t) /\ Phases(t) /\ Operations(t) /\ Cancelled(t)
    BY <2>3 DEF Sound, Flags, Phases, Operations, Cancelled
  <2>6. t.front + t.rest = s.front + s.rest /\ ~(t.front + t.rest > 0)
    BY <1>4, <2>3
  <2> QED BY <1>1, <2>2, <2>3, <2>4, <2>5, <2>6 DEF Sound, WrittenOn
<1> QED BY <1>2, <1>3, <1>4

(* The last of the bytes is written.                                       *)
LEMMA AllWritten ==
    ASSUME NEW front \in Nat, NEW rest \in Nat, NEW n \in Nat, n =< front,
           (front - n) + rest = 0
    PROVE  n = front + rest
OBVIOUS

LEMMA WriteOkInv == ASSUME SSLInv, CbWriteOkSSL PROVE SSLInv'
<1>0. PICK n : n \in 1..ssl.front /\
        LET s == [ssl EXCEPT !.writing = FALSE, !.writeOp = "none", !.front = @ - n]
            empty == s.front + s.rest = 0
        IN /\ Becomes(WriteOn(IF (s.disconnecting /\ empty) \/ s.aborting
                              THEN StartShutdown(s) ELSE s))
           /\ flushed' = flushed + n
  BY DEF CbWriteOkSSL
<1> DEFINE s == [ssl EXCEPT !.writing = FALSE, !.writeOp = "none", !.front = @ - n]
           ends == (s.disconnecting /\ s.front + s.rest = 0) \/ s.aborting
           u == IF ends THEN StartShutdown(s) ELSE s
           t == WriteOn(u)
<1>a. Becomes(t) /\ flushed' = flushed + n /\ UNCHANGED <<inside, asserted>>
      /\ ssl.writeOp = "ok" /\ n \in 1..ssl.front
  BY <1>0 DEF CbWriteOkSSL
<1>1. /\ inside = "nothing" /\ Sound(ssl) /\ ssl.front \in Nat /\ ssl.rest \in Nat
      /\ written \in Nat /\ flushed \in Nat /\ n \in Nat /\ n >= 1 /\ n =< ssl.front
      /\ written = flushed + ssl.front + ssl.rest
  BY <1>a, Idle DEF SSLInv, GracefulSendsAll
<1>2. Shape(s) /\ Flags(s)
  BY <1>1 DEF Sound, Shape, Flags, Fields
<1>4. /\ s.connected = ssl.connected /\ s.disconnected = ssl.disconnected
      /\ s.disconnecting = ssl.disconnecting /\ s.aborting = ssl.aborting
      /\ s.error = ssl.error /\ s.accepting = ssl.accepting
      /\ s.accepted = ssl.accepted /\ s.shutting = ssl.shutting
      /\ s.reading = ssl.reading /\ s.writing = FALSE
      /\ s.handshakeOp = ssl.handshakeOp /\ s.readOp = ssl.readOp
      /\ s.writeOp = "none" /\ s.shutdownOp = ssl.shutdownOp
      /\ s.closesPosted = ssl.closesPosted
      /\ s.front = ssl.front - n /\ s.rest = ssl.rest
  BY <1>1 DEF Sound, Shape, Fields
<1>3. Counts(s)
  BY <1>1, <1>4 DEF Sound, Counts
<1>5. Phases(s) /\ Operations(s) /\ Cancelled(s)
  BY <1>1, <1>4 DEF Sound, Phases, Operations, Cancelled
<1>6. Sound(s)
  BY <1>2, <1>3, <1>5 DEF Sound
<1>7. /\ s.accepted /\ ~(s.closesPosted > 0)
      /\ s.aborting => s.error # "Done" /\ s.disconnecting
  BY <1>1, <1>a, <1>4 DEF Sound, Operations, Phases
<1>8. s.closesPosted = 0
  BY <1>7, <1>3 DEF Counts
<1> HIDE DEF s
<1>9. /\ Sound(u) /\ u.front = s.front /\ u.rest = s.rest /\ u.error = s.error
      /\ u.connected = s.connected /\ u.disconnected = s.disconnected
      /\ u.disconnecting = s.disconnecting /\ u.accepted = s.accepted
      /\ u.reading = s.reading
      /\ u.closesPosted = s.closesPosted /\ u.aborting = s.aborting
      /\ ~ends => u.shutting = s.shutting
  <2>1. CASE ends
    <3>1. u = StartShutdown(s) /\ s.disconnecting
      BY <1>7, <2>1
    <3>2. Sound(u)
      BY <1>6, <1>7, <1>8, <3>1, ShutdownSound
    <3>3. u.closesPosted = s.closesPosted /\ u.aborting = s.aborting
      BY <1>6, <3>1 DEF StartShutdown, Sound, Shape, Fields
    <3> QED BY <1>6, <2>1, <3>1, <3>2, <3>3, StartFrame
  <2>2. CASE ~ends
    BY <1>6, <2>2
  <2> QED BY <2>1, <2>2
<1> HIDE DEF u, ends
<1>10. WrittenOn(u, t)
  BY <1>7, <1>8, <1>9, WriteOnSound
<1> HIDE DEF t
<1>11. t.front + t.rest = ssl.front - n + ssl.rest
  BY <1>4, <1>9, <1>10 DEF WrittenOn
<1>12. written = flushed' + t.front + t.rest /\ flushed' \in Nat
  <2>1. t.front \in Nat /\ t.rest \in Nat
    BY <1>10 DEF WrittenOn
  <2> QED BY <1>1, <1>a, <1>11, <2>1
<1>13. t.shutting /\ t.error = "Done" /\ "close" \notin lapses => flushed' = written
  <2>1. SUFFICES ASSUME t.shutting, t.error = "Done", "close" \notin lapses
                 PROVE  flushed' = written
    OBVIOUS
  <2>2. u.shutting /\ s.error = "Done" /\ ~s.aborting
    BY <1>7, <1>9, <1>10, <2>1 DEF WrittenOn
  <2>3. CASE ends
    <3>1. s.front + s.rest = 0
      BY <2>2, <2>3 DEF ends
    <3>2. s.front = ssl.front - n /\ s.rest = ssl.rest /\ flushed' = flushed + n
      BY <1>a, <1>4
    <3>3. (ssl.front - n) + ssl.rest = 0
      BY <3>1, <3>2
    <3>4. /\ ssl.front \in Nat /\ ssl.rest \in Nat /\ flushed \in Nat
          /\ n \in Nat /\ n =< ssl.front
      BY <1>1
    <3>5. n = ssl.front + ssl.rest
      BY <3>3, <3>4, AllWritten
    <3>6. written = flushed + (ssl.front + ssl.rest)
      BY <1>1
    <3> QED BY <3>2, <3>5, <3>6
  <2>4. CASE ~ends
    <3>1. ssl.shutting /\ ssl.error = "Done"
      BY <1>4, <1>9, <2>2, <2>4
    <3>2. flushed = written
      BY <2>1, <3>1 DEF SSLInv, GracefulSendsAll
    <3> QED BY <1>1, <3>2
  <2> QED BY <2>3, <2>4
<1>14. t.connected /\ IsLive(t) =>
            (t.reading \/ "read" \in lapses) /\ (t.front + t.rest > 0 => t.writing)
  <2>1. SUFFICES ASSUME t.connected, IsLive(t)
                 PROVE  /\ t.reading \/ "read" \in lapses
                        /\ t.front + t.rest > 0 => t.writing
    OBVIOUS
  <2>2. s.connected /\ IsLive(s) /\ t.reading = s.reading /\ s.aborting = u.aborting
        /\ s.disconnected = u.disconnected
    BY <1>9, <1>10, <2>1 DEF WrittenOn, IsLive
  <2>3. ssl.reading \/ "read" \in lapses
    <3>1. ~ssl.accepting
      BY <1>1, <1>4, <1>7 DEF Sound, Phases
    <3> QED BY <1>1, <1>4, <2>2, <3>1 DEF SSLInv, SSLNeverStalls, IsLive
  <2>4. ~s.aborting
    BY <1>7, <2>2 DEF IsLive
  <2> QED BY <1>4, <1>10, <2>2, <2>3, <2>4 DEF WrittenOn, IsLive
<1>15. InCallback(t, inside') /\ ~asserted'
  BY <1>a, <1>1 DEF InCallback, SSLInv, LossCounted
<1>16. ssl.disconnected => t.disconnected
  BY <1>4, <1>9, <1>10 DEF WrittenOn
<1>17. Sound(t)
  BY <1>10 DEF WrittenOn
<1> QED BY <1>a, <1>12, <1>13, <1>14, <1>15, <1>16, <1>17, HandlerInv

LEMMA WriteFailedInv == ASSUME SSLInv, CbWriteFailedSSL PROVE SSLInv'
<1> DEFINE s == [ssl EXCEPT !.writing = FALSE, !.writeOp = "none"]
           op == ssl.writeOp
           u == OperationFailed(s, op)
           t == WriteOn(u)
<1>a. /\ op # "none" /\ Becomes(t) /\ UNCHANGED <<inside, flushed>>
      /\ asserted' = (asserted \/ NoReason(op))
  BY DEF CbWriteFailedSSL
<1>1. inside = "nothing" /\ Sound(ssl) /\ ssl.front \in Nat /\ ssl.rest \in Nat
  BY <1>a, Idle
<1>2. Shape(s) /\ Flags(s)
  BY <1>1 DEF Sound, Shape, Flags, Fields
<1>4. /\ s.connected = ssl.connected /\ s.disconnected = ssl.disconnected
      /\ s.disconnecting = ssl.disconnecting /\ s.aborting = ssl.aborting
      /\ s.error = ssl.error /\ s.accepting = ssl.accepting
      /\ s.accepted = ssl.accepted /\ s.shutting = ssl.shutting
      /\ s.reading = ssl.reading /\ s.writing = FALSE
      /\ s.handshakeOp = ssl.handshakeOp /\ s.readOp = ssl.readOp
      /\ s.writeOp = "none" /\ s.shutdownOp = ssl.shutdownOp
      /\ s.closesPosted = ssl.closesPosted
      /\ s.front = ssl.front /\ s.rest = ssl.rest
  BY <1>1 DEF Sound, Shape, Fields
<1>3. Counts(s)
  BY <1>1, <1>4 DEF Sound, Counts
<1>5. Phases(s) /\ Operations(s) /\ Cancelled(s)
  BY <1>1, <1>4 DEF Sound, Phases, Operations, Cancelled
<1>6. Sound(s)
  BY <1>2, <1>3, <1>5 DEF Sound
<1>7. /\ s.accepted /\ ~(s.closesPosted > 0)
      /\ op = "aborted" => s.aborting \/ s.disconnected
      /\ s.aborting => s.error # "Done" /\ s.error # "none"
  BY <1>a, <1>1, <1>4 DEF Sound, Operations, Phases, Cancelled
<1>8. s.closesPosted = 0
  BY <1>7, <1>3 DEF Counts
<1>9. ~asserted' /\ flushed' \in Nat
  <2>1. ~NoReason(op)
    BY <1>4, <1>7 DEF NoReason
  <2> QED BY <1>a, <2>1 DEF SSLInv, LossCounted
<1> HIDE DEF s, op
<1>10. /\ Sound(u)
       /\ u.front = s.front /\ u.rest = s.rest /\ u.accepted = s.accepted
       /\ u.disconnected = s.disconnected /\ u.closesPosted = s.closesPosted
       /\ s.disconnected => u = s
       /\ ~s.disconnected => u.disconnecting
       /\ ~s.disconnected /\ op = "aborted" => u.error = s.error
       /\ ~s.disconnected /\ op # "aborted" => u.error \in {"Eof", "Sys"}
  <2>1. Sound(u)
    BY <1>6, <1>7, <1>8, FailedSound
  <2>2. op # "none"
    BY <1>a
  <2> QED BY <1>6, <2>1, <2>2, FailFrame
<1> HIDE DEF u
<1>11. WrittenOn(u, t)
  BY <1>7, <1>8, <1>10, WriteOnSound
<1> HIDE DEF t
<1>12. /\ Sound(t) /\ t.disconnected = s.disconnected
       /\ t.disconnecting = u.disconnecting
       /\ t.shutting = u.shutting /\ t.error = u.error
  BY <1>10, <1>11 DEF WrittenOn
<1>13. written = flushed' + t.front + t.rest
  <2>1. /\ t.front \in Nat /\ t.rest \in Nat /\ flushed \in Nat
        /\ t.front + t.rest = ssl.front + ssl.rest
    BY <1>4, <1>10, <1>11 DEF WrittenOn, SSLInv
  <2> QED BY <1>a, <1>1, <2>1 DEF SSLInv, GracefulSendsAll
<1>14. t.shutting /\ t.error = "Done" /\ "close" \notin lapses => flushed' = written
  BY <1>a, <1>4, <1>7, <1>10, <1>12 DEF SSLInv, GracefulSendsAll
<1>15. ~IsLive(t) /\ InCallback(t, inside')
  BY <1>a, <1>1, <1>10, <1>12 DEF IsLive, InCallback
<1> QED BY <1>a, <1>4, <1>9, <1>12, <1>13, <1>14, <1>15, HandlerInv

LEMMA HandshakeInv == ASSUME SSLInv, CbHandshake PROVE SSLInv'
<1> DEFINE s == [ssl EXCEPT !.accepting = FALSE, !.handshakeOp = "none"]
           up == [s EXCEPT !.accepted = TRUE]
           e == IF ssl.handshakeOp = "aborted" THEN s.error ELSE "Sys"
           r == StartReading(up)
           t == IF ssl.handshakeOp # "ok"
                THEN IF s.disconnected THEN s ELSE CloseSocketSSL(s, e)
                ELSE IF IsLive(s)
                THEN IF r.front + r.rest > 0 THEN StartWriting(r) ELSE r
                ELSE up
<1>0. /\ ssl.handshakeOp \in {"ok", "err", "aborted"} /\ Becomes(t)
      /\ UNCHANGED <<inside, asserted, flushed>>
  BY DEF CbHandshake
<1>1. inside = "nothing" /\ Sound(ssl) /\ ssl.front \in Nat /\ ssl.rest \in Nat
  BY <1>0, Idle
<1>2. /\ ssl.accepting /\ ~ssl.accepted /\ ~ssl.reading /\ ~ssl.writing /\ ~ssl.shutting
  BY <1>0, <1>1 DEF Sound, Operations, Phases
<1>3. Shape(s) /\ Flags(s)
  BY <1>1 DEF Sound, Shape, Flags, Fields
<1>4. /\ s.connected = ssl.connected /\ s.disconnected = ssl.disconnected
      /\ s.disconnecting = ssl.disconnecting /\ s.aborting = ssl.aborting
      /\ s.error = ssl.error /\ s.accepting = FALSE
      /\ s.accepted = ssl.accepted /\ s.shutting = ssl.shutting
      /\ s.reading = ssl.reading /\ s.writing = ssl.writing
      /\ s.handshakeOp = "none" /\ s.readOp = ssl.readOp
      /\ s.writeOp = ssl.writeOp /\ s.shutdownOp = ssl.shutdownOp
      /\ s.closesPosted = ssl.closesPosted /\ s.front = ssl.front
      /\ s.rest = ssl.rest
  BY <1>1 DEF Sound, Shape, Fields
<1>5. Counts(s)
  BY <1>1, <1>4 DEF Sound, Counts
<1>6. Phases(s) /\ Operations(s) /\ Cancelled(s)
  BY <1>1, <1>4 DEF Sound, Phases, Operations, Cancelled
<1>7. Sound(s)
  BY <1>3, <1>5, <1>6 DEF Sound
<1>8. ~asserted' /\ flushed' \in Nat /\ InCallback(t, inside')
  BY <1>0, <1>1 DEF SSLInv, LossCounted, InCallback
<1> HIDE DEF s
<1>9. CASE ssl.handshakeOp # "ok"
  <2>1. t = IF s.disconnected THEN s ELSE CloseSocketSSL(s, e)
    BY <1>9
  <2>2. Sound(t) /\ t.disconnected /\ ~t.shutting /\ t.front = s.front /\ t.rest = s.rest
    <3>1. CASE s.disconnected
      BY <1>2, <1>4, <1>7, <2>1, <3>1
    <3>2. CASE ~s.disconnected
      <4>1. t = CloseSocketSSL(s, e) /\ ~s.shutting
        BY <1>2, <1>4, <2>1, <3>2
      <4> HIDE DEF t, e
      <4>2. Sound(CloseSocketSSL(s, e))
        BY <1>7, <4>1, CloseSound
      <4>3. LET c == CloseSocketSSL(s, e) IN
              c.disconnected /\ c.shutting = s.shutting /\ c.front = s.front /\ c.rest = s.rest
        BY <1>7, CloseFrame
      <4> QED BY <4>1, <4>2, <4>3
    <3> QED BY <3>1, <3>2
  <2> HIDE DEF t
  <2>3. written = flushed' + t.front + t.rest
    BY <1>0, <1>4, <2>2 DEF SSLInv, GracefulSendsAll
  <2> QED BY <1>0, <1>8, <2>2, <2>3, HandlerInv DEF IsLive
<1>10. CASE ssl.handshakeOp = "ok"
  <2>1. Shape(up) /\ Flags(up)
    BY <1>7 DEF Sound, Shape, Flags, Fields
  <2>2. /\ up.connected = s.connected /\ up.disconnected = s.disconnected
        /\ up.disconnecting = s.disconnecting /\ up.aborting = s.aborting
        /\ up.error = s.error /\ up.accepting = s.accepting
        /\ up.accepted = TRUE /\ up.shutting = s.shutting
        /\ up.reading = s.reading /\ up.writing = s.writing
        /\ up.handshakeOp = s.handshakeOp /\ up.readOp = s.readOp
        /\ up.writeOp = s.writeOp /\ up.shutdownOp = s.shutdownOp
        /\ up.closesPosted = s.closesPosted /\ up.front = s.front
        /\ up.rest = s.rest
    BY <1>7 DEF Sound, Shape, Fields
  <2>3. Counts(up)
    BY <1>7, <2>2 DEF Sound, Counts
  <2>4. Phases(up) /\ Operations(up) /\ Cancelled(up)
    <3>1. s.connected \/ s.disconnected
      BY <1>1, <1>2, <1>4 DEF Sound, Phases
    <3> QED BY <1>7, <1>4, <2>2, <3>1 DEF Sound, Phases, Operations, Cancelled
  <2>5. Sound(up)
    BY <2>1, <2>3, <2>4 DEF Sound
  <2> HIDE DEF up
  <2>6. CASE ~IsLive(s)
    <3>1. t = up
      BY <1>10, <2>6
    <3> HIDE DEF t
    <3>2. written = flushed' + t.front + t.rest
      BY <1>0, <1>4, <2>2, <3>1 DEF SSLInv, GracefulSendsAll
    <3>3. ~t.shutting /\ ~IsLive(t) /\ (ssl.disconnected => t.disconnected)
      BY <1>2, <1>4, <2>2, <2>6, <3>1 DEF IsLive
    <3> QED BY <1>0, <1>8, <2>5, <3>1, <3>2, <3>3, HandlerInv
  <2>7. CASE IsLive(s)
    <3>1. t = IF r.front + r.rest > 0 THEN StartWriting(r) ELSE r
      BY <1>10, <2>7
    <3>2. r = DoReadSSL(up)
      BY <1>2, <1>4, <2>2 DEF StartReading
    <3>3. up.closesPosted = 0
      BY <1>7, <2>2, <2>7, NotShut DEF IsLive
    <3>4. Sound(r)
      BY <2>2, <2>5, <3>2, <3>3, ReadSound
    <3>5. /\ r.connected = up.connected /\ r.disconnected = up.disconnected
          /\ r.disconnecting = up.disconnecting /\ r.aborting = up.aborting
          /\ r.error = up.error /\ r.accepting = up.accepting
          /\ r.accepted = up.accepted /\ r.shutting = up.shutting
          /\ r.reading = TRUE /\ r.writing = up.writing
          /\ r.handshakeOp = up.handshakeOp /\ r.readOp = "pending"
          /\ r.writeOp = up.writeOp /\ r.shutdownOp = up.shutdownOp
          /\ r.closesPosted = up.closesPosted /\ r.front = up.front
          /\ r.rest = up.rest
      BY <2>5, <3>2 DEF DoReadSSL, Sound, Shape, Fields
    <3> HIDE DEF r
    <3>6. /\ Sound(t) /\ t.front + t.rest = r.front + r.rest
          /\ t.reading = r.reading /\ t.shutting = r.shutting
          /\ t.front \in Nat /\ t.rest \in Nat
          /\ t.front + t.rest > 0 => t.writing
      <4>1. CASE r.front + r.rest > 0
        <5>1. t = DoWriteSSL(r)
          BY <1>2, <1>4, <2>2, <3>1, <3>5, <4>1 DEF StartWriting
        <5> HIDE DEF t
        <5>2. Sound(t)
          BY <2>2, <3>3, <3>4, <3>5, <5>1, WriteSound
        <5>3. t.front = r.front + r.rest /\ t.rest = 0 /\ t.writing
          BY <3>4, <5>1 DEF DoWriteSSL, Sound, Shape, Fields
        <5>4. t.reading = r.reading /\ t.shutting = r.shutting
          BY <3>4, <5>1 DEF DoWriteSSL, Sound, Shape, Fields
        <5>5. r.front \in Nat /\ r.rest \in Nat
          BY <3>4 DEF Sound, Counts
        <5>6. t.front + t.rest = r.front + r.rest /\ t.front \in Nat /\ t.rest \in Nat
          BY <5>3, <5>5
        <5> QED BY <5>2, <5>3, <5>4, <5>6
      <4>2. CASE ~(r.front + r.rest > 0)
        <5>1. t = r
          BY <3>1, <4>2
        <5> QED BY <3>4, <4>2, <5>1 DEF Sound, Counts
      <4> QED BY <4>1, <4>2
    <3> HIDE DEF t
    <3>7. written = flushed' + t.front + t.rest
      <4>1. /\ t.front \in Nat /\ t.rest \in Nat /\ flushed \in Nat
            /\ t.front + t.rest = ssl.front + ssl.rest
        BY <1>4, <2>2, <3>5, <3>6 DEF SSLInv
      <4> QED BY <1>0, <1>1, <4>1 DEF SSLInv, GracefulSendsAll
    <3>8. ~t.shutting /\ t.reading /\ ~ssl.disconnected
      BY <1>2, <1>4, <2>2, <2>7, <3>5, <3>6 DEF IsLive
    <3> QED BY <1>0, <1>8, <3>6, <3>7, <3>8, HandlerInv
  <2> QED BY <2>6, <2>7
<1> QED BY <1>0, <1>9, <1>10

-----------------------------------------------------------------------------
(* Operations complete.                                                    *)

LEMMA CompletesInv ==
    ASSUME SSLInv, NEW op \in {"handshakeOp", "readOp", "writeOp", "shutdownOp"},
           NEW how \in {"ok", "eof", "short", "err"},
           ssl[op] = "pending", ssl' = [ssl EXCEPT ![op] = how],
           UNCHANGED <<callVars, lossSeen, asserted, written, flushed>>
    PROVE  SSLInv'
<1>1. Sound(ssl) /\ UNCHANGED <<inside, pausing, lapses>>
  BY DEF SSLInv, callVars
<1>2. Shape(ssl')
  BY <1>1 DEF Sound, Shape, Fields
<1>3. /\ ssl'.connected = ssl.connected /\ ssl'.disconnected = ssl.disconnected
      /\ ssl'.disconnecting = ssl.disconnecting /\ ssl'.aborting = ssl.aborting
      /\ ssl'.error = ssl.error /\ ssl'.accepting = ssl.accepting
      /\ ssl'.accepted = ssl.accepted /\ ssl'.shutting = ssl.shutting
      /\ ssl'.reading = ssl.reading /\ ssl'.writing = ssl.writing
      /\ ssl'.closesPosted = ssl.closesPosted
      /\ ssl'.front = ssl.front /\ ssl'.rest = ssl.rest
  BY <1>1 DEF Sound, Shape, Fields
<1>4. /\ ssl'.handshakeOp = ssl.handshakeOp
            \/ (ssl.handshakeOp = "pending" /\ ssl'.handshakeOp = how)
      /\ ssl'.readOp = ssl.readOp \/ (ssl.readOp = "pending" /\ ssl'.readOp = how)
      /\ ssl'.writeOp = ssl.writeOp \/ (ssl.writeOp = "pending" /\ ssl'.writeOp = how)
      /\ ssl'.shutdownOp = ssl.shutdownOp
            \/ (ssl.shutdownOp = "pending" /\ ssl'.shutdownOp = how)
  BY <1>1 DEF Sound, Shape, Fields
<1>5. Counts(ssl')
  BY <1>1, <1>3 DEF Sound, Counts
<1>6. Flags(ssl') /\ Phases(ssl')
  BY <1>1, <1>3 DEF Sound, Flags, Phases
<1>7. Operations(ssl') /\ Cancelled(ssl')
  BY <1>1, <1>3, <1>4 DEF Sound, Operations, Cancelled
<1>8. InCallback(ssl, inside)' /\ LossCounted' /\ Pausing(ssl', pausing') /\ SSLNeverStalls'
  BY <1>1, <1>3 DEF SSLInv, InCallback, LossCounted, Pausing, SSLNeverStalls, IsLive
<1>9. GracefulSendsAll' /\ written' \in Nat /\ flushed' \in Nat
  BY <1>1, <1>3 DEF SSLInv, GracefulSendsAll
<1> QED BY <1>2, <1>5, <1>6, <1>7, <1>8, <1>9 DEF SSLInv, Sound

LEMMA SSLStepInv == SSLInv /\ [SSLNext]_sslVars => SSLInv'
<1> SUFFICES ASSUME SSLInv, [SSLNext]_sslVars PROVE SSLInv'
  OBVIOUS
<1>1. CASE CbConnectSSL
  BY <1>1, ConnectInv
<1>2. CASE Application
  <2>1. CASE \E n \in 1..MaxSSLBytes : WriteSSL(n)
    BY <2>1, WriteInv
  <2> QED BY <1>2, <2>1, LoseInv, AbortInv, ProducerInv DEF Application
<1>3. CASE CallbackReturnsSSL \/ CallbackFailsSSL
  BY <1>3, MadeInv, ReceivedInv, PauseReturnsInv, FailsInv DEF CallbackReturnsSSL
<1>4. CASE CbHandshake
  BY <1>4, HandshakeInv
<1>5. CASE CbReadSSL
  BY <1>5, ReadInv
<1>6. CASE CbWriteSSL
  BY <1>6, WriteOkInv, WriteFailedInv DEF CbWriteSSL
<1>7. CASE CbShutdown
  BY <1>7, ShutInv
<1>8. CASE PostedCloseSSL
  BY <1>8, PostedInv
<1>9. CASE HandshakeCompletes \/ WriteCompletesSSL \/ ShutdownCompletes \/ ReadCompletesSSL
  <2>1. PICK op \in {"handshakeOp", "readOp", "writeOp", "shutdownOp"},
             how \in {"ok", "eof", "short", "err"} :
          /\ ssl[op] = "pending" /\ ssl' = [ssl EXCEPT ![op] = how]
          /\ UNCHANGED <<callVars, lossSeen, asserted, written, flushed>>
    BY <1>9 DEF HandshakeCompletes, WriteCompletesSSL, ShutdownCompletes, ReadCompletesSSL,
                Completes, ghostVars
  <2> QED BY <2>1, CompletesInv
<1>10. CASE UNCHANGED sslVars
  <2>1. /\ ssl' = ssl /\ inside' = inside /\ lossSeen' = lossSeen
        /\ asserted' = asserted /\ written' = written /\ flushed' = flushed
        /\ pausing' = pausing /\ lapses' = lapses
    BY <1>10 DEF sslVars, callVars, ghostVars
  <2> QED BY <2>1 DEF SSLInv, LossCounted, GracefulSendsAll, SSLNeverStalls
<1> QED BY <1>1, <1>2, <1>3, <1>4, <1>5, <1>6, <1>7, <1>8, <1>9, <1>10 DEF SSLNext

LEMMA SSLInvariance == SSLSpec => []SSLInv
<1>1. SSLInit => SSLInv
  BY SSLInitInv
<1>2. SSLInv /\ [SSLNext]_sslVars => SSLInv'
  BY SSLStepInv
<1> QED BY <1>1, <1>2, PTL DEF SSLSpec

(* The SSL shutdown runs at most once and the loss is reported at most     *)
(* once, however the errors of reads and writes, the posted closes and the *)
(* application meet (ssl.h 225-284, ssl.cpp 73-101).                       *)
THEOREM ShutdownRunsOnce == SSLSpec => []OneShutdown
<1>1. SSLInv => OneShutdown
  BY DEF SSLInv, LossCounted, OneShutdown
<1> QED BY <1>1, SSLInvariance, PTL

(* loseConnection shuts down only when everything accepted was written,    *)
(* unless it is called ahead of bytes nobody writes yet (ssl.cpp 35-43,    *)
(* 73-86).                                                                 *)
THEOREM GracefulCloseSendsAll == SSLSpec => []GracefulSendsAll
<1>1. SSLInv => GracefulSendsAll
  BY DEF SSLInv
<1> QED BY <1>1, SSLInvariance, PTL

(* An open connection shakes hands or reads, and writes what it has to     *)
(* write, but for what exceptions out of callbacks leave undone            *)
(* (ssl.h 73-81, 117-123, 175-284).                                        *)
THEOREM SSLKeepsGoing == SSLSpec => []SSLNeverStalls
<1>1. SSLInv => SSLNeverStalls
  BY DEF SSLInv
<1> QED BY <1>1, SSLInvariance, PTL

-----------------------------------------------------------------------------
(* The connection keeps the promise of Transport.                          *)

LEMMA SentBounded ==
    ASSUME SSLInv PROVE written \in Nat /\ flushed \in Nat /\ flushed =< written
<1>1. /\ ssl.front \in Nat /\ ssl.rest \in Nat /\ written \in Nat /\ flushed \in Nat
      /\ written = flushed + ssl.front + ssl.rest
  BY DEF SSLInv, Sound, Counts, GracefulSendsAll
<1> QED BY <1>1

LEMMA SSLInitRefines == SSLInit => Stream!Init
BY DEF SSLInit, Stream!Init, SSLPhase, SSLReason, SSLSent

(* What Transport sees of the record is left as it was.                    *)
SameEnd(s, t) ==
    /\ t.connected = s.connected /\ t.disconnected = s.disconnected
    /\ t.disconnecting = s.disconnecting /\ t.error = s.error

LEMMA SameEndRefines ==
    ASSUME SameEnd(ssl, ssl'), UNCHANGED <<sslEnd, written, flushed>>,
           "close" \in lapses' <=> "close" \in lapses
    PROVE  UNCHANGED Stream!vars
BY DEF SameEnd, Stream!vars, SSLPhase, SSLReason, SSLSent

(* A handler goes on, or fails, or was late.                               *)
GoesOn(s, t) ==
    /\ t.connected = s.connected /\ t.disconnected = s.disconnected
    /\ s.disconnecting => t.disconnecting
    /\ s.disconnected => t.error = s.error

LEMMA GoesOnRefines ==
    ASSUME SSLInv, SSLInv', NEW t, Becomes(t), GoesOn(ssl, t), ssl.connected \/ ssl.disconnected,
           flushed' \in Nat, flushed =< flushed'
    PROVE  Stream!Transfer \/ UNCHANGED Stream!vars
<1>1. ssl' = t /\ written' = written /\ sslEnd' = sslEnd /\ lapses' = lapses
  BY DEF Becomes, GoesOn
<1>2. CASE ssl.disconnected
  <2>1. ssl'.disconnected /\ ssl'.error = ssl.error
    BY <1>1, <1>2 DEF GoesOn
  <2> QED BY <1>1, <1>2, <2>1 DEF Stream!vars, SSLPhase, SSLReason, SSLSent
<1>3. CASE ~ssl.disconnected
  <2>1. ssl.connected /\ ssl'.connected /\ ~ssl'.disconnected
        /\ (ssl.disconnecting => ssl'.disconnecting)
    BY <1>1, <1>3 DEF GoesOn
  <2>2. SSLPhase \in {"open", "closing"} /\ SSLPhase' \in {SSLPhase, "closing"}
    BY <1>3, <2>1 DEF SSLPhase
  <2>3. SSLReason' = SSLReason /\ SSLSent = flushed /\ SSLSent' = flushed'
    BY <1>3, <2>1 DEF SSLReason, SSLSent
  <2>4. flushed' \in flushed..written
    <3>1. flushed' =< written /\ flushed \in Nat /\ written \in Nat
      BY <1>1, SentBounded DEF SSLInv, GracefulSendsAll, Sound, Counts
    <3> QED BY <3>1
  <2> QED BY <1>1, <2>2, <2>3, <2>4 DEF Stream!Transfer
<1> QED BY <1>2, <1>3

(* A handler closes the socket.                                            *)
LEMMA LossRefines ==
    ASSUME SSLInv, NEW t, Becomes(t), ssl.connected, ~ssl.disconnected, t.disconnected,
           UNCHANGED flushed,
           t.error = "Done" /\ ssl.shutting /\ "close" \notin lapses => flushed = written
    PROVE  Stream!Close
<1>1. /\ ssl' = t /\ written' = written /\ lapses' = lapses
      /\ sslEnd' = [shutdown |-> ssl.shutting, sent |-> flushed]
  BY DEF Becomes
<1>2. SSLPhase \in {"open", "closing"} /\ SSLPhase' = "closed"
  BY <1>1 DEF SSLPhase
<1>3. SSLSent = flushed /\ SSLSent' = flushed
  BY <1>1 DEF SSLSent
<1>4. \/ SSLReason' = "graceful" /\ flushed = written
      \/ SSLReason' = "broken"
  BY <1>1 DEF SSLReason
<1> QED BY <1>1, <1>2, <1>3, <1>4 DEF Stream!Close

LEMMA OpenRefines == ASSUME SSLInv, CbConnectSSL PROVE Stream!Open
<1>1. /\ ~ssl.connected /\ ~ssl.disconnected /\ ~ssl.disconnecting
      /\ ssl' = [ssl EXCEPT !.connected = TRUE] /\ UNCHANGED <<written, flushed>>
      /\ Shape(ssl)
  BY DEF CbConnectSSL, Becomes, SSLInv, Sound, Phases
<1>2. ssl'.connected /\ ~ssl'.disconnected /\ ~ssl'.disconnecting
  BY <1>1 DEF Shape, Fields
<1> QED BY <1>1, <1>2 DEF Stream!Open, SSLPhase, SSLReason, SSLSent

LEMMA WritingKeepsEnd == ASSUME NEW s, Shape(s) PROVE SameEnd(s, StartWriting(s))
<1>1. SameEnd(s, s)
  BY DEF SameEnd
<1>2. SameEnd(s, DoWriteSSL(s))
  BY DEF DoWriteSSL, Shape, Fields, SameEnd
<1> QED BY <1>1, <1>2 DEF StartWriting

LEMMA WriteRefines ==
    ASSUME SSLInv, NEW n \in 1..MaxSSLBytes, WriteSSL(n) PROVE Stream!Accept
<1>1. /\ ~ssl.disconnecting /\ ~ssl.disconnected /\ ssl.connected
      /\ written' = written + n /\ flushed' = flushed
  BY DEF WriteSSL, IsShut
<1>2. SameEnd(ssl, ssl')
  <2> DEFINE q == Enqueued(n)
             p == [q EXCEPT !.paused = TRUE]
  <2>1. Shape(q) /\ SameEnd(ssl, q)
    BY DEF Enqueued, SSLInv, Sound, Shape, Fields, SameEnd
  <2>2. ssl' = p \/ ssl' = StartWriting(q)
    BY DEF WriteSSL
  <2> HIDE DEF q
  <2>3. SameEnd(q, p)
    BY <2>1 DEF Shape, Fields, SameEnd
  <2>4. SameEnd(q, StartWriting(q))
    BY <2>1, WritingKeepsEnd
  <2> HIDE DEF p
  <2> QED BY <2>1, <2>2, <2>3, <2>4 DEF SameEnd
<1>3. SSLPhase = "open" /\ SSLPhase' = "open" /\ SSLReason' = SSLReason
      /\ SSLSent = flushed /\ SSLSent' = flushed
  BY <1>1, <1>2 DEF SameEnd, SSLPhase, SSLReason, SSLSent
<1>4. /\ written' \in Nat /\ written' > written /\ flushed \in flushed..written'
  BY <1>1, SentBounded
<1> QED BY <1>3, <1>4 DEF Stream!Accept

LEMMA CancelKeepsEnd == ASSUME NEW s, Shape(s) PROVE Shape(CancelAll(s)) /\ SameEnd(s, CancelAll(s))
BY DEF CancelAll, Shape, Fields, SameEnd

LEMMA PostKeepsEnd == ASSUME NEW s, Shape(s) PROVE SameEnd(s, PostClose(s))
<1> DEFINE t == IF s.accepting THEN CancelAll(s) ELSE s
<1>1. Shape(t) /\ SameEnd(s, t)
  BY CancelKeepsEnd DEF SameEnd
<1>2. PostClose(s) = [t EXCEPT !.closesPosted = t.closesPosted + 1]
  BY DEF PostClose
<1> HIDE DEF t
<1> QED BY <1>1, <1>2 DEF Shape, Fields, SameEnd

LEMMA ShutdownKeepsEnd == ASSUME NEW s, Shape(s) PROVE SameEnd(s, StartShutdown(s))
BY DEF StartShutdown, Shape, Fields, SameEnd

(* What loseConnection and abortConnection go on to.                       *)
LEMMA CloseKeepsEnd ==
    ASSUME NEW s, Shape(s) PROVE SameEnd(s, DoCloseSSL(s)) /\ SameEnd(s, DoAbortSSL(s))
<1>1. SameEnd(s, s)
  BY DEF SameEnd
<1>2. SameEnd(s, DoCloseSSL(s))
  BY <1>1, PostKeepsEnd, ShutdownKeepsEnd DEF DoCloseSSL
<1>3. SameEnd(s, DoAbortSSL(s))
  <2> DEFINE t == IF s.writing THEN CancelAll(s) ELSE s
  <2>1. Shape(t) /\ SameEnd(s, t)
    BY <1>1, CancelKeepsEnd
  <2>2. DoAbortSSL(s) = IF ~s.accepted THEN PostClose(s) ELSE StartShutdown(t)
    BY DEF DoAbortSSL
  <2> HIDE DEF t
  <2>3. SameEnd(t, StartShutdown(t)) /\ SameEnd(s, PostClose(s))
    BY <2>1, ShutdownKeepsEnd, PostKeepsEnd
  <2>4. SameEnd(s, StartShutdown(t))
    BY <2>1, <2>3 DEF SameEnd
  <2> QED BY <2>2, <2>3, <2>4
<1> QED BY <1>2, <1>3

LEMMA EndRefines ==
    ASSUME SSLInv, LoseConnectionSSL \/ AbortConnectionSSL PROVE Stream!Transfer
<1>1. /\ ~ssl.disconnecting /\ ~ssl.disconnected /\ ssl.connected /\ Shape(ssl)
      /\ UNCHANGED <<written, flushed>>
  BY DEF LoseConnectionSSL, AbortConnectionSSL, IsShut, SSLInv, Sound
<1>2. ssl'.connected /\ ~ssl'.disconnected /\ ssl'.disconnecting
  <2>1. CASE LoseConnectionSSL
    <3> DEFINE s == [ssl EXCEPT !.error = "Done", !.disconnecting = TRUE]
    <3>1. ssl' = DoCloseSSL(s)
      BY <2>1 DEF LoseConnectionSSL
    <3>2. Shape(s) /\ s.connected /\ ~s.disconnected /\ s.disconnecting
      BY <1>1 DEF Shape, Fields
    <3> HIDE DEF s
    <3> QED BY <3>1, <3>2, CloseKeepsEnd DEF SameEnd
  <2>2. CASE AbortConnectionSSL
    <3> DEFINE s == [ssl EXCEPT !.error = "Abort", !.disconnecting = TRUE,
                                !.aborting = TRUE]
    <3>1. ssl' = DoAbortSSL(s)
      BY <2>2 DEF AbortConnectionSSL
    <3>2. Shape(s) /\ s.connected /\ ~s.disconnected /\ s.disconnecting
      BY <1>1 DEF Shape, Fields
    <3> HIDE DEF s
    <3> QED BY <3>1, <3>2, CloseKeepsEnd DEF SameEnd
  <2> QED BY <2>1, <2>2
<1>3. SSLPhase = "open" /\ SSLPhase' = "closing" /\ SSLReason' = SSLReason
      /\ SSLSent = flushed /\ SSLSent' = flushed
  BY <1>1, <1>2 DEF SSLPhase, SSLReason, SSLSent
<1>4. flushed \in flushed..written
  BY SentBounded
<1> QED BY <1>1, <1>3, <1>4 DEF Stream!Transfer

LEMMA QuietRefines ==
    ASSUME SSLInv, RegisterProducerSSL \/ CallbackReturnsSSL \/ CallbackFailsSSL
    PROVE  UNCHANGED Stream!vars
<1>1. /\ Shape(ssl) /\ UNCHANGED <<sslEnd, written, flushed>>
      /\ "close" \in lapses' <=> "close" \in lapses
  BY DEF RegisterProducerSSL, CallbackReturnsSSL, CallbackFailsSSL, ConnectionMadeReturnsSSL,
         DataReceivedReturnsSSL, PauseReturnsSSL, CallbackThrowsSSL, PauseThrowsSSL,
         callVars, ghostVars, SSLInv, Sound
<1>2. SameEnd(ssl, ssl)
  BY DEF SameEnd
<1>3. SameEnd(ssl, ssl')
  <2>1. CASE RegisterProducerSSL
    BY <1>1, <2>1 DEF RegisterProducerSSL, Shape, Fields, SameEnd
  <2>2. CASE ConnectionMadeReturnsSSL
    BY <1>1, <1>2, <2>2 DEF ConnectionMadeReturnsSSL, DoHandshake, Shape, Fields, SameEnd
  <2>3. CASE DataReceivedReturnsSSL
    BY <1>1, <1>2, <2>3 DEF DataReceivedReturnsSSL, DoReadSSL, Shape, Fields, SameEnd
  <2>4. CASE PauseReturnsSSL
    BY <1>1, <2>4, WritingKeepsEnd DEF PauseReturnsSSL
  <2>5. CASE CallbackFailsSSL
    BY <1>2, <2>5 DEF CallbackFailsSSL, CallbackThrowsSSL, PauseThrowsSSL
  <2> QED BY <2>1, <2>2, <2>3, <2>4, <2>5 DEF CallbackReturnsSSL
<1> QED BY <1>1, <1>3, SameEndRefines

LEMMA CompletesRefines ==
    ASSUME SSLInv,
           HandshakeCompletes \/ WriteCompletesSSL \/ ShutdownCompletes \/ ReadCompletesSSL
    PROVE  UNCHANGED Stream!vars
<1>1. PICK op \in {"handshakeOp", "readOp", "writeOp", "shutdownOp"},
           how \in {"ok", "eof", "short", "err"} :
        /\ ssl' = [ssl EXCEPT ![op] = how] /\ UNCHANGED <<lapses, sslEnd, written, flushed>>
  BY DEF HandshakeCompletes, WriteCompletesSSL, ShutdownCompletes, ReadCompletesSSL,
         Completes, callVars, ghostVars
<1>2. Shape(ssl)
  BY DEF SSLInv, Sound
<1>3. /\ ssl'.connected = ssl.connected /\ ssl'.disconnected = ssl.disconnected
      /\ ssl'.disconnecting = ssl.disconnecting /\ ssl'.error = ssl.error
  BY <1>1, <1>2 DEF Shape, Fields
<1> QED BY <1>1, <1>3, SameEndRefines DEF SameEnd

-----------------------------------------------------------------------------
(* The handlers.                                                           *)

(* Everything but the connecting comes to a connection that was made.      *)
LEMMA WasMade ==
    ASSUME SSLInv,
           \/ ssl.handshakeOp # "none" \/ ssl.readOp # "none" \/ ssl.writeOp # "none"
           \/ ssl.shutdownOp # "none" \/ ssl.closesPosted > 0
    PROVE  ssl.connected \/ ssl.disconnected
BY DEF SSLInv, Sound, Phases, Operations

LEMMA CbReadRefines ==
    ASSUME SSLInv, SSLInv', CbReadSSL PROVE Stream!Transfer \/ UNCHANGED Stream!vars
<1> DEFINE s == [ssl EXCEPT !.reading = FALSE, !.readOp = "none"]
           t == IF ssl.readOp = "ok" THEN s ELSE OperationFailed(s, ssl.readOp)
<1>1. Becomes(t) /\ ssl.readOp # "none" /\ flushed' = flushed /\ Shape(ssl)
  BY DEF CbReadSSL, SSLInv, Sound
<1>2. GoesOn(ssl, t)
  BY <1>1 DEF OperationFailed, StartShutdown, Shape, Fields, GoesOn
<1> HIDE DEF t
<1>3. flushed \in Nat /\ flushed' \in Nat /\ flushed =< flushed'
  BY <1>1, SentBounded
<1> QED BY <1>1, <1>2, <1>3, WasMade, GoesOnRefines

(* What cbWrite does once the result was looked at.                        *)
LEMMA WriteOnGoesOn ==
    ASSUME NEW s, Shape(s) PROVE SameEnd(s, WriteOn(s))
BY DEF WriteOn, DoWriteSSL, ResumeProducer, Shape, Fields, SameEnd

LEMMA CbWriteOkRefines ==
    ASSUME SSLInv, SSLInv', CbWriteOkSSL PROVE Stream!Transfer \/ UNCHANGED Stream!vars
<1>1. PICK n : n \in 1..ssl.front /\
        LET s == [ssl EXCEPT !.writing = FALSE, !.writeOp = "none", !.front = @ - n]
            empty == s.front + s.rest = 0
        IN /\ Becomes(WriteOn(IF (s.disconnecting /\ empty) \/ s.aborting
                              THEN StartShutdown(s) ELSE s))
           /\ flushed' = flushed + n
  BY DEF CbWriteOkSSL
<1> DEFINE s == [ssl EXCEPT !.writing = FALSE, !.writeOp = "none", !.front = @ - n]
           u == IF (s.disconnecting /\ s.front + s.rest = 0) \/ s.aborting
                THEN StartShutdown(s) ELSE s
           t == WriteOn(u)
<1>2. Becomes(t) /\ ssl.writeOp # "none" /\ flushed' = flushed + n /\ Shape(ssl)
  BY <1>1 DEF CbWriteOkSSL, SSLInv, Sound
<1>3. Shape(s) /\ SameEnd(ssl, s)
  BY <1>2 DEF Shape, Fields, SameEnd
<1> HIDE DEF s
<1>4. Shape(u) /\ SameEnd(s, u)
  BY <1>3 DEF StartShutdown, Shape, Fields, SameEnd
<1> HIDE DEF u
<1>5. SameEnd(u, t)
  BY <1>4, WriteOnGoesOn
<1> HIDE DEF t
<1>6. GoesOn(ssl, t)
  BY <1>3, <1>4, <1>5 DEF SameEnd, GoesOn
<1>7. flushed' \in Nat /\ flushed =< flushed'
  <2>1. n \in Nat
    BY <1>1
  <2> QED BY <1>2, <2>1, SentBounded
<1> QED BY <1>2, <1>6, <1>7, WasMade, GoesOnRefines

LEMMA CbWriteFailedRefines ==
    ASSUME SSLInv, SSLInv', CbWriteFailedSSL PROVE Stream!Transfer \/ UNCHANGED Stream!vars
<1> DEFINE s == [ssl EXCEPT !.writing = FALSE, !.writeOp = "none"]
           u == OperationFailed(s, ssl.writeOp)
           t == WriteOn(u)
<1>1. Becomes(t) /\ ssl.writeOp # "none" /\ flushed' = flushed /\ Shape(ssl)
  BY DEF CbWriteFailedSSL, SSLInv, Sound
<1>2. Shape(u) /\ GoesOn(ssl, u)
  BY <1>1 DEF OperationFailed, StartShutdown, Shape, Fields, GoesOn
<1> HIDE DEF u
<1>3. SameEnd(u, t)
  BY <1>2, WriteOnGoesOn
<1> HIDE DEF t
<1>4. GoesOn(ssl, t)
  BY <1>2, <1>3 DEF SameEnd, GoesOn
<1>5. flushed \in Nat /\ flushed' \in Nat /\ flushed =< flushed'
  BY <1>1, SentBounded
<1> QED BY <1>1, <1>4, <1>5, WasMade, GoesOnRefines

(* The shutdown closes the socket: if loseConnection asked for it, nothing *)
(* is left to write.                                                       *)
LEMMA CbShutdownRefines == ASSUME SSLInv, CbShutdown PROVE Stream!Close
<1> DEFINE s == [ssl EXCEPT !.shutting = FALSE, !.shutdownOp = "none"]
           e == IF ssl.shutdownOp = "err" THEN "Sys" ELSE s.error
           t == CloseSocketSSL(s, e)
<1>1. Becomes(t) /\ ssl.shutdownOp # "none" /\ UNCHANGED flushed /\ Shape(ssl)
  BY DEF CbShutdown, SSLInv, Sound
<1>2. ssl.connected /\ ~ssl.disconnected /\ ssl.shutting
  BY <1>1 DEF SSLInv, Sound, Operations, Phases
<1>3. t.disconnected /\ (t.error = "Done" => ssl.error = "Done")
  BY <1>1 DEF CloseSocketSSL, CancelAll, Shape, Fields
<1> HIDE DEF t
<1>4. t.error = "Done" /\ ssl.shutting /\ "close" \notin lapses => flushed = written
  BY <1>3 DEF SSLInv, GracefulSendsAll
<1> QED BY <1>1, <1>2, <1>3, <1>4, LossRefines

LEMMA PostedRefines ==
    ASSUME SSLInv, SSLInv', PostedCloseSSL
    PROVE  Stream!Close \/ Stream!Transfer \/ UNCHANGED Stream!vars
<1> DEFINE s == [ssl EXCEPT !.closesPosted = @ - 1]
           t == IF s.disconnected THEN s ELSE CloseSocketSSL(s, s.error)
<1>1. /\ Becomes(t) /\ ssl.closesPosted > 0 /\ flushed' = flushed /\ Shape(ssl)
      /\ ~ssl.shutting
  BY DEF PostedCloseSSL, SSLInv, Sound, Operations
<1>2. s.disconnected = ssl.disconnected /\ Shape(s)
  BY <1>1 DEF Shape, Fields
<1>3. CASE ssl.disconnected
  <2>1. GoesOn(ssl, t)
    BY <1>1, <1>3 DEF Shape, Fields, GoesOn
  <2> HIDE DEF t
  <2>2. flushed \in Nat /\ flushed' \in Nat /\ flushed =< flushed'
    BY <1>1, SentBounded
  <2> QED BY <1>1, <1>3, <2>1, <2>2, GoesOnRefines
<1>4. CASE ~ssl.disconnected
  <2>1. t.disconnected
    BY <1>2, <1>4 DEF CloseSocketSSL, CancelAll, Shape, Fields
  <2> HIDE DEF t
  <2> QED BY <1>1, <1>4, <2>1, WasMade, LossRefines
<1> QED BY <1>3, <1>4

LEMMA CbHandshakeRefines ==
    ASSUME SSLInv, SSLInv', CbHandshake
    PROVE  Stream!Close \/ Stream!Transfer \/ UNCHANGED Stream!vars
<1> DEFINE s == [ssl EXCEPT !.accepting = FALSE, !.handshakeOp = "none"]
           up == [s EXCEPT !.accepted = TRUE]
           e == IF ssl.handshakeOp = "aborted" THEN s.error ELSE "Sys"
           r == StartReading(up)
           t == IF ssl.handshakeOp # "ok"
                THEN IF s.disconnected THEN s ELSE CloseSocketSSL(s, e)
                ELSE IF IsLive(s)
                THEN IF r.front + r.rest > 0 THEN StartWriting(r) ELSE r
                ELSE up
<1>1. /\ Becomes(t) /\ ssl.handshakeOp # "none" /\ flushed' = flushed /\ Shape(ssl)
      /\ ~ssl.shutting
  BY DEF CbHandshake, SSLInv, Sound, Operations, Phases
<1>2. Shape(s) /\ SameEnd(ssl, s)
  BY <1>1 DEF Shape, Fields, SameEnd
<1> HIDE DEF s
<1>3. CASE ssl.handshakeOp # "ok" /\ ~ssl.disconnected
  <2>1. t = CloseSocketSSL(s, e)
    BY <1>2, <1>3 DEF SameEnd
  <2>2. t.disconnected
    BY <1>2, <2>1 DEF CloseSocketSSL, CancelAll, Shape, Fields
  <2> HIDE DEF t
  <2> QED BY <1>1, <1>3, <2>2, WasMade, LossRefines
<1>4. CASE ssl.handshakeOp = "ok" \/ ssl.disconnected
  <2>1. Shape(up) /\ SameEnd(s, up)
    BY <1>2 DEF Shape, Fields, SameEnd
  <2> HIDE DEF up
  <2>2. Shape(r) /\ SameEnd(up, r)
    BY <2>1 DEF StartReading, DoReadSSL, Shape, Fields, SameEnd
  <2> HIDE DEF r
  <2>3. SameEnd(r, StartWriting(r)) /\ SameEnd(r, r)
    BY <2>2 DEF StartWriting, DoWriteSSL, Shape, Fields, SameEnd
  <2>4. t \in {s, up, r, StartWriting(r)}
    BY <1>2, <1>4 DEF SameEnd
  <2> HIDE DEF t
  <2>5. SameEnd(ssl, t)
    BY <1>2, <2>1, <2>2, <2>3, <2>4, Zenon DEF SameEnd
  <2>6. GoesOn(ssl, t)
    BY <2>5 DEF SameEnd, GoesOn
  <2>7. flushed \in Nat /\ flushed' \in Nat /\ flushed =< flushed'
    BY <1>1, SentBounded
  <2> QED BY <1>1, <2>6, <2>7, WasMade, GoesOnRefines
<1> QED BY <1>3, <1>4

LEMMA SSLStepRefines ==
    SSLInv /\ SSLInv' /\ [SSLNext]_sslVars => [Stream!Next]_(Stream!vars)
<1> SUFFICES ASSUME SSLInv, SSLInv', [SSLNext]_sslVars
             PROVE  Stream!Next \/ UNCHANGED Stream!vars
  OBVIOUS
<1>1. CASE UNCHANGED sslVars
  BY <1>1 DEF sslVars, callVars, ghostVars, Stream!vars, SSLPhase, SSLReason, SSLSent
<1>2. CASE SSLNext
  BY <1>2, OpenRefines, WriteRefines, EndRefines, QuietRefines, CompletesRefines,
     CbReadRefines, CbWriteOkRefines, CbWriteFailedRefines, CbShutdownRefines,
     PostedRefines, CbHandshakeRefines
  DEF SSLNext, Application, CbWriteSSL, Stream!Next
<1> QED BY <1>1, <1>2

(* SSLConnection implements Transport: bytes are taken only while it is    *)
(* open, the end and its reason are final, and a connection that the       *)
(* shutdown of loseConnection ended has sent everything it took.           *)
THEOREM SSLImplementation == SSLSpec => SSLImplementsTransport
BY SSLInitRefines, SSLStepRefines, SSLInvariance, PTL
DEF SSLSpec, SSLImplementsTransport, Stream!Spec
=============================================================================
