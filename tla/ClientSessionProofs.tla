------------------------ MODULE ClientSessionProofs ------------------------
(***************************************************************************)
(* Proofs about ClientSession.  Three invariants, each resting on the one  *)
(* before: QueueInv (what is queued, in flight and sent), TableInv (chains *)
(* installed, being built and registered at the Dispatcher) and AckInv     *)
(* (which chains are acknowledged).  Every handler that sends goes through *)
(* sendText(), so each layer has one lemma about SendsFrom and the         *)
(* handlers only supply its hypotheses.                                    *)
(***************************************************************************)
EXTENDS ClientSession, TLAPS

\* active_ with chains_: a chain for each subscribed key.
Actives == UNION {[K -> Nat] : K \in SUBSET Keys}

Sessions ==
    [open : BOOLEAN, outbox : Seq(OutMsg), writing : BOOLEAN, writes : Seq(OutMsg),
     active : Actives, conn : {"handshake", "open", "closing", "closed"},
     reading : BOOLEAN, listed : BOOLEAN]

\* At most one write is in flight; its buffer is the front of the outbox.
WritesFront(x) ==
    \/ x.writes = <<>>
    \/ x.outbox # <<>> /\ x.writes = <<Head(x.outbox)>> /\ x.writing

\* What was queued has been sent or still waits, until the session is closed
\* and its outbox dropped.
Conserved(x, acc, snt) ==
    \/ acc = snt \o x.outbox
    \/ ~x.open /\ x.writes = <<>> /\ IsPrefix(snt, acc)

\* close() changes no queue: the write in flight keeps its buffer.
LEMMA CloseFacts ==
    ASSUME NEW x \in Sessions
    PROVE  /\ Close(x) \in Sessions /\ ~Close(x).open
           /\ Close(x).outbox = x.outbox /\ Close(x).writes = x.writes
           /\ Close(x).writing = x.writing
           /\ Close(x).reading = x.reading /\ Close(x).listed = x.listed
           /\ x.open => Close(x).conn = "closing" /\ Close(x).active = <<>>
           /\ ~x.open => Close(x) = x
<1>1. <<>> \in Actives
  <2>1. <<>> \in [{} -> Nat]  OBVIOUS
  <2> QED  BY <2>1 DEF Actives
<1>2. CASE x.open
  <2>1. Close(x) = [x EXCEPT !.open = FALSE, !.active = <<>>, !.conn = "closing"]
    BY <1>2 DEF Close
  <2> QED  BY <1>1, <1>2, <2>1 DEF Sessions
<1>3. CASE ~x.open
  BY <1>3 DEF Close
<1> QED  BY <1>2, <1>3

\* startWrite() with no write in flight: it starts one with the front of the
\* outbox, or there is none to start.
LEMMA StartWriteFacts ==
    ASSUME NEW x \in Sessions, x.writes = <<>>, x.open => x.writing
    PROVE  /\ StartWrite(x) \in Sessions /\ WritesFront(StartWrite(x))
           /\ StartWrite(x).open = x.open /\ StartWrite(x).active = x.active
           /\ StartWrite(x).conn = x.conn /\ StartWrite(x).reading = x.reading
           /\ StartWrite(x).listed = x.listed
           /\ x.open => StartWrite(x).outbox = x.outbox
           /\ ~x.open => StartWrite(x).outbox = <<>> /\ StartWrite(x).writes = <<>>
<1>1. CASE ~x.open
  <2>1. StartWrite(x) = [x EXCEPT !.writing = FALSE, !.outbox = <<>>]  BY <1>1 DEF StartWrite
  <2> QED  BY <1>1, <2>1 DEF Sessions, WritesFront
<1>2. CASE x.open /\ x.outbox = <<>>
  <2>1. StartWrite(x) = [x EXCEPT !.writing = FALSE]  BY <1>2 DEF StartWrite
  <2> QED  BY <1>2, <2>1 DEF Sessions, WritesFront
<1>3. CASE x.open /\ x.outbox # <<>>
  <2>1. StartWrite(x) = [x EXCEPT !.writes = Append(@, Head(x.outbox))]  BY <1>3 DEF StartWrite
  <2>2. Append(<<>>, Head(x.outbox)) = <<Head(x.outbox)>>  OBVIOUS
  <2>3. Head(x.outbox) \in OutMsg  BY <1>3 DEF Sessions
  <2>4. StartWrite(x) = [x EXCEPT !.writes = <<Head(x.outbox)>>]  BY <2>1, <2>2 DEF Sessions
  <2>5. <<Head(x.outbox)>> \in Seq(OutMsg)  BY <2>3
  <2>6. StartWrite(x) \in Sessions  BY <2>4, <2>5 DEF Sessions
  <2>7. StartWrite(x).writes = <<Head(x.outbox)>> /\ StartWrite(x).outbox = x.outbox
        /\ StartWrite(x).writing = x.writing /\ StartWrite(x).open = x.open
        /\ StartWrite(x).active = x.active /\ StartWrite(x).conn = x.conn
        /\ StartWrite(x).reading = x.reading /\ StartWrite(x).listed = x.listed
    BY <2>4 DEF Sessions
  <2> QED  BY <1>3, <2>6, <2>7 DEF WritesFront
<1> QED  BY <1>1, <1>2, <1>3

\* sendText() on the strand: the message is queued, or the session closed.
LEMMA SendTextFacts ==
    ASSUME NEW x \in Sessions, NEW m \in OutMsg, WritesFront(x), Len(x.outbox) <= MaxOutbox
    PROVE  /\ SendText(x, m) \in Sessions /\ WritesFront(SendText(x, m))
           /\ Len(SendText(x, m).outbox) <= MaxOutbox
           /\ Accepts(x) => /\ SendText(x, m).open
                            /\ SendText(x, m).outbox = Append(x.outbox, m)
                            /\ SendText(x, m).active = x.active
                            /\ SendText(x, m).conn = x.conn
                            /\ SendText(x, m).reading = x.reading
                            /\ SendText(x, m).listed = x.listed
           /\ ~Accepts(x) => SendText(x, m) = Close(x)
<1>1. CASE ~Accepts(x)
  <2>1. SendText(x, m) = Close(x)  BY <1>1 DEF SendText, Accepts, Close
  <2>2. WritesFront(Close(x))  BY CloseFacts DEF WritesFront
  <2> QED  BY <1>1, <2>1, <2>2, CloseFacts
<1>2. CASE Accepts(x)
  <2> DEFINE y == Push(x, m)
             z == [y EXCEPT !.writing = TRUE]
  <2>1. x.open /\ Len(x.outbox) < MaxOutbox /\ x.outbox \in Seq(OutMsg)
    BY <1>2, SessionAssumption DEF Accepts, Overflows, Sessions
  <2>2. /\ Append(x.outbox, m) \in Seq(OutMsg) /\ Append(x.outbox, m) # <<>>
        /\ Len(Append(x.outbox, m)) = Len(x.outbox) + 1
        /\ x.outbox # <<>> => Head(Append(x.outbox, m)) = Head(x.outbox)
    <3> DEFINE q == x.outbox
    <3>1. q \in Seq(OutMsg)  BY <2>1
    <3> HIDE DEF q
    <3>2. /\ Append(q, m) \in Seq(OutMsg) /\ Append(q, m) # <<>>
          /\ Len(Append(q, m)) = Len(q) + 1
      BY <3>1
    <3>3. q # <<>> => Head(Append(q, m)) = Head(q)  BY <3>1
    <3> QED  BY <3>2, <3>3 DEF q
  <2>3. /\ y \in Sessions /\ y.outbox = Append(x.outbox, m) /\ y.open = x.open
        /\ y.writes = x.writes /\ y.writing = x.writing /\ y.active = x.active
        /\ y.conn = x.conn /\ y.reading = x.reading /\ y.listed = x.listed
    <3>1. y = [x EXCEPT !.outbox = Append(x.outbox, m)]  BY DEF Push
    <3> HIDE DEF y
    <3> DEFINE o == Append(x.outbox, m)
    <3>2. o \in Seq(OutMsg)  BY <2>2
    <3>3. y = [x EXCEPT !.outbox = o]  BY <3>1
    <3> HIDE DEF o
    <3>4. /\ y \in Sessions /\ y.outbox = o /\ y.open = x.open
          /\ y.writes = x.writes /\ y.writing = x.writing /\ y.active = x.active
          /\ y.conn = x.conn /\ y.reading = x.reading /\ y.listed = x.listed
      BY <3>2, <3>3 DEF Sessions
    <3> QED  BY <3>4 DEF o
  <2> HIDE DEF y
  <2>4. CASE y.writing
    <3>1. SendText(x, m) = y  BY <1>2, <2>4 DEF SendText, Accepts, y
    <3>2. WritesFront(y)  BY <2>2, <2>3 DEF WritesFront
    <3>3. Len(y.outbox) <= MaxOutbox  BY <2>1, <2>2, <2>3, SessionAssumption
    <3>4. y.open  BY <2>1, <2>3
    <3> QED  BY <1>2, <2>3, <3>1, <3>2, <3>3, <3>4
  <2>5. CASE ~y.writing
    <3>1. SendText(x, m) = StartWrite(z)  BY <1>2, <2>5 DEF SendText, Accepts, y
    <3>2. /\ z \in Sessions /\ z.outbox = y.outbox /\ z.open = y.open /\ z.writing = TRUE
          /\ z.writes = y.writes /\ z.active = y.active
          /\ z.conn = y.conn /\ z.reading = y.reading /\ z.listed = y.listed
      BY <2>3 DEF Sessions
    <3>3. z.writes = <<>>  BY <2>3, <2>5, <3>2 DEF WritesFront
    <3> HIDE DEF z
    <3>4. /\ StartWrite(z) \in Sessions /\ WritesFront(StartWrite(z))
          /\ StartWrite(z).open = z.open /\ StartWrite(z).active = z.active
          /\ StartWrite(z).conn = z.conn /\ StartWrite(z).reading = z.reading
          /\ StartWrite(z).listed = z.listed /\ StartWrite(z).outbox = z.outbox
      BY <2>1, <2>3, <3>2, <3>3, StartWriteFacts
    <3>5. Len(y.outbox) <= MaxOutbox  BY <2>1, <2>2, <2>3, SessionAssumption
    <3>6. y.open  BY <2>1, <2>3
    <3> QED  BY <1>2, <2>3, <3>1, <3>2, <3>4, <3>5, <3>6
  <2> QED  BY <2>4, <2>5
<1> QED  BY <1>1, <1>2

\* A session without a write in flight and with another outbox.
LEMMA WithQueues ==
    ASSUME NEW x \in Sessions, NEW o \in Seq(OutMsg)
    PROVE  LET z == [x EXCEPT !.writes = <<>>, !.outbox = o]
           IN  /\ z \in Sessions /\ z.writes = <<>> /\ z.outbox = o /\ z.open = x.open
               /\ z.writing = x.writing /\ z.active = x.active /\ z.conn = x.conn
               /\ z.reading = x.reading /\ z.listed = x.listed
<1> DEFINE w == <<>>
           z == [x EXCEPT !.writes = w, !.outbox = o]
<1>1. w \in Seq(OutMsg)  OBVIOUS
<1> HIDE DEF w
<1>2. /\ z \in Sessions /\ z.writes = w /\ z.outbox = o /\ z.open = x.open
      /\ z.writing = x.writing /\ z.active = x.active /\ z.conn = x.conn
      /\ z.reading = x.reading /\ z.listed = x.listed
  BY <1>1 DEF Sessions
<1> QED  BY <1>2 DEF w

\* What was sent stays the beginning of what was queued.
LEMMA PrefixOfConcat ==
    ASSUME NEW a \in Seq(OutMsg), NEW b \in Seq(OutMsg)
    PROVE  IsPrefix(a, a \o b)
<1>1. Len(a) <= Len(a \o b)  OBVIOUS
<1>2. SubSeq(a, 1, Len(a)) = SubSeq(a \o b, 1, Len(a))  OBVIOUS
<1> QED  BY <1>1, <1>2 DEF IsPrefix

\* A message that is queued, and one that is sent.
LEMMA QueueMoves ==
    ASSUME NEW a \in Seq(OutMsg), NEW b \in Seq(OutMsg), NEW m \in OutMsg
    PROVE  /\ Append(a \o b, m) = a \o Append(b, m)
           /\ b # <<>> => a \o b = Append(a, Head(b)) \o Tail(b)
<1>1. Append(a \o b, m) = a \o Append(b, m)  OBVIOUS
<1>2. b # <<>> => a \o b = Append(a, Head(b)) \o Tail(b)  OBVIOUS
<1> QED  BY <1>1, <1>2

-----------------------------------------------------------------------------
(* The outgoing queue                                                      *)

Requests == [key : Keys, kind : {"invalid", "unbuildable", "plain", "timed"}]

\* What waits for the strand.
StrandMsg == OutMsg \cup {CloseCall}

\* Taking the first of the closures, the requests or the keys that wait.
LEMMA HeadAndTail ==
    /\ \A q \in Seq(StrandMsg) : q # <<>> => Head(q) \in StrandMsg /\ Tail(q) \in Seq(StrandMsg)
    /\ \A q \in Seq(Requests) : q # <<>> => Head(q) \in Requests /\ Tail(q) \in Seq(Requests)
    /\ \A q \in Seq(Keys) : q # <<>> => Head(q) \in Keys /\ Tail(q) \in Seq(Keys)
    /\ \A q \in Seq(OutMsg) : q # <<>> =>
          /\ Head(q) \in OutMsg /\ Tail(q) \in Seq(OutMsg)
          /\ Len(Tail(q)) = Len(q) - 1 /\ Len(q) \in Nat
<1>1. \A q \in Seq(StrandMsg) : q # <<>> => Head(q) \in StrandMsg /\ Tail(q) \in Seq(StrandMsg)
  OBVIOUS
<1>2. \A q \in Seq(Requests) : q # <<>> => Head(q) \in Requests /\ Tail(q) \in Seq(Requests)
  OBVIOUS
<1>3. \A q \in Seq(Keys) : q # <<>> => Head(q) \in Keys /\ Tail(q) \in Seq(Keys)
  OBVIOUS
<1>4. \A q \in Seq(OutMsg) : q # <<>> =>
          /\ Head(q) \in OutMsg /\ Tail(q) \in Seq(OutMsg)
          /\ Len(Tail(q)) = Len(q) - 1 /\ Len(q) \in Nat
  OBVIOUS
<1> QED  BY <1>1, <1>2, <1>3, <1>4

Types ==
    /\ s \in Sessions /\ Len(s.outbox) <= MaxOutbox
    /\ strandq \in Seq(StrandMsg) /\ pending \subseteq OutMsg
    /\ accepted \in Seq(OutMsg) /\ sent \in Seq(OutMsg)
    /\ chains \in Seq([key : Keys, timed : BOOLEAN]) /\ built \in Nat
    /\ carried \subseteq DOMAIN chains
    /\ pc \in {"idle", "subscribe", "cancel", "deadlock"}
    /\ pc = "subscribe" => todo \in Seq(Requests)
    /\ pc = "cancel" => todo \in Seq(Keys)

\* Before the handshake is done nothing has happened.
Unopened ==
    s.conn = "handshake" =>
        /\ ~s.open /\ ~s.reading /\ ~s.listed
        /\ s.outbox = <<>> /\ s.writes = <<>> /\ s.active = <<>>
        /\ accepted = <<>> /\ sent = <<>> /\ chains = <<>> /\ table = {} /\ built = 0
        /\ pc = "idle"

\* A chain that is built and not installed belongs to the running handler.
Building == built # 0 => pc = "subscribe" /\ todo # <<>>

QueueInv ==
    /\ Types /\ WritesFront(s) /\ Conserved(s, accepted, sent) /\ Unopened /\ Building

\* What sendText() on the strand leaves behind; x is the session with another
\* map of subscriptions.
LEMMA SendsQueue ==
    ASSUME QueueInv, NEW x \in Sessions, NEW base, NEW m \in OutMsg, SendsFrom(x, base, m),
           x.open = s.open, x.outbox = s.outbox, x.writes = s.writes, x.writing = s.writing,
           x.conn = s.conn, UNCHANGED sent
    PROVE  /\ s' \in Sessions /\ Len(s'.outbox) <= MaxOutbox /\ accepted' \in Seq(OutMsg)
           /\ WritesFront(s') /\ Conserved(s', accepted', sent')
           /\ s'.conn \in {s.conn, "closing"}
           /\ IF Accepts(x)
              THEN /\ s'.open /\ s.open /\ s'.active = x.active /\ accepted' = Append(accepted, m)
                   /\ table' = base
              ELSE ~s'.open /\ accepted' = accepted
<1>1. /\ s' = SendText(x, m) /\ accepted' = IF Accepts(x) THEN Append(accepted, m) ELSE accepted
      /\ table' = IF Overflows(x) THEN base \ Installed(x) ELSE base
  BY DEF SendsFrom
<1>2. /\ WritesFront(x) /\ Len(x.outbox) <= MaxOutbox /\ accepted \in Seq(OutMsg) /\ sent \in Seq(OutMsg)
      /\ s.outbox \in Seq(OutMsg) /\ Conserved(x, accepted, sent)
  BY DEF QueueInv, Types, WritesFront, Sessions, Conserved
<1>3. /\ s' \in Sessions /\ WritesFront(s') /\ Len(s'.outbox) <= MaxOutbox
      /\ Accepts(x) => /\ s'.open /\ s'.outbox = Append(x.outbox, m)
                       /\ s'.active = x.active /\ s'.conn = x.conn
      /\ ~Accepts(x) => s' = Close(x)
  BY <1>1, <1>2, SendTextFacts
<1>4. CASE Accepts(x)
  <2>1. s.open /\ ~Overflows(x)  BY <1>4 DEF Accepts
  <2>2. accepted = sent \o s.outbox  BY <1>2, <2>1 DEF Conserved
  <2>3. Append(accepted, m) = sent \o Append(s.outbox, m)
    <3>1. sent \in Seq(OutMsg) /\ s.outbox \in Seq(OutMsg)  BY <1>2
    <3>2. Append(sent \o s.outbox, m) = sent \o Append(s.outbox, m)
      BY <3>1, QueueMoves
    <3> QED  BY <2>2, <3>2
  <2>4. Conserved(s', accepted', sent')  BY <1>1, <1>3, <1>4, <2>3 DEF Conserved
  <2>5. accepted' \in Seq(OutMsg)  BY <1>1, <1>2, <1>4
  <2> QED  BY <1>1, <1>3, <1>4, <2>1, <2>4, <2>5
<1>5. CASE ~Accepts(x)
  <2>1. /\ s' = Close(x) /\ accepted' = accepted /\ ~s'.open /\ s'.outbox = x.outbox
        /\ s'.writes = x.writes /\ s'.conn \in {x.conn, "closing"}
    <3>1. s' = Close(x) /\ accepted' = accepted  BY <1>1, <1>3, <1>5
    <3>2. /\ ~Close(x).open /\ Close(x).outbox = x.outbox /\ Close(x).writes = x.writes
          /\ Close(x).conn \in {x.conn, "closing"}
      BY CloseFacts
    <3> QED  BY <3>1, <3>2
  <2>2. Conserved(s', accepted', sent')  BY <1>2, <2>1 DEF Conserved
  <2> QED  BY <1>2, <1>3, <1>5, <2>1, <2>2
<1> QED  BY <1>4, <1>5

\* The messages the session itself sends.
LEMMA MsgTypes ==
    /\ Error \in OutMsg
    /\ \A key \in Keys, n \in Nat : Msg("subscribed", key, n) \in OutMsg
                                    /\ Msg("canceled", key, n) \in OutMsg /\ Msg("update", key, n) \in OutMsg
BY DEF Error, Msg, OutMsg

\* A session is constructed with empty queues.
LEMMA QueueInit == Init => QueueInv
<1> SUFFICES ASSUME Init PROVE QueueInv  OBVIOUS
<1>1. <<>> \in Actives
  <2>1. <<>> \in [{} -> Nat]  OBVIOUS
  <2> QED  BY <2>1 DEF Actives
<1>2. s \in Sessions /\ s.outbox = <<>> /\ s.writes = <<>> /\ s.active = <<>> /\ ~s.open /\ ~s.reading /\ ~s.listed
  BY <1>1 DEF Init, Sessions
<1>3. Types  BY <1>2, SessionAssumption DEF Init, Types
<1>4. Conserved(s, accepted, sent)  BY <1>2 DEF Init, Conserved
<1>5. WritesFront(s) /\ Unopened /\ Building  BY <1>2 DEF Init, WritesFront, Unopened, Building
<1> QED  BY <1>3, <1>4, <1>5 DEF QueueInv

\* Steps that leave the session itself alone: reading a message, the handler's
\* bookkeeping, the pool's threads and closeAll().
LEMMA QueueQuiet ==
    ASSUME QueueInv,
           \/ CloseAll \/ HandlerDone \/ Build \/ UNCHANGED vars
           \/ \E m \in Messages : OnRead(m)
           \/ \E n \in DOMAIN chains : Carry(n) \/ Respond(n)
           \/ \E m \in pending : PostUpdate(m)
    PROVE  QueueInv'
<1> USE DEF QueueInv
<1>1. UNCHANGED <<s, accepted, sent>>
  BY DEF CloseAll, HandlerDone, Build, vars, OnRead, Carry, Respond, PostUpdate
<1>2. (WritesFront(s) /\ Conserved(s, accepted, sent))'
  BY <1>1 DEF WritesFront, Conserved
<1>3. CASE UNCHANGED vars
  BY <1>2, <1>3 DEF vars, Types, Unopened, Building
<1>4. CASE CloseAll
  <2>1. strandq' \in Seq(StrandMsg)
    <3>1. strandq \in Seq(StrandMsg) /\ CloseCall \in StrandMsg  BY DEF Types, StrandMsg
    <3>2. strandq' = Append(strandq, CloseCall)  BY <1>4 DEF CloseAll
    <3> HIDE DEF CloseCall
    <3> QED  BY <3>1, <3>2
  <2> QED  BY <1>2, <1>4, <2>1 DEF CloseAll, Types, Unopened, Building, poolVars
<1>5. CASE HandlerDone
  BY <1>2, <1>5 DEF HandlerDone, Types, Unopened, Building, poolVars
<1>6. CASE Build
  <2>1. /\ todo \in Seq(Requests) /\ todo # <<>> /\ Head(todo) \in Requests /\ pc = "subscribe"
        /\ chains' = Append(chains, [key |-> Head(todo).key, timed |-> Head(todo).kind = "timed"])
        /\ built' = Len(chains) + 1
        /\ UNCHANGED <<s, strandq, pc, todo, carried, pending, accepted, sent>>
    BY <1>6 DEF Build, Types, poolVars
  <2>2. [key |-> Head(todo).key, timed |-> Head(todo).kind = "timed"] \in [key : Keys, timed : BOOLEAN]
    BY <2>1 DEF Requests
  <2>3. chains' \in Seq([key : Keys, timed : BOOLEAN]) /\ DOMAIN chains \subseteq DOMAIN chains' /\ built' \in Nat
    BY <2>1, <2>2 DEF Types
  <2> QED  BY <1>2, <2>1, <2>3 DEF Types, Unopened, Building
<1>7. CASE \E m \in Messages : OnRead(m)
  <2>1. PICK m \in Messages : OnRead(m)  BY <1>7
  <2>2. /\ pc = "idle" /\ s.reading /\ pc' = m.type /\ pc' \in {"subscribe", "cancel"} /\ todo' = m.items
        /\ pc' = "subscribe" => todo' \in Seq(Requests)
        /\ pc' = "cancel" => todo' \in Seq(Keys)
        /\ UNCHANGED <<s, strandq, built, chains, table, carried, pending, accepted, sent>>
    BY <2>1, SessionAssumption DEF OnRead, Receives, Requests, poolVars
  <2> QED  BY <1>2, <2>2 DEF Types, Unopened, Building
<1>8. CASE \E n \in DOMAIN chains : Carry(n) \/ Respond(n)
  <2>1. PICK n \in DOMAIN chains : Carry(n) \/ Respond(n)  BY <1>8
  <2>2. n \in Nat /\ chains[n].key \in Keys
    <3> DEFINE R == [key : Keys, timed : BOOLEAN]
    <3>1. chains \in Seq(R)  BY DEF Types
    <3>2. \A c \in R : c.key \in Keys  OBVIOUS
    <3> HIDE DEF R
    <3>3. chains[n] \in R /\ n \in Nat  BY <2>1, <3>1
    <3> QED  BY <3>2, <3>3
  <2>3. Msg("update", chains[n].key, n) \in OutMsg  BY <2>2, MsgTypes
  <2>4. carried' \subseteq DOMAIN chains /\ pending' \subseteq OutMsg
    BY <2>1, <2>3 DEF Carry, Respond, Types
  <2>5. UNCHANGED <<s, strandq, pc, todo, built, chains, table, accepted, sent>>
    BY <2>1 DEF Carry, Respond
  <2> QED  BY <1>2, <2>4, <2>5 DEF Types, Unopened, Building
<1>9. CASE \E m \in pending : PostUpdate(m)
  <2>1. PICK m \in pending : PostUpdate(m)  BY <1>9
  <2>2. /\ pending' \subseteq OutMsg /\ strandq' \in Seq(StrandMsg)
        /\ UNCHANGED <<s, pc, todo, built, chains, table, carried, accepted, sent>>
    <3>1. strandq \in Seq(StrandMsg) /\ m \in StrandMsg  BY DEF Types, StrandMsg
    <3>2. strandq' = Append(strandq, m)  BY <2>1 DEF PostUpdate
    <3>3. strandq' \in Seq(StrandMsg)  BY <3>1, <3>2
    <3> QED  BY <2>1, <3>3 DEF PostUpdate, Types
  <2> QED  BY <1>2, <2>2 DEF Types, Unopened, Building
<1> QED  BY <1>3, <1>4, <1>5, <1>6, <1>7, <1>8, <1>9

\* The handshake ends, and the close handshake.
LEMMA QueueLife == ASSUME QueueInv, Accept \/ AcceptFails \/ CloseDone PROVE QueueInv'
<1> USE DEF QueueInv
<1>1. s \in Sessions  BY DEF Types
<1>2. UNCHANGED <<strandq, pc, todo, built, chains, table, carried, pending, accepted, sent>>
  BY DEF Accept, AcceptFails, CloseDone, poolVars
<1>3. /\ s' \in Sessions /\ s'.conn # "handshake" /\ s'.outbox = s.outbox /\ s'.writes = s.writes
      /\ s'.writing = s.writing
      /\ s'.open = s.open \/ (Accept /\ s'.open)
  <2>1. CASE Accept
    <3>1. s' = [s EXCEPT !.open = TRUE, !.conn = "open", !.reading = TRUE, !.listed = TRUE]  BY <2>1 DEF Accept
    <3> QED  BY <1>1, <2>1, <3>1 DEF Sessions
  <2>2. CASE AcceptFails
    <3>1. s' = [s EXCEPT !.conn = "closed"]  BY <2>2 DEF AcceptFails
    <3> QED  BY <1>1, <3>1 DEF Sessions
  <2>3. CASE CloseDone
    <3>1. s' = [s EXCEPT !.conn = "closed", !.listed = FALSE]  BY <2>3 DEF CloseDone
    <3> QED  BY <1>1, <3>1 DEF Sessions
  <2> QED  BY <2>1, <2>2, <2>3
<1>4. WritesFront(s)'  BY <1>3 DEF WritesFront
<1>5. Conserved(s, accepted, sent)'
  <2>1. CASE s'.open = s.open  BY <1>2, <1>3, <2>1 DEF Conserved
  <2>2. CASE Accept
    <3>1. accepted = <<>> /\ sent = <<>> /\ s.outbox = <<>>  BY <2>2 DEF Accept, Unopened
    <3> QED  BY <1>2, <1>3, <3>1 DEF Conserved
  <2> QED  BY <1>3, <2>1, <2>2
<1>6. Types' /\ Unopened' /\ Building'  BY <1>2, <1>3 DEF Types, Unopened, Building
<1> QED  BY <1>4, <1>5, <1>6

\* The session is closed by a failed read, a failed write or closeAll().
LEMMA QueueCloses ==
    ASSUME QueueInv, ReadFails \/ WriteFails \/ (RunStrand /\ Head(strandq) = CloseCall)
    PROVE  QueueInv' /\ ~s'.open /\ accepted' = accepted
<1> USE DEF QueueInv
<1> DEFINE y == Close(s)
<1>1. s \in Sessions  BY DEF Types
<1>2. /\ y \in Sessions /\ ~y.open /\ y.outbox = s.outbox /\ y.writes = s.writes
      /\ y.writing = s.writing /\ y.conn \in {s.conn, "closing"} /\ (~s.open => y = s)
  BY <1>1, CloseFacts
<1>3. /\ UNCHANGED <<pc, todo, built, chains, carried, pending, accepted, sent>>
      /\ strandq' = strandq \/ (strandq # <<>> /\ strandq' = Tail(strandq))
  BY DEF ReadFails, WriteFails, RunStrand, poolVars
<1> HIDE DEF y
<1>4. /\ s' \in Sessions /\ ~s'.open /\ s'.outbox = s.outbox /\ s'.conn = y.conn
      /\ s'.writing = s.writing /\ s'.writes \in {s.writes, <<>>}
  <2>1. CASE ReadFails
    <3>1. s' = [y EXCEPT !.reading = FALSE]  BY <2>1 DEF ReadFails, y
    <3> QED  BY <1>2, <3>1 DEF Sessions
  <2>2. CASE WriteFails
    <3>1. s' = [y EXCEPT !.writes = Tail(@)] /\ s.writes # <<>>  BY <2>2 DEF WriteFails, y
    <3>2. s.writes = <<Head(s.outbox)>>  BY <3>1 DEF WritesFront
    <3>3. Tail(<<Head(s.outbox)>>) = <<>>  OBVIOUS
    <3>4. Tail(y.writes) = <<>>  BY <1>2, <3>2, <3>3
    <3>5. s' = [y EXCEPT !.writes = <<>>, !.outbox = s.outbox]  BY <1>2, <3>1, <3>4 DEF Sessions
    <3>6. s.outbox \in Seq(OutMsg)  BY <1>1 DEF Sessions
    <3> QED  BY <1>2, <3>5, <3>6, WithQueues
  <2>3. CASE RunStrand /\ Head(strandq) = CloseCall
    BY <1>2, <2>3 DEF RunStrand, y
  <2> QED  BY <2>1, <2>2, <2>3
<1>5. WritesFront(s)'  BY <1>4 DEF WritesFront
<1>6. Conserved(s, accepted, sent)'  BY <1>3, <1>4 DEF Conserved
<1>7. s'.conn = "handshake" => s.conn = "handshake" /\ ~s.open /\ pc = "idle" /\ s.writes = <<>> /\ ~s.reading
  BY <1>2, <1>4 DEF Unopened
<1>8. s'.conn = "handshake" => s' = s /\ table' = table
  BY <1>2, <1>7 DEF ReadFails, WriteFails, RunStrand, y
<1>9. Types' /\ Building'
  <2>1. strandq \in Seq(StrandMsg)  BY DEF Types
  <2>2. strandq' \in Seq(StrandMsg)  BY <1>3, <2>1, HeadAndTail
  <2> QED  BY <1>3, <1>4, <2>2 DEF Types, Building
<1>10. Unopened'  BY <1>3, <1>7, <1>8 DEF Unopened
<1> QED  BY <1>3, <1>4, <1>5, <1>6, <1>9, <1>10

\* The subscriptions a handler leaves in the map.
LEMMA ActiveTypes ==
    ASSUME Types, pc \in {"subscribe", "cancel"}, todo # <<>>
    PROVE  /\ pc = "subscribe" =>
                 [s EXCEPT !.active = [k \in DOMAIN @ \cup {Head(todo).key} |->
                                          IF k = Head(todo).key THEN built ELSE @[k]]] \in Sessions
           /\ pc = "cancel" =>
                 [s EXCEPT !.active = [k \in DOMAIN @ \ {Head(todo)} |-> @[k]]] \in Sessions
<1>1. s \in Sessions /\ s.active \in Actives /\ built \in Nat  BY DEF Types, Sessions
<1>2. PICK K \in SUBSET Keys : s.active \in [K -> Nat]  BY <1>1 DEF Actives
<1>3. CASE pc = "subscribe"
  <2> DEFINE key == Head(todo).key
             a == [k \in DOMAIN s.active \cup {key} |-> IF k = key THEN built ELSE s.active[k]]
  <2>1. key \in Keys
    <3>1. todo \in Seq(Requests)  BY <1>3 DEF Types
    <3>2. Head(todo) \in Requests  BY <3>1
    <3> QED  BY <3>2 DEF Requests
  <2> HIDE DEF key
  <2>2. K \cup {key} \in SUBSET Keys /\ a \in [K \cup {key} -> Nat]  BY <1>1, <1>2, <2>1
  <2>3. a \in Actives  BY <2>2 DEF Actives
  <2> HIDE DEF a
  <2>4. [s EXCEPT !.active = a] \in Sessions  BY <1>1, <2>3 DEF Sessions
  <2> QED  BY <1>3, <2>4 DEF a, key
<1>4. CASE pc = "cancel"
  <2> DEFINE key == Head(todo)
             a == [k \in DOMAIN s.active \ {key} |-> s.active[k]]
  <2> HIDE DEF key
  <2>2. K \ {key} \in SUBSET Keys /\ a \in [K \ {key} -> Nat]  BY <1>1, <1>2
  <2>3. a \in Actives  BY <2>2 DEF Actives
  <2> HIDE DEF a
  <2>4. [s EXCEPT !.active = a] \in Sessions  BY <1>1, <2>3 DEF Sessions
  <2> QED  BY <1>4, <2>4 DEF a, key
<1> QED  BY <1>3, <1>4

\* Handlers that send: refusals, the limit, acknowledgements, queued updates.
LEMMA QueueSends ==
    ASSUME QueueInv,
           \/ \E m \in Messages : OnReadRefused(m)
           \/ RequestRefused \/ RequestOverLimit \/ Install \/ Cancel
           \/ (RunStrand /\ Head(strandq) # CloseCall)
    PROVE  QueueInv'
<1> USE DEF QueueInv
<1>1. /\ UNCHANGED <<chains, carried, pending, sent>>
      /\ s.conn # "handshake" \/ RunStrand
      /\ s \in Sessions /\ chains \in Seq([key : Keys, timed : BOOLEAN])
      /\ pending \subseteq OutMsg /\ carried \subseteq DOMAIN chains
  BY DEF OnReadRefused, Receives, RequestRefused, RequestOverLimit, Install, Cancel, RunStrand,
         poolVars, Unopened, Building, Types
<1>2. /\ pc' \in {"idle", "subscribe", "cancel", "deadlock"} /\ built' \in Nat
      /\ pc' = "subscribe" => todo' \in Seq(Requests)
      /\ pc' = "cancel" => todo' \in Seq(Keys)
      /\ strandq' \in Seq(StrandMsg)
      /\ Building'
  <2>1. CASE \E m \in Messages : OnReadRefused(m)
    BY <2>1 DEF OnReadRefused, Receives, Types, Building
  <2>2. CASE RequestRefused  BY <2>2 DEF RequestRefused, Types, Building
  <2>3. CASE RequestOverLimit
    <3>1. /\ todo \in Seq(Requests) /\ todo # <<>> /\ built = 0 /\ pc = "subscribe"
          /\ UNCHANGED <<built, strandq>>
          /\ (pc' = "deadlock" \/ (pc' = pc /\ todo' = Tail(todo)))
      BY <2>3 DEF RequestOverLimit, Types
    <3>2. Tail(todo) \in Seq(Requests)  BY <3>1, HeadAndTail
    <3> QED  BY <3>1, <3>2 DEF Types, Building
  <2>4. CASE Install  BY <2>4 DEF Install, Types, Building
  <2>5. CASE Cancel  BY <2>5 DEF Cancel, Types, Building
  <2>6. CASE RunStrand  BY <2>6 DEF RunStrand, Types, Building
  <2> QED  BY <2>1, <2>2, <2>3, <2>4, <2>5, <2>6
<1>3. ASSUME NEW x \in Sessions, NEW base, NEW m \in OutMsg, SendsFrom(x, base, m),
             x.open = s.open, x.outbox = s.outbox, x.writes = s.writes, x.writing = s.writing,
             x.conn = s.conn, x.reading = s.reading, x.listed = s.listed,
             s.conn # "handshake" \/ (x = s /\ base = table /\ UNCHANGED <<built, pc>>)
      PROVE  QueueInv'
  <2>1. /\ s' \in Sessions /\ Len(s'.outbox) <= MaxOutbox /\ accepted' \in Seq(OutMsg)
        /\ WritesFront(s') /\ Conserved(s', accepted', sent')
        /\ s'.conn \in {s.conn, "closing"}
    BY <1>1, <1>3, SendsQueue
  <2>2. Types'  BY <1>1, <1>2, <2>1 DEF Types
  <2>3. Unopened'
    <3>1. CASE s.conn # "handshake"  BY <2>1, <3>1 DEF Unopened
    <3>2. CASE s.conn = "handshake"
      <4>1. ~s.open /\ x = s /\ base = table /\ UNCHANGED <<built, pc>>  BY <1>3, <3>2 DEF Unopened
      <4>2. s' = s /\ accepted' = accepted /\ table' = table
        BY <1>3, <4>1 DEF SendsFrom, SendText, Accepts, Overflows
      <4> QED  BY <1>1, <4>1, <4>2 DEF Unopened
    <3> QED  BY <3>1, <3>2
  <2> QED  BY <1>2, <2>1, <2>2, <2>3
<1>4. ASSUME NEW m \in OutMsg, Sends(m), s.conn # "handshake" \/ UNCHANGED <<built, pc>>
      PROVE  QueueInv'
  BY <1>1, <1>3, <1>4 DEF Sends
<1>5. CASE \E m \in Messages : OnReadRefused(m)
  BY <1>1, <1>4, <1>5, MsgTypes DEF OnReadRefused
<1>6. CASE RequestRefused  BY <1>1, <1>4, <1>6, MsgTypes DEF RequestRefused
<1>7. CASE RequestOverLimit
  <2>1. CASE Overflows(s)
    <3>1. s' = [s EXCEPT !.open = FALSE] /\ UNCHANGED accepted  BY <1>7, <2>1 DEF RequestOverLimit
    <3>2. /\ s' \in Sessions /\ ~s'.open /\ s'.outbox = s.outbox /\ s'.writes = s.writes
          /\ s'.writing = s.writing /\ s'.conn = s.conn
      BY <1>1, <3>1 DEF Sessions
    <3>3. s.conn # "handshake"  BY <2>1 DEF Unopened, Overflows
    <3>4. WritesFront(s)' /\ Conserved(s, accepted, sent)'
      BY <1>1, <3>1, <3>2 DEF WritesFront, Conserved
    <3>5. Types' /\ Unopened'  BY <1>1, <1>2, <3>1, <3>2, <3>3 DEF Types, Unopened
    <3> QED  BY <1>2, <3>4, <3>5
  <2>2. CASE ~Overflows(s)
    <3>1. Sends(Error) /\ UNCHANGED <<built, pc>>  BY <1>7, <2>2 DEF RequestOverLimit
    <3> QED  BY <1>4, <3>1, MsgTypes
  <2> QED  BY <2>1, <2>2
<1>8. CASE RunStrand /\ Head(strandq) # CloseCall
  <2>1. Sends(Head(strandq)) /\ UNCHANGED <<built, pc>>  BY <1>8 DEF RunStrand
  <2>2. strandq \in Seq(StrandMsg) /\ strandq # <<>>  BY <1>8 DEF RunStrand, Types
  <2>3. Head(strandq) \in StrandMsg  BY <2>2, HeadAndTail
  <2>4. Head(strandq) \in OutMsg  BY <1>8, <2>3 DEF StrandMsg
  <2> QED  BY <1>4, <2>1, <2>4
<1>9. CASE Install
  <2> DEFINE key == Head(todo).key
             old == IF key \in DOMAIN s.active THEN {s.active[key]} ELSE {}
             x == [s EXCEPT !.active = [k \in DOMAIN @ \cup {key} |-> IF k = key THEN built ELSE @[k]]]
  <2>1. SendsFrom(x, table \ old, Msg("subscribed", key, built)) /\ built # 0
    BY <1>9 DEF Install
  <2>2. pc = "subscribe" /\ todo # <<>> /\ s.conn # "handshake"
    BY <2>1 DEF Building, Unopened
  <2>3. x \in Sessions  BY <2>2, ActiveTypes
  <2>4. /\ x.open = s.open /\ x.outbox = s.outbox /\ x.writes = s.writes /\ x.writing = s.writing
        /\ x.conn = s.conn /\ x.reading = s.reading /\ x.listed = s.listed
    BY <1>1 DEF Sessions
  <2>5. Msg("subscribed", key, built) \in OutMsg
    <3>1. todo \in Seq(Requests) /\ built \in Nat  BY <2>2 DEF Types
    <3>2. Head(todo) \in Requests  BY <2>2, <3>1
    <3>3. key \in Keys  BY <3>2 DEF Requests
    <3> QED  BY <3>1, <3>3, MsgTypes
  <2> HIDE DEF x, old, key
  <2> QED  BY <1>3, <2>1, <2>2, <2>3, <2>4, <2>5
<1>10. CASE Cancel
  <2> DEFINE key == Head(todo)
             root == IF key \in DOMAIN s.active THEN {s.active[key]} ELSE {}
             x == [s EXCEPT !.active = [k \in DOMAIN @ \ {key} |-> @[k]]]
  <2>1. SendsFrom(x, table \ root, Msg("canceled", key, 0)) /\ pc = "cancel" /\ todo # <<>>
    BY <1>10 DEF Cancel
  <2>2. s.conn # "handshake"
    BY <2>1 DEF Unopened
  <2>3. x \in Sessions  BY <2>1, ActiveTypes
  <2>4. /\ x.open = s.open /\ x.outbox = s.outbox /\ x.writes = s.writes /\ x.writing = s.writing
        /\ x.conn = s.conn /\ x.reading = s.reading /\ x.listed = s.listed
    BY <1>1 DEF Sessions
  <2>5. Msg("canceled", key, 0) \in OutMsg
    <3>1. todo \in Seq(Keys)  BY <2>1 DEF Types
    <3>2. key \in Keys  BY <2>1, <3>1
    <3> QED  BY <3>2, MsgTypes
  <2> HIDE DEF x, root, key
  <2> QED  BY <1>3, <2>1, <2>2, <2>3, <2>4, <2>5
<1> QED  BY <1>5, <1>6, <1>7, <1>8, <1>9, <1>10

\* onWrite(): the front of the outbox has been sent and is popped.
LEMMA QueueWrites == ASSUME QueueInv, WriteDone PROVE QueueInv' /\ s'.open = s.open /\ s'.active = s.active
<1> USE DEF QueueInv
<1> DEFINE y == [s EXCEPT !.writes = Tail(@), !.outbox = IF @ = <<>> THEN @ ELSE Tail(@)]
<1>1. /\ s \in Sessions /\ s.writes # <<>> /\ s' = StartWrite(y) /\ sent' = Append(sent, Head(s.writes))
      /\ UNCHANGED <<strandq, pc, todo, built, chains, table, carried, pending, accepted>>
  BY DEF WriteDone, Types, poolVars
<1>2. s.outbox # <<>> /\ s.writes = <<Head(s.outbox)>> /\ s.writing  BY <1>1 DEF WritesFront
<1>3. /\ s.outbox \in Seq(OutMsg) /\ Head(s.outbox) \in OutMsg /\ Tail(s.outbox) \in Seq(OutMsg)
      /\ Len(Tail(s.outbox)) = Len(s.outbox) - 1 /\ Len(s.outbox) \in Nat
  <2>1. s.outbox \in Seq(OutMsg)  BY <1>1 DEF Sessions
  <2> QED  BY <1>2, <2>1, HeadAndTail
<1>4. Tail(s.writes) = <<>> /\ Head(s.writes) = Head(s.outbox)
  <2>1. Tail(<<Head(s.outbox)>>) = <<>> /\ Head(<<Head(s.outbox)>>) = Head(s.outbox)  OBVIOUS
  <2> QED  BY <1>2, <2>1
<1>5. y = [s EXCEPT !.writes = <<>>, !.outbox = Tail(s.outbox)]
  BY <1>1, <1>2, <1>4 DEF Sessions
<1> HIDE DEF y
<1>6. /\ y \in Sessions /\ y.writes = <<>> /\ y.outbox = Tail(s.outbox) /\ y.open = s.open
      /\ y.writing = s.writing /\ y.active = s.active /\ y.conn = s.conn
  BY <1>1, <1>3, <1>5, WithQueues
<1>7. /\ s' \in Sessions /\ WritesFront(s') /\ s'.open = s.open /\ s'.active = s.active /\ s'.conn = s.conn
      /\ s.open => s'.outbox = Tail(s.outbox)
      /\ ~s.open => s'.outbox = <<>> /\ s'.writes = <<>>
  BY <1>1, <1>2, <1>6, StartWriteFacts
<1>8. accepted = sent \o s.outbox /\ sent \in Seq(OutMsg) /\ accepted \in Seq(OutMsg)
  BY <1>1 DEF Conserved, Types
<1>9. accepted = sent' \o Tail(s.outbox) /\ sent' \in Seq(OutMsg)
  <2>1. sent \o s.outbox = Append(sent, Head(s.outbox)) \o Tail(s.outbox)
    BY <1>2, <1>3, <1>8, QueueMoves
  <2>2. sent' = Append(sent, Head(s.outbox))  BY <1>1, <1>4
  <2>3. Append(sent, Head(s.outbox)) \in Seq(OutMsg)  BY <1>3, <1>8
  <2> QED  BY <1>8, <2>1, <2>2, <2>3
<1>10. IsPrefix(sent', accepted)  BY <1>3, <1>9, PrefixOfConcat
<1>11. Conserved(s, accepted, sent)'
  BY <1>1, <1>7, <1>9, <1>10 DEF Conserved
<1>12. Len(s'.outbox) <= MaxOutbox
  <2>1. Len(s.outbox) <= MaxOutbox /\ Len(s.outbox) \in Nat  BY <1>3 DEF Types
  <2>2. Len(<<>>) = 0  OBVIOUS
  <2>3. CASE s.open
    <3> DEFINE a == Len(s.outbox)
               b == Len(Tail(s.outbox))
    <3>1. a \in Nat /\ b = a - 1 /\ a <= MaxOutbox  BY <1>3, <2>1
    <3> HIDE DEF a, b
    <3>2. b <= MaxOutbox  BY <3>1, SessionAssumption
    <3> QED  BY <1>7, <2>3, <3>2 DEF b
  <2>4. CASE ~s.open  BY <1>7, <2>2, <2>4, SessionAssumption
  <2> QED  BY <2>3, <2>4
<1>13. Types' /\ Building'  BY <1>1, <1>7, <1>8, <1>9, <1>12 DEF Types, Building
<1>14. Unopened'  BY <1>1, <1>2, <1>7 DEF Unopened
<1> QED  BY <1>7, <1>11, <1>13, <1>14

\* Every step keeps the queue and what goes through it in order.
LEMMA QueueNext == QueueInv /\ [Next]_vars => QueueInv'
<1> SUFFICES ASSUME QueueInv, [Next]_vars PROVE QueueInv'  OBVIOUS
<1>1. CASE \/ CloseAll \/ HandlerDone \/ Build \/ UNCHANGED vars
           \/ \E m \in Messages : OnRead(m)
           \/ \E n \in DOMAIN chains : Carry(n) \/ Respond(n)
           \/ \E m \in pending : PostUpdate(m)
  BY <1>1, QueueQuiet
<1>2. CASE Accept \/ AcceptFails \/ CloseDone  BY <1>2, QueueLife
<1>3. CASE ReadFails \/ WriteFails \/ (RunStrand /\ Head(strandq) = CloseCall)  BY <1>3, QueueCloses
<1>4. CASE \/ \E m \in Messages : OnReadRefused(m)
           \/ RequestRefused \/ RequestOverLimit \/ Install \/ Cancel
           \/ (RunStrand /\ Head(strandq) # CloseCall)
  BY <1>4, QueueSends
<1>5. CASE WriteDone  BY <1>5, QueueWrites
<1> QED  BY <1>1, <1>2, <1>3, <1>4, <1>5 DEF Next, HandlerStep

\* The outgoing queue is in order in every reachable state.
THEOREM QueueTheorem == Spec => []QueueInv
BY QueueInit, QueueNext, PTL DEF Spec

\* async_write reads its buffer from the front of the outbox while other
\* handlers run: no more than one write is in flight and its message stays the
\* front of the queue until onWrite(), in every session.
THEOREM WriteBufferTheorem == Spec => []WriteBufferStable
<1>1. QueueInv => WriteBufferStable
  <2> SUFFICES ASSUME QueueInv PROVE WriteBufferStable  OBVIOUS
  <2>1. CASE s.writes = <<>>  BY <2>1 DEF WriteBufferStable
  <2>2. CASE s.outbox # <<>> /\ s.writes = <<Head(s.outbox)>>
    <3>1. Len(<<Head(s.outbox)>>) = 1 /\ <<Head(s.outbox)>>[1] = Head(s.outbox)  OBVIOUS
    <3> QED  BY <2>2, <3>1 DEF WriteBufferStable
  <2> QED  BY <2>1, <2>2 DEF QueueInv, WritesFront
<1> QED  BY <1>1, QueueTheorem, PTL

\* The client gets what was queued, in that order; while the session is open
\* what it has not got yet is still in the outbox.
THEOREM FifoTheorem == Spec => []FifoDelivery
<1>1. QueueInv => FifoDelivery
  <2> SUFFICES ASSUME QueueInv PROVE FifoDelivery  OBVIOUS
  <2>1. CASE accepted = sent \o s.outbox
    <3>1. sent \in Seq(OutMsg) /\ s.outbox \in Seq(OutMsg)  BY DEF QueueInv, Types, Sessions
    <3>2. IsPrefix(sent, sent \o s.outbox)  BY <3>1, PrefixOfConcat
    <3> QED  BY <2>1, <3>2 DEF FifoDelivery
  <2>2. CASE ~s.open /\ IsPrefix(sent, accepted)  BY <2>2 DEF FifoDelivery
  <2> QED  BY <2>1, <2>2 DEF QueueInv, Conserved
<1> QED  BY <1>1, QueueTheorem, PTL

-----------------------------------------------------------------------------
(* The Dispatcher's table and the subscriptions                            *)

\* Each installed chain is installed for one key, and the one being built for none.
Distinct(x, b) ==
    /\ Installed(x) \subseteq DOMAIN chains /\ b \in DOMAIN chains \cup {0}
    /\ b \notin Installed(x)
    /\ \A k1, k2 \in DOMAIN x.active : x.active[k1] = x.active[k2] => k1 = k2

TableInv ==
    /\ table \subseteq DOMAIN chains
    /\ Distinct(s, built)
    /\ TableMatchesActive

\* A session whose map is empty.
LEMMA DistinctEmpty ==
    ASSUME NEW x, x.active = <<>>, NEW b \in DOMAIN chains \cup {0}
    PROVE  Distinct(x, b) /\ Installed(x) = {}
BY DEF Distinct, Installed

\* Distinct and Installed look at the map only.
LEMMA DistinctSame ==
    ASSUME NEW x, NEW y, x.active = y.active, NEW b
    PROVE  (Distinct(x, b) <=> Distinct(y, b)) /\ Installed(x) = Installed(y)
BY DEF Distinct, Installed

\* What sendText() leaves of table and subscriptions.
LEMMA TableSends ==
    ASSUME QueueInv, NEW x \in Sessions, NEW base, NEW m \in OutMsg, SendsFrom(x, base, m),
           x.open = s.open, x.outbox = s.outbox, x.writes = s.writes, x.writing = s.writing,
           x.conn = s.conn, UNCHANGED <<sent, chains>>,
           base \subseteq DOMAIN chains, Distinct(x, built'),
           x.open => base = Installed(x) \cup ({built'} \ {0})
    PROVE  TableInv'
<1>1. /\ s' \in Sessions
      /\ s'.open => Accepts(x) /\ s'.active = x.active /\ table' = base
      /\ s'.active \in {x.active, <<>>} /\ table' \subseteq base
  <2>1. CASE Accepts(x)
    BY <2>1, SendsQueue
  <2>2. CASE ~Accepts(x)
    <3>1. s' \in Sessions /\ ~s'.open  BY <2>2, SendsQueue
    <3>2. s' = Close(x) /\ table' \subseteq base  BY <2>2 DEF SendsFrom, SendText, Accepts, Close
    <3>3. Close(x).active \in {x.active, <<>>}  BY CloseFacts
    <3> QED  BY <3>1, <3>2, <3>3
  <2> QED  BY <2>1, <2>2
<1>2. built' \in DOMAIN chains \cup {0}  BY DEF Distinct
<1>3. Distinct(s', built')
  BY <1>1, <1>2, DistinctEmpty, DistinctSame
<1>4. Distinct(s, built)'  BY <1>3 DEF Distinct, Installed
<1>5. TableMatchesActive'
  <2> SUFFICES ASSUME s'.open PROVE table' = Installed(s)' \cup ({built'} \ {0})
    BY DEF TableMatchesActive
  <2>1. x.open /\ s'.active = x.active /\ table' = base  BY <1>1 DEF Accepts
  <2>2. Installed(s)' = Installed(x)  BY <2>1 DEF Installed
  <2> QED  BY <2>1, <2>2
<1> QED  BY <1>1, <1>4, <1>5 DEF TableInv

\* Chains are numbered from 1.
LEMMA ZeroNoChain == ASSUME Types PROVE 0 \notin DOMAIN chains
<1>1. chains \in Seq([key : Keys, timed : BOOLEAN])  BY DEF Types
<1> QED  BY <1>1

\* A subscription replaces the one of its key; nothing else changes hands.
LEMMA InstallMap ==
    ASSUME Types, NEW x \in Sessions, NEW key \in Keys, NEW b \in Nat, Distinct(x, b),
           b # 0, NEW z, NEW old,
           old = IF key \in DOMAIN x.active THEN {x.active[key]} ELSE {},
           z.active = [k \in DOMAIN x.active \cup {key} |-> IF k = key THEN b ELSE x.active[k]]
    PROVE  /\ Distinct(z, 0)
           /\ Installed(z) = (Installed(x) \cup {b}) \ old
<1>1. b \in DOMAIN chains /\ b \notin Installed(x)  BY DEF Distinct
<1>2. /\ DOMAIN z.active = DOMAIN x.active \cup {key} /\ z.active[key] = b
      /\ \A k \in DOMAIN x.active : k # key => z.active[k] = x.active[k]
  OBVIOUS
<1>3. \A k \in DOMAIN x.active : x.active[k] \in Installed(x)  BY DEF Installed
<1>4. Installed(z) = (Installed(x) \cup {b}) \ old
  <2>1. ASSUME NEW n \in Installed(z) PROVE n \in (Installed(x) \cup {b}) \ old
    <3>1. PICK k \in DOMAIN z.active : n = z.active[k]  BY <2>1 DEF Installed
    <3>2. CASE k = key  BY <1>1, <1>2, <1>3, <3>1, <3>2
    <3>3. CASE k # key
      <4>1. k \in DOMAIN x.active /\ n = x.active[k]  BY <1>2, <3>1, <3>3
      <4>2. key \in DOMAIN x.active => x.active[key] # n  BY <3>3, <4>1 DEF Distinct
      <4> QED  BY <1>3, <4>1, <4>2
    <3> QED  BY <3>2, <3>3
  <2>2. ASSUME NEW n \in (Installed(x) \cup {b}) \ old PROVE n \in Installed(z)
    <3>1. CASE n = b  BY <1>2, <3>1 DEF Installed
    <3>2. CASE n \in Installed(x)
      <4>1. PICK k \in DOMAIN x.active : n = x.active[k]  BY <3>2 DEF Installed
      <4>2. k # key  BY <2>2, <4>1
      <4>3. k \in DOMAIN z.active /\ z.active[k] = n  BY <1>2, <4>1, <4>2
      <4> QED  BY <4>3 DEF Installed
    <3> QED  BY <2>2, <3>1, <3>2
  <2> QED  BY <2>1, <2>2
<1>5. \A k1, k2 \in DOMAIN z.active : z.active[k1] = z.active[k2] => k1 = k2
  <2> SUFFICES ASSUME NEW k1 \in DOMAIN z.active, NEW k2 \in DOMAIN z.active,
                      z.active[k1] = z.active[k2], k1 # k2
               PROVE  FALSE
    OBVIOUS
  <2>1. CASE k1 = key  BY <1>1, <1>2, <1>3, <2>1
  <2>2. CASE k2 = key  BY <1>1, <1>2, <1>3, <2>2
  <2>3. CASE k1 # key /\ k2 # key  BY <1>2, <2>3 DEF Distinct
  <2> QED  BY <2>1, <2>2, <2>3
<1>6. Installed(z) \subseteq DOMAIN chains  BY <1>1, <1>4 DEF Distinct
<1>7. 0 \notin Installed(z)  BY <1>4, ZeroNoChain DEF Distinct
<1> QED  BY <1>4, <1>5, <1>6, <1>7 DEF Distinct

\* A key that is cancelled leaves the map with its chain.
LEMMA CancelMap ==
    ASSUME NEW x \in Sessions, NEW key, NEW b, Distinct(x, b), NEW z, NEW root,
           root = IF key \in DOMAIN x.active THEN {x.active[key]} ELSE {},
           z.active = [k \in DOMAIN x.active \ {key} |-> x.active[k]]
    PROVE  /\ Distinct(z, b)
           /\ Installed(z) = Installed(x) \ root
<1>1. /\ DOMAIN z.active = DOMAIN x.active \ {key}
      /\ \A k \in DOMAIN z.active : z.active[k] = x.active[k]
  OBVIOUS
<1>2. Installed(z) = Installed(x) \ root
  <2>1. ASSUME NEW n \in Installed(z) PROVE n \in Installed(x) \ root
    <3>1. PICK k \in DOMAIN z.active : n = z.active[k]  BY <2>1 DEF Installed
    <3>2. k \in DOMAIN x.active /\ n = x.active[k] /\ k # key  BY <1>1, <3>1
    <3>3. key \in DOMAIN x.active => x.active[key] # n  BY <3>2 DEF Distinct
    <3> QED  BY <3>2, <3>3 DEF Installed
  <2>2. ASSUME NEW n \in Installed(x) \ root PROVE n \in Installed(z)
    <3>1. PICK k \in DOMAIN x.active : n = x.active[k]  BY <2>2 DEF Installed
    <3>2. k \in DOMAIN z.active /\ z.active[k] = n  BY <1>1, <2>2, <3>1
    <3> QED  BY <3>2 DEF Installed
  <2> QED  BY <2>1, <2>2
<1>3. \A k1, k2 \in DOMAIN z.active : z.active[k1] = z.active[k2] => k1 = k2
  BY <1>1 DEF Distinct
<1> QED  BY <1>2, <1>3 DEF Distinct

\* A closed session has no subscription left, whatever the table held.
LEMMA TableCloses ==
    ASSUME QueueInv, TableInv, ReadFails \/ WriteFails \/ (RunStrand /\ Head(strandq) = CloseCall)
    PROVE  TableInv'
<1>1. s \in Sessions  BY DEF QueueInv, Types
<1>2. /\ ~s'.open /\ table' \subseteq table /\ UNCHANGED <<chains, built>>
      /\ s'.active = Close(s).active
  <2>1. Close(s) \in Sessions  BY <1>1, CloseFacts
  <2>2. ~s'.open  BY QueueCloses
  <2>3. table' \subseteq table /\ UNCHANGED <<chains, built>>
    BY DEF ReadFails, WriteFails, RunStrand
  <2>4. s'.active = Close(s).active
    <3> DEFINE y == Close(s)
    <3>1. s' = y \/ s' = [y EXCEPT !.reading = FALSE] \/ s' = [y EXCEPT !.writes = Tail(@)]
      BY DEF ReadFails, WriteFails, RunStrand
    <3>2. y \in Sessions  BY <2>1
    <3> HIDE DEF y
    <3>3. s'.active = y.active  BY <3>1, <3>2 DEF Sessions
    <3> QED  BY <3>3 DEF y
  <2> QED  BY <2>2, <2>3, <2>4
<1>3. s'.active \in {s.active, <<>>}  BY <1>1, <1>2, CloseFacts
<1>4. Distinct(s', built)
  BY <1>3, DistinctEmpty, DistinctSame DEF TableInv, Distinct
<1>5. Distinct(s, built)'  BY <1>2, <1>4 DEF Distinct, Installed
<1> QED  BY <1>2, <1>5 DEF TableInv, TableMatchesActive

\* Steps that change neither the map nor the table.
LEMMA TableQuiet ==
    ASSUME QueueInv, TableInv,
           \/ CloseAll \/ HandlerDone \/ UNCHANGED vars \/ WriteDone
           \/ Accept \/ AcceptFails \/ CloseDone
           \/ \E m \in Messages : OnRead(m)
           \/ \E n \in DOMAIN chains : Carry(n) \/ Respond(n)
           \/ \E m \in pending : PostUpdate(m)
    PROVE  TableInv'
<1>1. UNCHANGED <<table, chains, built>>
  BY DEF CloseAll, HandlerDone, vars, WriteDone, Accept, AcceptFails, CloseDone, OnRead, Carry,
         Respond, PostUpdate
<1>2. s'.active = s.active /\ (s'.open => s.open \/ Accept)
  <2>1. s \in Sessions  BY DEF QueueInv, Types
  <2>2. CASE WriteDone  BY <2>2, QueueWrites
  <2>3. CASE Accept \/ AcceptFails \/ CloseDone
    BY <2>1, <2>3 DEF Accept, AcceptFails, CloseDone, Sessions
  <2>4. CASE UNCHANGED s  BY <2>4
  <2> QED  BY <2>2, <2>3, <2>4 DEF CloseAll, HandlerDone, vars, OnRead, Carry, Respond, PostUpdate
<1>3. Distinct(s, built)' /\ Installed(s)' = Installed(s)
  BY <1>1, <1>2 DEF TableInv, Distinct, Installed
<1>4. TableMatchesActive'
  <2>1. CASE s.open  BY <1>1, <1>3, <2>1 DEF TableInv, TableMatchesActive
  <2>2. CASE Accept
    <3>1. table = {} /\ s.active = <<>> /\ built = 0  BY <2>2 DEF Accept, QueueInv, Unopened
    <3>2. Installed(s) = {}  BY <3>1 DEF Installed
    <3> QED  BY <1>1, <1>3, <3>1, <3>2 DEF TableInv, TableMatchesActive
  <2>3. CASE ~s'.open  BY <2>3 DEF TableMatchesActive
  <2> QED  BY <1>2, <2>1, <2>2, <2>3
<1> QED  BY <1>1, <1>3, <1>4 DEF TableInv

\* A new chain has a new number.
LEMMA TableBuild == ASSUME QueueInv, TableInv, Build PROVE TableInv'
<1> DEFINE R == [key : Keys, timed : BOOLEAN]
           c == [key |-> Head(todo).key, timed |-> Head(todo).kind = "timed"]
           n == Len(chains) + 1
<1>1. /\ chains \in Seq(R) /\ chains' = Append(chains, c) /\ table' = table \cup {n}
      /\ built' = n /\ built = 0 /\ s' = s
  BY DEF QueueInv, Types, Build
<1>2. DOMAIN chains = 1 .. Len(chains) /\ Len(chains) \in Nat  BY <1>1
<1>3. DOMAIN chains' = 1 .. n
  <2> HIDE DEF c, R
  <2>1. Len(Append(chains, c)) = n /\ DOMAIN Append(chains, c) = 1 .. Len(Append(chains, c))
    BY <1>1
  <2> QED  BY <1>1, <2>1
<1> HIDE DEF c, R
<1>4. DOMAIN chains \subseteq DOMAIN chains' /\ n \in DOMAIN chains' /\ n \notin DOMAIN chains /\ n # 0
  BY <1>2, <1>3
<1> HIDE DEF n
<1>5. Distinct(s, built)'  BY <1>1, <1>4 DEF TableInv, Distinct, Installed
<1>6. TableMatchesActive'  BY <1>1, <1>4 DEF TableInv, TableMatchesActive, Installed
<1> QED  BY <1>1, <1>4, <1>5, <1>6 DEF TableInv

\* Handlers that send.
LEMMA TableHandlers ==
    ASSUME QueueInv, TableInv,
           \/ \E m \in Messages : OnReadRefused(m)
           \/ RequestRefused \/ RequestOverLimit \/ Install \/ Cancel
           \/ (RunStrand /\ Head(strandq) # CloseCall)
    PROVE  TableInv'
<1>1. Types /\ s \in Sessions /\ UNCHANGED <<sent, chains>>
  BY DEF QueueInv, Types, OnReadRefused, RequestRefused, RequestOverLimit, Install, Cancel, RunStrand
<1>2. /\ table \subseteq DOMAIN chains /\ Distinct(s, built)
      /\ s.open => table = Installed(s) \cup ({built} \ {0})
  BY DEF TableInv, TableMatchesActive
<1>3. ASSUME NEW m \in OutMsg, Sends(m), UNCHANGED built PROVE TableInv'
  BY <1>1, <1>2, <1>3, TableSends DEF Sends
<1>4. CASE \E m \in Messages : OnReadRefused(m)  BY <1>3, <1>4, MsgTypes DEF OnReadRefused
<1>5. CASE RequestRefused  BY <1>3, <1>5, MsgTypes DEF RequestRefused
<1>6. CASE RequestOverLimit
  <2>1. CASE Overflows(s)
    <3>1. s' = [s EXCEPT !.open = FALSE] /\ UNCHANGED <<table, built>>
      BY <1>6, <2>1 DEF RequestOverLimit
    <3>2. ~s'.open /\ s'.active = s.active  BY <1>1, <3>1 DEF Sessions
    <3>3. Distinct(s, built)'  BY <1>1, <1>2, <3>1, <3>2 DEF Distinct, Installed
    <3> QED  BY <1>1, <1>2, <3>1, <3>2, <3>3 DEF TableInv, TableMatchesActive
  <2>2. CASE ~Overflows(s)
    <3>1. Sends(Error) /\ UNCHANGED built  BY <1>6, <2>2 DEF RequestOverLimit
    <3> QED  BY <1>3, <3>1, MsgTypes
  <2> QED  BY <2>1, <2>2
<1>7. CASE RunStrand /\ Head(strandq) # CloseCall
  <2>1. Sends(Head(strandq)) /\ UNCHANGED built  BY <1>7 DEF RunStrand
  <2>2. strandq \in Seq(StrandMsg) /\ strandq # <<>>  BY <1>1, <1>7 DEF RunStrand, Types
  <2>3. Head(strandq) \in StrandMsg  BY <2>2, HeadAndTail
  <2>4. Head(strandq) \in OutMsg  BY <1>7, <2>3 DEF StrandMsg
  <2> QED  BY <1>3, <2>1, <2>4
<1>8. CASE Install
  <2> DEFINE key == Head(todo).key
             old == IF key \in DOMAIN s.active THEN {s.active[key]} ELSE {}
             x == [s EXCEPT !.active = [k \in DOMAIN @ \cup {key} |-> IF k = key THEN built ELSE @[k]]]
  <2>1. /\ SendsFrom(x, table \ old, Msg("subscribed", key, built)) /\ built # 0
        /\ built' = 0
    BY <1>8 DEF Install
  <2>2. pc = "subscribe" /\ todo # <<>> /\ todo \in Seq(Requests) /\ built \in Nat
    BY <1>1, <2>1 DEF QueueInv, Building, Types
  <2>3. x \in Sessions  BY <1>1, <2>2, ActiveTypes
  <2>4. /\ x.open = s.open /\ x.outbox = s.outbox /\ x.writes = s.writes /\ x.writing = s.writing
        /\ x.conn = s.conn
        /\ x.active = [k \in DOMAIN s.active \cup {key} |-> IF k = key THEN built ELSE s.active[k]]
    BY <1>1 DEF Sessions
  <2>5. key \in Keys /\ Msg("subscribed", key, built) \in OutMsg
    <3>2. Head(todo) \in Requests  BY <2>2, HeadAndTail
    <3>3. key \in Keys  BY <3>2 DEF Requests
    <3> QED  BY <2>2, <3>3, MsgTypes
  <2>6. old = IF key \in DOMAIN s.active THEN {s.active[key]} ELSE {}  OBVIOUS
  <2> HIDE DEF x, old, key
  <2>7. Distinct(x, 0) /\ Installed(x) = (Installed(s) \cup {built}) \ old
    <3> DEFINE b == built
    <3>1. /\ Types /\ s \in Sessions /\ key \in Keys /\ b \in Nat /\ Distinct(s, b) /\ b # 0
          /\ old = IF key \in DOMAIN s.active THEN {s.active[key]} ELSE {}
          /\ x.active = [k \in DOMAIN s.active \cup {key} |-> IF k = key THEN b ELSE s.active[k]]
      BY <1>1, <1>2, <2>1, <2>2, <2>4, <2>5, <2>6
    <3> HIDE DEF b
    <3>2. Distinct(x, 0) /\ Installed(x) = (Installed(s) \cup {b}) \ old
      BY <3>1, InstallMap
    <3> QED  BY <3>2 DEF b
  <2>8. /\ table \ old \subseteq DOMAIN chains /\ Distinct(x, built')
        /\ x.open => table \ old = Installed(x) \cup ({built'} \ {0})
    BY <1>2, <2>1, <2>4, <2>7
  <2> QED  BY <1>1, <2>1, <2>3, <2>4, <2>5, <2>8, TableSends
<1>9. CASE Cancel
  <2> DEFINE key == Head(todo)
             root == IF key \in DOMAIN s.active THEN {s.active[key]} ELSE {}
             x == [s EXCEPT !.active = [k \in DOMAIN @ \ {key} |-> @[k]]]
  <2>1. /\ SendsFrom(x, table \ root, Msg("canceled", key, 0)) /\ pc = "cancel" /\ todo # <<>>
        /\ built' = built
    BY <1>9 DEF Cancel
  <2>2. todo \in Seq(Keys) /\ built = 0  BY <1>1, <2>1 DEF QueueInv, Building, Types
  <2>3. x \in Sessions  BY <1>1, <2>1, ActiveTypes
  <2>4. /\ x.open = s.open /\ x.outbox = s.outbox /\ x.writes = s.writes /\ x.writing = s.writing
        /\ x.conn = s.conn
        /\ x.active = [k \in DOMAIN s.active \ {key} |-> s.active[k]]
    BY <1>1 DEF Sessions
  <2>5. key \in Keys /\ Msg("canceled", key, 0) \in OutMsg
    <3>2. key \in Keys  BY <2>1, <2>2, HeadAndTail
    <3> QED  BY <3>2, MsgTypes
  <2>6. root = IF key \in DOMAIN s.active THEN {s.active[key]} ELSE {}  OBVIOUS
  <2> HIDE DEF x, root, key
  <2>7. Distinct(x, built) /\ Installed(x) = Installed(s) \ root
    BY <1>1, <1>2, <2>4, <2>6, CancelMap
  <2>8. /\ table \ root \subseteq DOMAIN chains /\ Distinct(x, built')
        /\ x.open => table \ root = Installed(x) \cup ({built'} \ {0})
    BY <1>2, <2>1, <2>2, <2>4, <2>7
  <2> QED  BY <1>1, <2>1, <2>3, <2>4, <2>5, <2>8, TableSends
<1> QED  BY <1>4, <1>5, <1>6, <1>7, <1>8, <1>9

\* The table and the subscriptions agree in every reachable state.
THEOREM TableInvTheorem == Spec => []TableInv
<1>1. Init => TableInv
  BY DEF Init, TableInv, Distinct, TableMatchesActive, Installed
<1>2. QueueInv /\ TableInv /\ [Next]_vars => TableInv'
  <2> SUFFICES ASSUME QueueInv, TableInv, [Next]_vars PROVE TableInv'  OBVIOUS
  <2>1. CASE \/ CloseAll \/ HandlerDone \/ UNCHANGED vars \/ WriteDone
             \/ Accept \/ AcceptFails \/ CloseDone
             \/ \E m \in Messages : OnRead(m)
             \/ \E n \in DOMAIN chains : Carry(n) \/ Respond(n)
             \/ \E m \in pending : PostUpdate(m)
    BY <2>1, TableQuiet
  <2>2. CASE Build  BY <2>2, TableBuild
  <2>3. CASE ReadFails \/ WriteFails \/ (RunStrand /\ Head(strandq) = CloseCall)  BY <2>3, TableCloses
  <2>4. CASE \/ \E m \in Messages : OnReadRefused(m)
             \/ RequestRefused \/ RequestOverLimit \/ Install \/ Cancel
             \/ (RunStrand /\ Head(strandq) # CloseCall)
    BY <2>4, TableHandlers
  <2> QED  BY <2>1, <2>2, <2>3, <2>4 DEF Next, HandlerStep
<1> QED  BY <1>1, <1>2, QueueTheorem, PTL DEF Spec

\* Replacing, cancelling and closing leave no listener behind at the
\* Dispatcher: while a session is open the heads registered for it are exactly
\* those of its subscriptions and of the one being built.
THEOREM TableTheorem == Spec => []TableMatchesActive
<1>1. TableInv => TableMatchesActive  BY DEF TableInv
<1> QED  BY <1>1, TableInvTheorem, PTL

\* Chains are only ever added, and a timer is started with its chain.
LEMMA TimersStep ==
    ASSUME QueueInv, timers \subseteq DOMAIN chains, [Next]_vars
    PROVE  timers' \subseteq DOMAIN chains'
<1>1. CASE UNCHANGED <<chains, timers>>  BY <1>1
<1>2. CASE Build
  <2> DEFINE R == [key : Keys, timed : BOOLEAN]
             c == [key |-> Head(todo).key, timed |-> Head(todo).kind = "timed"]
  <2>1. chains \in Seq(R) /\ chains' = Append(chains, c) /\ timers' \subseteq timers \cup {Len(chains) + 1}
    BY <1>2 DEF QueueInv, Types, Build
  <2> HIDE DEF c, R
  <2>2. DOMAIN chains = 1 .. Len(chains) /\ DOMAIN chains' = 1 .. Len(chains) + 1 /\ Len(chains) \in Nat
    BY <2>1
  <2> QED  BY <2>1, <2>2
<1> QED  BY <1>1, <1>2 DEF Next, HandlerStep, vars, CloseAll, HandlerDone, WriteDone, Accept, AcceptFails,
            CloseDone, ReadFails, WriteFails, RunStrand, OnRead, OnReadRefused, Carry, Respond,
            PostUpdate, RequestRefused, RequestOverLimit, Install, Cancel

\* Type correctness; with it the bound on a slow client's memory, an outbox of
\* at most MAX_OUTBOX_SIZE messages.
THEOREM TypeTheorem == Spec => []TypeOK
<1>1. Init => timers \subseteq DOMAIN chains  BY DEF Init
<1>2. QueueInv /\ timers \subseteq DOMAIN chains /\ [Next]_vars => (timers \subseteq DOMAIN chains)'
  BY TimersStep
<1>3. QueueInv /\ TableInv /\ timers \subseteq DOMAIN chains => TypeOK
  <2> SUFFICES ASSUME QueueInv, TableInv, timers \subseteq DOMAIN chains PROVE TypeOK  OBVIOUS
  <2>1. Types /\ s \in Sessions /\ s.active \in Actives  BY DEF QueueInv, Types, Sessions
  <2>2. DOMAIN s.active \subseteq Keys  BY <2>1 DEF Actives
  <2>3. strandq \in Seq(OutMsg \cup {CloseCall})  BY <2>1 DEF Types, StrandMsg
  <2> QED  BY <2>1, <2>2, <2>3 DEF TypeOK, Types, Sessions, TableInv
<1> QED  BY <1>1, <1>2, <1>3, QueueTheorem, TableInvTheorem, PTL DEF Spec

-----------------------------------------------------------------------------
(* Acknowledgements                                                        *)

Acked(acc, n) == \E j \in DOMAIN acc : acc[j].type = "subscribed" /\ acc[j].chain = n

\* An update that names a chain, or the closure of closeAll().
Posted(m) == m = CloseCall \/ (m.type = "update" /\ m.chain \in DOMAIN chains)

AckInv ==
    /\ s.open => \A n \in DOMAIN chains : n = built \/ Acked(accepted, n)
    /\ \A m \in pending : m.type = "update" /\ m.chain \in DOMAIN chains
    /\ \A i \in 1 .. Len(strandq) : Posted(strandq[i])
    /\ AckBeforeUpdate

\* A message that is queued leaves the earlier ones where they are.
LEMMA AckPush ==
    ASSUME accepted \in Seq(OutMsg), AckBeforeUpdate, NEW m \in OutMsg,
           accepted' = Append(accepted, m),
           m.type = "update" => Acked(accepted, m.chain)
    PROVE  /\ AckBeforeUpdate'
           /\ \A n : Acked(accepted, n) => Acked(accepted', n)
           /\ m.type = "subscribed" => Acked(accepted', m.chain)
<1> DEFINE L == Len(accepted)
<1>1. /\ L \in Nat /\ DOMAIN accepted = 1 .. L /\ DOMAIN accepted' = 1 .. L + 1
      /\ \A i \in 1 .. L : accepted'[i] = accepted[i]
      /\ accepted'[L + 1] = m
  OBVIOUS
<1> HIDE DEF L
<1>2. \A n : Acked(accepted, n) => Acked(accepted', n)
  BY <1>1 DEF Acked
<1>3. m.type = "subscribed" => Acked(accepted', m.chain)
  BY <1>1 DEF Acked
<1>4. AckBeforeUpdate'
  <2> SUFFICES ASSUME NEW i \in 1 .. L + 1, accepted'[i].type = "update"
               PROVE  \E j \in 1 .. i - 1 : /\ accepted'[j].type = "subscribed"
                                            /\ accepted'[j].chain = accepted'[i].chain
    BY <1>1 DEF AckBeforeUpdate
  <2>1. CASE i = L + 1
    <3>1. Acked(accepted, accepted'[i].chain)  BY <1>1, <2>1
    <3>2. PICK j \in 1 .. L : accepted[j].type = "subscribed" /\ accepted[j].chain = accepted'[i].chain
      BY <1>1, <3>1 DEF Acked
    <3>3. j \in 1 .. i - 1 /\ accepted'[j] = accepted[j]  BY <1>1, <2>1, <3>2
    <3> QED  BY <3>2, <3>3
  <2>2. CASE i \in 1 .. L
    <3>1. accepted'[i] = accepted[i]  BY <1>1, <2>2
    <3>2. PICK j \in 1 .. i - 1 : accepted[j].type = "subscribed" /\ accepted[j].chain = accepted[i].chain
      BY <1>1, <2>2, <3>1 DEF AckBeforeUpdate
    <3>3. accepted'[j] = accepted[j]  BY <1>1, <2>2, <3>2
    <3> QED  BY <3>1, <3>2, <3>3
  <2> QED  BY <1>1, <2>1, <2>2
<1> QED  BY <1>2, <1>3, <1>4

\* What is queued by sendText() needs no acknowledgement, gives one, or has one.
LEMMA AckSends ==
    ASSUME QueueInv, AckInv, NEW x \in Sessions, NEW base, NEW m \in OutMsg, SendsFrom(x, base, m),
           x.open = s.open, x.outbox = s.outbox, x.writes = s.writes, x.writing = s.writing,
           x.conn = s.conn, UNCHANGED <<sent, chains, pending>>,
           s.open /\ m.type = "update" => Acked(accepted, m.chain),
           \/ UNCHANGED built
           \/ m.type = "subscribed" /\ m.chain = built,
           \A i \in 1 .. Len(strandq') : Posted(strandq'[i])
    PROVE  AckInv'
<1>1. /\ accepted \in Seq(OutMsg)
      /\ Accepts(x) => s.open /\ accepted' = Append(accepted, m)
      /\ ~Accepts(x) => ~s'.open /\ accepted' = accepted
  <2>1. accepted \in Seq(OutMsg)  BY DEF QueueInv, Types
  <2> QED  BY <2>1, SendsQueue
<1>2. (\A i \in 1 .. Len(strandq) : Posted(strandq[i]))'  BY DEF Posted
<1>3. (\A p \in pending : p.type = "update" /\ p.chain \in DOMAIN chains)'  BY DEF AckInv
<1>4. CASE ~Accepts(x)
  <2>1. AckBeforeUpdate'  BY <1>1, <1>4 DEF AckInv, AckBeforeUpdate
  <2> QED  BY <1>1, <1>2, <1>3, <1>4, <2>1 DEF AckInv
<1>5. CASE Accepts(x)
  <2>1. /\ AckBeforeUpdate'
        /\ \A n : Acked(accepted, n) => Acked(accepted', n)
        /\ m.type = "subscribed" => Acked(accepted', m.chain)
    BY <1>1, <1>5, AckPush DEF AckInv
  <2>2. \A n \in DOMAIN chains' : n = built' \/ Acked(accepted', n)
    BY <1>1, <1>5, <2>1 DEF AckInv
  <2> QED  BY <1>2, <1>3, <2>1, <2>2 DEF AckInv
<1> QED  BY <1>4, <1>5

\* The strand's queue grows at the end ...
LEMMA PostedPush ==
    ASSUME strandq \in Seq(StrandMsg), AckInv, NEW m \in StrandMsg, strandq' = Append(strandq, m), Posted(m)
    PROVE  \A i \in 1 .. Len(strandq') : Posted(strandq'[i])
<1> DEFINE L == Len(strandq)
<1>1. /\ L \in Nat /\ Len(strandq') = L + 1
      /\ \A i \in 1 .. L : strandq'[i] = strandq[i]
      /\ strandq'[L + 1] = m
  OBVIOUS
<1>2. \A i \in 1 .. L : Posted(strandq[i])  BY DEF AckInv
<1> HIDE DEF L
<1> QED  BY <1>1, <1>2

\* ... and is taken from the front.
LEMMA PostedPop ==
    ASSUME strandq \in Seq(StrandMsg), AckInv, strandq # <<>>, strandq' = Tail(strandq)
    PROVE  Posted(Head(strandq)) /\ \A i \in 1 .. Len(strandq') : Posted(strandq'[i])
<1> DEFINE L == Len(strandq)
<1>1. /\ L \in Nat \ {0} /\ Len(strandq') = L - 1 /\ Head(strandq) = strandq[1]
      /\ \A i \in 1 .. L - 1 : strandq'[i] = strandq[i + 1]
  OBVIOUS
<1>2. \A i \in 1 .. L : Posted(strandq[i])  BY DEF AckInv
<1> HIDE DEF L
<1>3. \A i \in 1 .. L - 1 : i + 1 \in 1 .. L  BY <1>1
<1>4. 1 \in 1 .. L  BY <1>1
<1> QED  BY <1>1, <1>2, <1>3, <1>4

\* Handlers that send: when the strand queues an update no chain is being built,
\* so the update's chain has been acknowledged.
LEMMA AckHandlers ==
    ASSUME QueueInv, AckInv,
           \/ \E m \in Messages : OnReadRefused(m)
           \/ RequestRefused \/ RequestOverLimit \/ Install \/ Cancel
           \/ (RunStrand /\ Head(strandq) # CloseCall)
    PROVE  AckInv'
<1>1. /\ Types /\ s \in Sessions /\ UNCHANGED <<sent, chains, pending>>
      /\ strandq' = strandq \/ RunStrand
  BY DEF QueueInv, Types, OnReadRefused, RequestRefused, RequestOverLimit, Install, Cancel, RunStrand,
         poolVars
<1>2. ~RunStrand => \A i \in 1 .. Len(strandq') : Posted(strandq'[i])
  BY <1>1 DEF AckInv
<1>3. ASSUME Sends(Error), UNCHANGED built, strandq' = strandq PROVE AckInv'
  <2>1. Error \in OutMsg /\ Error.type = "error"  BY MsgTypes DEF Error, Msg
  <2>2. \A i \in 1 .. Len(strandq') : Posted(strandq'[i])  BY <1>3 DEF AckInv
  <2> QED  BY <1>1, <1>3, <2>1, <2>2, AckSends DEF Sends
<1>4. CASE \E m \in Messages : OnReadRefused(m)  BY <1>3, <1>4 DEF OnReadRefused
<1>5. CASE RequestRefused  BY <1>3, <1>5 DEF RequestRefused
<1>6. CASE RequestOverLimit
  <2>1. CASE Overflows(s)
    <3>1. s' = [s EXCEPT !.open = FALSE] /\ UNCHANGED <<accepted, strandq>>
      BY <1>6, <2>1 DEF RequestOverLimit
    <3>2. ~s'.open  BY <1>1, <3>1 DEF Sessions
    <3> QED  BY <1>1, <3>1, <3>2 DEF AckInv, AckBeforeUpdate, Posted
  <2>2. CASE ~Overflows(s)  BY <1>3, <1>6, <2>2 DEF RequestOverLimit
  <2> QED  BY <2>1, <2>2
<1>7. CASE RunStrand /\ Head(strandq) # CloseCall
  <2> DEFINE m == Head(strandq)
  <2>1. Sends(m) /\ UNCHANGED built /\ pc = "idle" /\ strandq' = Tail(strandq)  BY <1>7 DEF RunStrand
  <2>2. strandq \in Seq(StrandMsg) /\ strandq # <<>>  BY <1>1, <1>7 DEF RunStrand, Types
  <2>3. m \in StrandMsg  BY <2>2, HeadAndTail
  <2>4. m \in OutMsg  BY <1>7, <2>3 DEF StrandMsg
  <2>5. Posted(m) /\ \A i \in 1 .. Len(strandq') : Posted(strandq'[i])  BY <2>1, <2>2, PostedPop
  <2>6. built = 0 /\ m.chain \in DOMAIN chains /\ m.chain # 0
    BY <1>1, <1>7, <2>1, <2>5, ZeroNoChain DEF QueueInv, Building, Posted
  <2>7. s.open => Acked(accepted, m.chain)  BY <2>6 DEF AckInv
  <2> HIDE DEF m
  <2> QED  BY <1>1, <2>1, <2>4, <2>5, <2>7, AckSends DEF Sends
<1>8. CASE Install
  <2> DEFINE key == Head(todo).key
             old == IF key \in DOMAIN s.active THEN {s.active[key]} ELSE {}
             x == [s EXCEPT !.active = [k \in DOMAIN @ \cup {key} |-> IF k = key THEN built ELSE @[k]]]
             m == Msg("subscribed", key, built)
             base == table \ old
  <2>1. SendsFrom(x, base, m) /\ built # 0 /\ strandq' = strandq
    BY <1>8 DEF Install
  <2>2. pc = "subscribe" /\ todo # <<>> /\ todo \in Seq(Requests) /\ built \in Nat
    BY <1>1, <2>1 DEF QueueInv, Building, Types
  <2>3. x \in Sessions  BY <1>1, <2>2, ActiveTypes
  <2>4. /\ x.open = s.open /\ x.outbox = s.outbox /\ x.writes = s.writes /\ x.writing = s.writing
        /\ x.conn = s.conn
    BY <1>1 DEF Sessions
  <2>5. m \in OutMsg /\ m.type = "subscribed" /\ m.chain = built
    <3>2. Head(todo) \in Requests  BY <2>2, HeadAndTail
    <3>3. key \in Keys  BY <3>2 DEF Requests
    <3>4. m \in OutMsg  BY <2>2, <3>3, MsgTypes
    <3> QED  BY <3>4 DEF Msg
  <2>6. \A i \in 1 .. Len(strandq') : Posted(strandq'[i])  BY <2>1 DEF AckInv
  <2> HIDE DEF x, base, m
  <2> QED  BY <1>1, <2>1, <2>3, <2>4, <2>5, <2>6, AckSends
<1>9. CASE Cancel
  <2> DEFINE key == Head(todo)
             root == IF key \in DOMAIN s.active THEN {s.active[key]} ELSE {}
             x == [s EXCEPT !.active = [k \in DOMAIN @ \ {key} |-> @[k]]]
             m == Msg("canceled", key, 0)
             base == table \ root
  <2>1. /\ SendsFrom(x, base, m) /\ pc = "cancel" /\ todo # <<>>
        /\ built' = built /\ strandq' = strandq
    BY <1>9 DEF Cancel
  <2>2. todo \in Seq(Keys)  BY <1>1, <2>1 DEF QueueInv, Types
  <2>3. x \in Sessions  BY <1>1, <2>1, ActiveTypes
  <2>4. /\ x.open = s.open /\ x.outbox = s.outbox /\ x.writes = s.writes /\ x.writing = s.writing
        /\ x.conn = s.conn
    BY <1>1 DEF Sessions
  <2>5. m \in OutMsg /\ m.type = "canceled"
    <3>2. key \in Keys  BY <2>1, <2>2, HeadAndTail
    <3>3. m \in OutMsg  BY <3>2, MsgTypes
    <3> QED  BY <3>3 DEF Msg
  <2>6. \A i \in 1 .. Len(strandq') : Posted(strandq'[i])  BY <2>1 DEF AckInv
  <2> HIDE DEF x, base, m
  <2> QED  BY <1>1, <2>1, <2>3, <2>4, <2>5, <2>6, AckSends
<1> QED  BY <1>4, <1>5, <1>6, <1>7, <1>8, <1>9

\* Steps that queue nothing for the client.
LEMMA AckQuiet ==
    ASSUME QueueInv, AckInv,
           \/ CloseAll \/ HandlerDone \/ UNCHANGED vars \/ WriteDone \/ Build
           \/ Accept \/ AcceptFails \/ CloseDone
           \/ ReadFails \/ WriteFails \/ (RunStrand /\ Head(strandq) = CloseCall)
           \/ \E m \in Messages : OnRead(m)
           \/ \E n \in DOMAIN chains : Carry(n) \/ Respond(n)
           \/ \E m \in pending : PostUpdate(m)
    PROVE  AckInv'
<1>1. Types /\ s \in Sessions /\ strandq \in Seq(StrandMsg) /\ UNCHANGED accepted
  <2>1. Types /\ s \in Sessions /\ strandq \in Seq(StrandMsg)  BY DEF QueueInv, Types
  <2>2. UNCHANGED accepted
    BY DEF CloseAll, HandlerDone, vars, WriteDone, Build, Accept, AcceptFails, CloseDone, ReadFails,
           WriteFails, RunStrand, OnRead, Carry, Respond, PostUpdate
  <2> QED  BY <2>1, <2>2
<1>2. AckBeforeUpdate'  BY <1>1 DEF AckInv, AckBeforeUpdate
<1>3. \/ s'.open => s.open
      \/ chains' = <<>>
  <2>1. CASE WriteDone  BY <2>1, QueueWrites
  <2>2. CASE Accept  BY <2>2 DEF Accept, QueueInv, Unopened
  <2>3. CASE AcceptFails \/ CloseDone  BY <1>1, <2>3 DEF AcceptFails, CloseDone, Sessions
  <2>4. CASE ReadFails \/ WriteFails \/ (RunStrand /\ Head(strandq) = CloseCall)  BY <2>4, QueueCloses
  <2>5. CASE UNCHANGED s  BY <2>5
  <2> QED  BY <2>1, <2>2, <2>3, <2>4, <2>5 DEF CloseAll, HandlerDone, vars, Build, OnRead, Carry,
              Respond, PostUpdate
<1>4. /\ \A n \in DOMAIN chains' : n \in DOMAIN chains \/ n = built'
      /\ DOMAIN chains \subseteq DOMAIN chains'
      /\ built' = built \/ built = 0
  <2>1. CASE UNCHANGED <<chains, built>>  BY <2>1
  <2>2. CASE Build
    <3> DEFINE R == [key : Keys, timed : BOOLEAN]
               c == [key |-> Head(todo).key, timed |-> Head(todo).kind = "timed"]
    <3>1. chains \in Seq(R) /\ chains' = Append(chains, c) /\ built' = Len(chains) + 1 /\ built = 0
      BY <1>1, <2>2 DEF Types, Build
    <3> HIDE DEF c, R
    <3>2. DOMAIN chains = 1 .. Len(chains) /\ DOMAIN chains' = 1 .. Len(chains) + 1 /\ Len(chains) \in Nat
      BY <3>1
    <3> QED  BY <3>1, <3>2
  <2> QED  BY <2>1, <2>2 DEF CloseAll, HandlerDone, vars, WriteDone, Accept, AcceptFails, CloseDone,
              ReadFails, WriteFails, RunStrand, OnRead, Carry, Respond, PostUpdate
<1>5. s'.open => \A n \in DOMAIN chains' : n = built' \/ Acked(accepted', n)
  <2>1. CASE chains' = <<>>  BY <2>1
  <2>2. CASE s'.open => s.open
    <3> SUFFICES ASSUME s'.open, NEW n \in DOMAIN chains', n # built' PROVE Acked(accepted', n)
      OBVIOUS
    <3>1. n \in DOMAIN chains /\ n # built  BY <1>1, <1>4, ZeroNoChain
    <3> QED  BY <1>1, <2>2, <3>1 DEF AckInv
  <2> QED  BY <1>3, <2>1, <2>2
<1>6. \A m \in pending' : m.type = "update" /\ m.chain \in DOMAIN chains'
  <2>1. CASE pending' \subseteq pending  BY <1>4, <2>1 DEF AckInv
  <2>2. ASSUME NEW n \in DOMAIN chains, Respond(n)
        PROVE  \A m \in pending' : m.type = "update" /\ m.chain \in DOMAIN chains'
    <3> DEFINE u == Msg("update", chains[n].key, n)
    <3>1. pending' \subseteq pending \cup {u}  BY <2>2 DEF Respond
    <3>2. u.type = "update" /\ u.chain = n  BY DEF Msg
    <3> HIDE DEF u
    <3> QED  BY <1>4, <2>2, <3>1, <3>2 DEF AckInv
  <2> QED  BY <2>1, <2>2 DEF CloseAll, HandlerDone, vars, WriteDone, Build, Accept, AcceptFails,
              CloseDone, ReadFails, WriteFails, RunStrand, OnRead, Carry, PostUpdate, poolVars
<1>7. \A i \in 1 .. Len(strandq') : Posted(strandq'[i])
  <2>1. CASE strandq' = strandq  BY <2>1 DEF AckInv
  <2>2. CASE CloseAll
    <3>1. CloseCall \in StrandMsg /\ Posted(CloseCall)  BY DEF StrandMsg, Posted
    <3> QED  BY <1>1, <2>2, <3>1, PostedPush DEF CloseAll
  <2>3. CASE \E m \in pending : PostUpdate(m)
    <3>1. PICK m \in pending : PostUpdate(m)  BY <2>3
    <3>2. m \in StrandMsg /\ Posted(m)  BY <1>1 DEF StrandMsg, Posted, AckInv, Types
    <3> QED  BY <1>1, <3>1, <3>2, PostedPush DEF PostUpdate
  <2>4. CASE RunStrand  BY <1>1, <2>4, PostedPop DEF RunStrand
  <2> QED  BY <2>1, <2>2, <2>3, <2>4 DEF HandlerDone, vars, WriteDone, Build, Accept, AcceptFails,
              CloseDone, ReadFails, WriteFails, OnRead, Carry, Respond
<1>8. (\A i \in 1 .. Len(strandq) : Posted(strandq[i]))'  BY <1>4, <1>7 DEF Posted
<1> QED  BY <1>2, <1>5, <1>6, <1>8 DEF AckInv

\* A client never sees an update of a chain before that chain's "subscribed",
\* although pool threads bring values from the moment the chain is built: an
\* update is queued by the strand, which the subscribe handler holds until its
\* acknowledgement is queued.
THEOREM AckTheorem == Spec => []AckBeforeUpdate
<1>1. Init => AckInv
  BY DEF Init, AckInv, AckBeforeUpdate
<1>2. QueueInv /\ AckInv /\ [Next]_vars => AckInv'
  <2> SUFFICES ASSUME QueueInv, AckInv, [Next]_vars PROVE AckInv'  OBVIOUS
  <2>1. CASE \/ CloseAll \/ HandlerDone \/ UNCHANGED vars \/ WriteDone \/ Build
             \/ Accept \/ AcceptFails \/ CloseDone
             \/ ReadFails \/ WriteFails \/ (RunStrand /\ Head(strandq) = CloseCall)
             \/ \E m \in Messages : OnRead(m)
             \/ \E n \in DOMAIN chains : Carry(n) \/ Respond(n)
             \/ \E m \in pending : PostUpdate(m)
    BY <2>1, AckQuiet
  <2>2. CASE \/ \E m \in Messages : OnReadRefused(m)
             \/ RequestRefused \/ RequestOverLimit \/ Install \/ Cancel
             \/ (RunStrand /\ Head(strandq) # CloseCall)
    BY <2>2, AckHandlers
  <2> QED  BY <2>1, <2>2 DEF Next, HandlerStep
<1>3. AckInv => AckBeforeUpdate  BY DEF AckInv
<1> QED  BY <1>1, <1>2, <1>3, QueueTheorem, PTL DEF Spec
=============================================================================
