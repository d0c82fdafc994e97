-------------------------- MODULE MessagingProofs ---------------------------
(***************************************************************************)
(* Sending, from the composer to the frames: theorems about SecureFrames for*)
(* any two peers, any set of texts and attachments, any chunk counts and any*)
(* interleaving, and about Composer for any contacts, pieces, recordings and*)
(* ChatViews.  The two have no state in common.                            *)
(***************************************************************************)
EXTENDS SecureFrames, Composer, SequenceTheorems, FiniteSetTheorems, TLAPS

(* The two peers face each other.                                           *)
LEMMA OtherPeer ==
    ASSUME NEW p \in Peer
    PROVE  Other(p) \in Peer /\ Other(p) # p /\ Other(Other(p)) = p
  <1>1. PICK a \in Peer, b \in Peer : a # b /\ Peer = {a, b}
    BY PeerAssumption
  <1>2. \E q \in Peer : q # p
    BY <1>1
  <1>3. Other(p) \in Peer /\ Other(p) # p
    BY <1>2 DEF Other
  <1>4. Other(Other(p)) \in Peer /\ Other(Other(p)) # Other(p)
    BY <1>3 DEF Other
  <1> QED BY <1>1, <1>3, <1>4

(* Typing facts about what the actions put on the wire.                     *)
LEMMA FrameTypes ==
    ASSUME TypeOK
    PROVE  /\ \A m \in Msg : SealedFrame(m) \in Frame
           /\ \A m \in Msg : Plain("ack", m, 0) \in Frame
           /\ \A f \in File : Plain("fe", f, 0) \in Frame
           /\ \A f \in File, k \in Nat : Plain("bin", f, k) \in Frame
           /\ \A f \in File : Author[f] \in Peer
           /\ \A m \in Text : Author[m] \in Peer
  BY MsgAssumption DEF TypeOK, SealedFrame, Plain, Frame, Sealed, Msg

(* Whatever is sent, the queues stay sequences of frames.                   *)
LEMMA SendTypes ==
    ASSUME TypeOK, NEW p \in Peer, NEW s \in Seq(Frame), Send(p, s)
    PROVE  net' \in [Peer -> Seq(Frame)]
  <1>1. Other(p) \in Peer
    BY OtherPeer
  <1>2. net[Other(p)] \o s \in Seq(Frame)
    BY <1>1, ConcatProperties DEF TypeOK
  <1> QED BY <1>1, <1>2 DEF Send, TypeOK

(* sendSeq++ yields a natural number.                                       *)
LEMMA TakeSeqTypes ==
    ASSUME TypeOK, NEW p \in Peer, NEW m \in Msg, TakeSeq(p, m)
    PROVE  seqOf' \in [Msg -> Nat] /\ sendSeq' \in [Peer -> Nat]
  BY DEF TypeOK, TakeSeq

(* Taking an event off the channel leaves well-formed channels.             *)
LEMMA ArrivesTypes ==
    ASSUME TypeOK, NEW p \in Peer, Delivered(p)
    PROVE  /\ net' \in [Peer -> Seq(Frame)]
           /\ Head(net[p]) \in Frame
  <1>1. net[p] \in Seq(Frame) /\ net[p] # << >>
    BY DEF TypeOK, Delivered
  <1>2. Tail(net[p]) \in Seq(Frame) /\ Head(net[p]) \in Frame
    BY <1>1, HeadTailProperties
  <1> QED BY <1>2 DEF Delivered, TypeOK

(* What the steps of the handshake and of closing leave alone, and what     *)
(* they do to the channel: it is emptied with its closing.                  *)
LEMMA ConnectionStep ==
    ASSUME TypeOK, NEW p \in Peer, Connection(p)
    PROVE  /\ UNCHANGED <<sendVars, recvVars, ticked>>
           /\ \/ UNCHANGED <<dc, net>>
              \/ /\ \E s \in {"closed", "gone"} : dc' = [dc EXCEPT ![p] = s]
                 /\ net' = [net EXCEPT ![p] = << >>]
  BY DEF Connection, Cancel, ChannelClosed, HelloArrives, Established, HandshakeFails,
         HandshakeTimesOut, Teardown

(* Type correctness: every step of every handler keeps the state well       *)
(* formed.                                                                  *)
THEOREM TypeCorrect == Spec => []TypeOK
  <1>1. Init => TypeOK
    BY EmptySeq, MsgAssumption
    DEF Init, TypeOK, Settled, Stage, UiState, NoBuffer, Msg
  <1>2. TypeOK /\ [Next]_vars => TypeOK'
    <2> SUFFICES ASSUME TypeOK, [Next]_vars PROVE TypeOK'
      OBVIOUS
    <2> USE DEF TypeOK, sendVars, recvVars, linkVars
    <2>1. ASSUME NEW m \in Text, StartText(m) PROVE TypeOK'
      <3>1. m \in Msg /\ Author[m] \in Peer
        BY FrameTypes DEF Msg
      <3>2. seqOf' \in [Msg -> Nat] /\ sendSeq' \in [Peer -> Nat]
        BY <2>1, <3>1, TakeSeqTypes DEF StartText
      <3> QED BY <2>1, <3>1, <3>2 DEF StartText, Stage, Settled
    <2>2. ASSUME NEW f \in File, StartFile(f) PROVE TypeOK'
      BY <2>2 DEF StartFile, Stage, Settled, Msg
    <2>3. ASSUME NEW f \in File, FileEncrypted(f) PROVE TypeOK'
      <3>1. f \in Msg /\ Author[f] \in Peer
        BY FrameTypes DEF Msg
      <3>2. stage' \in [Msg -> Stage]
        BY <2>3, <3>1 DEF FileEncrypted, Stage, Settled
      <3>3. seqOf' \in [Msg -> Nat] /\ sendSeq' \in [Peer -> Nat]
        <4>1. CASE session[Author[f]]
          <5>1. TakeSeq(Author[f], f)
            BY <2>3, <4>1 DEF FileEncrypted
          <5> QED BY <3>1, <5>1, TakeSeqTypes
        <4>2. CASE ~session[Author[f]]
          BY <2>3, <4>2 DEF FileEncrypted
        <4> QED BY <4>1, <4>2
      <3>4. UNCHANGED <<linkVars, ui, chunksSent, early, net, recvVars, ticked>>
        BY <2>3 DEF FileEncrypted
      <3> QED BY <3>2, <3>3, <3>4
    <2>4. ASSUME NEW m \in Text, TextEncrypted(m) PROVE TypeOK'
      <3>1. net' \in [Peer -> Seq(Frame)]
        <4>1. CASE CanSend(Author[m])
          <5>1. <<SealedFrame(m), Plain("ack", m, 0)>> \in Seq(Frame)
            BY FrameTypes DEF Msg
          <5> QED BY <4>1, <5>1, <2>4, SendTypes, FrameTypes DEF TextEncrypted
        <4>2. CASE ~CanSend(Author[m])
          BY <4>2, <2>4 DEF TextEncrypted
        <4> QED BY <4>1, <4>2
      <3> QED BY <2>4, <3>1 DEF TextEncrypted, Stage, Settled, Msg
    <2>5. ASSUME NEW f \in File, MetaEncrypted(f) PROVE TypeOK'
      <3>1. net' \in [Peer -> Seq(Frame)]
        <4>1. CASE CanSend(Author[f])
          <5>1. <<SealedFrame(f)>> \in Seq(Frame)
            BY FrameTypes DEF Msg
          <5> QED BY <4>1, <5>1, <2>5, SendTypes, FrameTypes DEF MetaEncrypted
        <4>2. CASE ~CanSend(Author[f])
          BY <4>2, <2>5 DEF MetaEncrypted
        <4> QED BY <4>1, <4>2
      <3> QED BY <2>5, <3>1 DEF MetaEncrypted, Stage, Settled, Msg
    <2>6. ASSUME NEW f \in File, SendChunk(f) PROVE TypeOK'
      <3> DEFINE k == chunksSent[f] + 1
                 last == k = Chunks[f]
                 chunk == Plain("bin", f, k)
                 out == IF last THEN <<chunk, Plain("fe", f, 0), Plain("ack", f, 0)>>
                                ELSE <<chunk>>
      <3>1. k \in Nat /\ chunk \in Frame /\ f \in Msg
        BY FrameTypes DEF Msg
      <3>2. net' \in [Peer -> Seq(Frame)]
        <4>1. CASE CanSend(Author[f])
          <5>1. out \in Seq(Frame)
            BY <3>1, FrameTypes
          <5>2. Send(Author[f], out)
            BY <4>1, <2>6 DEF SendChunk
          <5> QED BY <5>1, <5>2, SendTypes, FrameTypes
        <4>2. CASE ~CanSend(Author[f])
          BY <4>2, <2>6 DEF SendChunk
        <4> QED BY <4>1, <4>2
      <3> QED BY <2>6, <3>1, <3>2 DEF SendChunk, Stage, Settled
    <2>7. ASSUME NEW p \in Peer, ReceiveSealed(p) PROVE TypeOK'
      <3>1. net' \in [Peer -> Seq(Frame)] /\ Head(net[p]) \in Frame
        BY <2>7, ArrivesTypes DEF ReceiveSealed, Arrives
      <3>2. Head(net[p]) \in SealedFrames
        BY <2>7, ArrivesTypes DEF ReceiveSealed, Arrives, SealedFrames
      <3>3. /\ opening' \in [Peer -> SUBSET SealedFrames]
            /\ rejected' \in [Peer -> SUBSET SealedFrames]
            /\ ui' \in [Peer -> UiState]
        <4>1. CASE Accepts(p, Head(net[p]))
          <5>1. opening' = [opening EXCEPT ![p] = @ \cup {Head(net[p])}]
                /\ UNCHANGED <<rejected, ui>>
            BY <2>7, <4>1 DEF ReceiveSealed
          <5> QED BY <5>1, <3>2
        <4>2. CASE ~Accepts(p, Head(net[p]))
          <5>1. /\ rejected' = [rejected EXCEPT ![p] = @ \cup {Head(net[p])}]
                /\ ui' = [ui EXCEPT ![p] = "secure"]
                /\ UNCHANGED opening
            BY <2>7, <4>2 DEF ReceiveSealed
          <5> QED BY <5>1, <3>2 DEF UiState
        <4> QED BY <4>1, <4>2
      <3>4. UNCHANGED <<linkVars, sendVars, recvSeq, incomingFile, joining, shown, ticked>>
        BY <2>7 DEF ReceiveSealed
      <3> QED BY <3>1, <3>3, <3>4
    <2>8. ASSUME NEW p \in Peer, ReceiveChunk(p) PROVE TypeOK'
      <3> DEFINE h == Head(net[p])
      <3>1. net' \in [Peer -> Seq(Frame)] /\ h \in Frame /\ h.t = "bin"
        BY <2>8, ArrivesTypes DEF ReceiveChunk, Arrives
      <3>2. <<h.m, h.k>> \in File \X Nat
        BY <3>1 DEF Frame
      <3>3. incomingFile' \in [Peer -> Buffer \cup {NoBuffer}]
        <4>1. CASE incomingFile[p].file = NoFile
          BY <2>8, <4>1 DEF ReceiveChunk
        <4>2. CASE incomingFile[p].file # NoFile
          <5>1. incomingFile[p] \in Buffer
            BY <4>2 DEF NoBuffer
          <5>2. Append(incomingFile[p].chunks, <<h.m, h.k>>) \in Seq(File \X Nat)
            BY <3>2, <5>1, AppendProperties DEF Buffer
          <5>3. [incomingFile[p] EXCEPT !.chunks = Append(@, <<h.m, h.k>>)] \in Buffer
            BY <5>1, <5>2 DEF Buffer
          <5>4. incomingFile' = [incomingFile EXCEPT ![p] =
                   [incomingFile[p] EXCEPT !.chunks = Append(@, <<h.m, h.k>>)]]
            BY <2>8, <4>2 DEF ReceiveChunk
          <5> QED BY <5>3, <5>4
        <4> QED BY <4>1, <4>2
      <3>4. UNCHANGED <<linkVars, ui, sendVars, recvSeq, opening, joining, shown,
                        rejected, ticked>>
        BY <2>8 DEF ReceiveChunk
      <3> QED BY <3>1, <3>3, <3>4
    <2>9. ASSUME NEW p \in Peer, ReceiveFileEnd(p) PROVE TypeOK'
      <3> DEFINE h == Head(net[p])
      <3>1. net' \in [Peer -> Seq(Frame)] /\ h \in Frame /\ h.t = "fe"
        BY <2>9, ArrivesTypes DEF ReceiveFileEnd, Arrives
      <3>2. incomingFile' \in [Peer -> Buffer \cup {NoBuffer}]
        BY <2>9 DEF ReceiveFileEnd
      <3>3. Complete(p, h) => incomingFile[p] \in Buffer
        BY <3>1, MsgAssumption DEF Complete, NoBuffer, Frame, Msg
      <3>4. joining' \in [Peer -> SUBSET Buffer]
        BY <2>9, <3>3 DEF ReceiveFileEnd
      <3>5. UNCHANGED <<linkVars, ui, sendVars, recvSeq, opening, shown, rejected, ticked>>
        BY <2>9 DEF ReceiveFileEnd
      <3> QED BY <3>1, <3>2, <3>4, <3>5
    <2>10. ASSUME NEW p \in Peer, ReceiveAck(p) PROVE TypeOK'
      <3>1. net' \in [Peer -> Seq(Frame)]
        BY <2>10, ArrivesTypes DEF ReceiveAck, Arrives
      <3>2. ticked' \subseteq Msg
        BY <2>10 DEF ReceiveAck, Own
      <3>3. UNCHANGED <<linkVars, ui, sendVars, recvVars>>
        BY <2>10 DEF ReceiveAck
      <3> QED BY <3>1, <3>2, <3>3
    <2>11. ASSUME NEW p \in Peer, NEW f \in opening[p], FrameOpened(p, f) PROVE TypeOK'
      <3>1. f \in Frame /\ f.seq \in Nat /\ f.m \in Msg
            /\ (f.t # "m" => f.m \in File)
        BY DEF SealedFrames, Sealed, Frame, Msg
      <3>2. opening' \in [Peer -> SUBSET SealedFrames] /\ recvSeq' \in [Peer -> Nat]
        BY <2>11, <3>1 DEF FrameOpened
      <3>3. shown' \in [Msg -> Nat]
        <4>1. CASE f.t = "m"
          <5>1. shown' = [shown EXCEPT ![f.m] = @ + 1]
            BY <2>11, <4>1 DEF FrameOpened
          <5> QED BY <5>1, <3>1
        <4>2. CASE f.t # "m"
          BY <2>11, <4>2 DEF FrameOpened
        <4> QED BY <4>1, <4>2
      <3>4. incomingFile' \in [Peer -> Buffer \cup {NoBuffer}]
        <4>1. CASE f.t = "m"
          BY <2>11, <4>1 DEF FrameOpened
        <4>2. CASE f.t # "m"
          <5>1. [file |-> f.m, chunks |-> << >>] \in Buffer
            BY <4>2, <3>1, EmptySeq DEF Buffer
          <5> QED BY <2>11, <4>2, <5>1 DEF FrameOpened
        <4> QED BY <4>1, <4>2
      <3>5. UNCHANGED <<linkVars, ui, sendVars, net, joining, rejected, ticked>>
        BY <2>11 DEF FrameOpened
      <3> QED BY <3>2, <3>3, <3>4, <3>5
    <2>12. ASSUME NEW p \in Peer, NEW b \in joining[p], FileJoined(p, b) PROVE TypeOK'
      <3>1. b.file \in Msg
        BY DEF Buffer, Msg
      <3>2. /\ shown' \in [Msg -> Nat]
            /\ ui' \in [Peer -> UiState]
        <4>1. CASE b.chunks = WholeFile(b.file) /\ session[p]
          <5>1. shown' = [shown EXCEPT ![b.file] = @ + 1] /\ UNCHANGED ui
            BY <2>12, <4>1 DEF FileJoined
          <5> QED BY <5>1, <3>1
        <4>2. CASE ~(b.chunks = WholeFile(b.file) /\ session[p])
          BY <2>12, <4>2 DEF FileJoined, UiState
        <4> QED BY <4>1, <4>2
      <3>3. joining' \in [Peer -> SUBSET Buffer]
        BY <2>12 DEF FileJoined
      <3>4. UNCHANGED <<linkVars, sendVars, net, recvSeq, opening, incomingFile,
                        rejected, ticked>>
        BY <2>12 DEF FileJoined
      <3> QED BY <3>2, <3>3, <3>4
    <2>13. ASSUME NEW p \in Peer, DropEarly(p) PROVE TypeOK'
      BY <2>13, ArrivesTypes DEF DropEarly
    <2>14. ASSUME NEW p \in Peer, Connection(p) PROVE TypeOK'
      <3>1. dc' \in [Peer -> {"open", "closed", "gone"}] /\ net' \in [Peer -> Seq(Frame)]
        <4>1. << >> \in Seq(Frame)
          BY EmptySeq
        <4>2. CASE UNCHANGED <<dc, net>>
          BY <4>2
        <4>3. CASE ~UNCHANGED <<dc, net>>
          <5>1. PICK c \in {"closed", "gone"} : dc' = [dc EXCEPT ![p] = c]
            BY <2>14, <4>3, ConnectionStep
          <5>2. net' = [net EXCEPT ![p] = << >>]
            BY <2>14, <4>3, ConnectionStep
          <5> QED BY <4>1, <5>1, <5>2
        <4> QED BY <4>2, <4>3
      <3>2. /\ hello' \in [Peer -> {"sent", "verifying", "over"}]
            /\ session' \in [Peer -> BOOLEAN] /\ ui' \in [Peer -> UiState]
        BY <2>14 DEF Connection, Cancel, ChannelClosed, HelloArrives, Established,
                     HandshakeFails, HandshakeTimesOut, Teardown, UiState
      <3>3. UNCHANGED <<sendVars, recvVars, ticked>>
        BY <2>14, ConnectionStep
      <3> QED BY <3>1, <3>2, <3>3
    <2>15. ASSUME NEW f \in File, FileRefused(f) PROVE TypeOK'
      BY <2>15 DEF FileRefused, Stage, Settled, Msg
    <2>16. CASE UNCHANGED vars
      BY <2>16 DEF vars
    <2> QED
      BY <2>1, <2>2, <2>3, <2>4, <2>5, <2>6, <2>7, <2>8, <2>9, <2>10, <2>11, <2>12,
         <2>13, <2>14, <2>15, <2>16
      DEF Next, Crypto, Receive
  <1> QED BY <1>1, <1>2, PTL DEF Spec

-----------------------------------------------------------------------------
(* Sequence numbers.                                                        *)

(* The strengthening of SeqUnique: every number given out is behind the     *)
(* counter, so the next one is new.                                         *)
SeqBehind == \A m \in Msg : seqOf[m] < sendSeq[Author[m]]

(* A number taken from the counter is above every number in use.            *)
LEMMA TakeSeqBehind ==
    ASSUME TypeOK, SeqBehind, SeqUnique, NEW m \in Msg, TakeSeq(Author[m], m)
    PROVE  SeqBehind' /\ SeqUnique'
  <1>1. Author \in [Msg -> Peer]
    BY MsgAssumption
  <1>2. seqOf \in [Msg -> Nat] /\ sendSeq \in [Peer -> Nat]
    BY DEF TypeOK
  <1>3. /\ seqOf' = [seqOf EXCEPT ![m] = sendSeq[Author[m]]]
        /\ sendSeq' = [sendSeq EXCEPT ![Author[m]] = @ + 1]
    BY DEF TakeSeq
  <1>4. SeqBehind'
    BY <1>1, <1>2, <1>3 DEF SeqBehind
  <1>5. SeqUnique'
    BY <1>1, <1>2, <1>3 DEF SeqBehind, SeqUnique, Own
  <1> QED BY <1>4, <1>5

(* A step that takes no number changes no number.                           *)
LEMMA SeqSame ==
    ASSUME SeqBehind, SeqUnique, UNCHANGED <<seqOf, sendSeq>>
    PROVE  SeqBehind' /\ SeqUnique'
  BY DEF SeqBehind, SeqUnique, Own

(* No two frames of one sender carry the same number, however many          *)
(* encryptions are in flight (frameAad: "unique per frame").                *)
THEOREM SequenceNumbersUnique == Spec => []SeqUnique
  <1>1. Init => SeqBehind /\ SeqUnique
    BY MsgAssumption DEF Init, SeqBehind, SeqUnique, Own
  <1>2. TypeOK /\ SeqBehind /\ SeqUnique /\ [Next]_vars => SeqBehind' /\ SeqUnique'
    <2> SUFFICES ASSUME TypeOK, SeqBehind, SeqUnique, [Next]_vars
                 PROVE  SeqBehind' /\ SeqUnique'
      OBVIOUS
    <2>1. ASSUME NEW m \in Text, StartText(m) PROVE SeqBehind' /\ SeqUnique'
      BY <2>1, TakeSeqBehind DEF StartText, Msg
    <2>2. ASSUME NEW f \in File, FileEncrypted(f) PROVE SeqBehind' /\ SeqUnique'
      <3>1. TakeSeq(Author[f], f) \/ UNCHANGED <<seqOf, sendSeq>>
        BY <2>2 DEF FileEncrypted
      <3> QED BY <3>1, TakeSeqBehind, SeqSame DEF Msg
    <2>3. ASSUME NEW f \in File,
                 StartFile(f) \/ FileRefused(f) \/ MetaEncrypted(f) \/ SendChunk(f)
          PROVE  SeqBehind' /\ SeqUnique'
      BY <2>3, SeqSame DEF StartFile, FileRefused, MetaEncrypted, SendChunk
    <2>4. ASSUME NEW m \in Text, TextEncrypted(m) PROVE SeqBehind' /\ SeqUnique'
      BY <2>4, SeqSame DEF TextEncrypted
    <2>5. ASSUME NEW p \in Peer, Receive(p) PROVE SeqBehind' /\ SeqUnique'
      BY <2>5, SeqSame
      DEF Receive, ReceiveSealed, ReceiveChunk, ReceiveFileEnd, ReceiveAck, DropEarly,
          sendVars
    <2>6. ASSUME NEW p \in Peer, NEW f \in opening[p], FrameOpened(p, f)
          PROVE  SeqBehind' /\ SeqUnique'
      BY <2>6, SeqSame DEF FrameOpened, sendVars
    <2>7. ASSUME NEW p \in Peer, NEW b \in joining[p], FileJoined(p, b)
          PROVE  SeqBehind' /\ SeqUnique'
      BY <2>7, SeqSame DEF FileJoined, sendVars
    <2>8. ASSUME NEW p \in Peer, Connection(p) PROVE SeqBehind' /\ SeqUnique'
      BY <2>8, SeqSame, ConnectionStep DEF sendVars
    <2>9. CASE UNCHANGED vars
      BY <2>9, SeqSame DEF vars, sendVars
    <2> QED BY <2>1, <2>2, <2>3, <2>4, <2>5, <2>6, <2>7, <2>8, <2>9 DEF Next, Crypto
  <1> QED BY <1>1, <1>2, TypeCorrect, PTL DEF Spec

-----------------------------------------------------------------------------
(* The order of delivery.  Four lemmas say what each kind of step does to   *)
(* one receiver's queue, decryptions and recvSeq.                           *)

(* What the comparisons of one receiver's numbers need of the types.        *)
LEMMA SeqNumbers ==
    ASSUME TypeOK, NEW q \in Peer
    PROVE  /\ recvSeq[q] \in Nat
           /\ \A f \in opening[q] : f.seq \in Nat
           /\ \A i \in DOMAIN net[q] : net[q][i].seq \in Nat
           /\ net[q] \in Seq(Frame)
  <1>1. \A f \in Frame : f.seq \in Nat
    BY DEF Frame
  <1>2. net[q] \in Seq(Frame) /\ recvSeq[q] \in Nat /\ opening[q] \subseteq Frame
    BY DEF TypeOK, SealedFrames
  <1>3. \A i \in DOMAIN net[q] : net[q][i] \in Frame
    BY <1>2
  <1> QED BY <1>1, <1>2, <1>3

(* A send puts at most one sealed frame, first, behind the queue.           *)
LEMMA SendKeepsOrder ==
    ASSUME TypeOK, NEW q \in Peer, QueueRises(q),
           NEW s \in Seq(Frame),
           \A i \in DOMAIN s : s[i].t \in Sealed => i = 1 /\ AllBelow(q, s[i].seq),
           net'[q] = net[q] \o s,
           UNCHANGED <<recvSeq, opening>>
    PROVE  /\ QueueRises(q)'
           /\ \A n \in Nat :
                 /\ AllBelow(q, n)
                 /\ \A i \in DOMAIN s : s[i].t \in Sealed => s[i].seq < n
                 => AllBelow(q, n)'
  <1>1. net[q] \in Seq(Frame)
    BY SeqNumbers
  <1>2. /\ DOMAIN net'[q] = 1..(Len(net[q]) + Len(s))
        /\ \A i \in DOMAIN net'[q] :
              \/ i \in DOMAIN net[q] /\ net'[q][i] = net[q][i]
              \/ /\ i - Len(net[q]) \in DOMAIN s
                 /\ net'[q][i] = s[i - Len(net[q])]
                 /\ i > Len(net[q])
    BY <1>1
  <1>3. Len(net[q]) \in Nat /\ DOMAIN net[q] = 1..Len(net[q])
    BY <1>1
  <1>4. \A i \in DOMAIN net'[q] :
           net'[q][i].t \in Sealed =>
              \/ i \in DOMAIN net[q] /\ net'[q][i] = net[q][i]
              \/ /\ i = Len(net[q]) + 1
                 /\ 1 \in DOMAIN s /\ net'[q][i] = s[1]
                 /\ AllBelow(q, s[1].seq)
    BY <1>2, <1>3
  <1>5. QueueRises(q)'
    <2>1. ASSUME NEW i \in DOMAIN net'[q], NEW j \in DOMAIN net'[q], i < j,
                 net'[q][i].t \in Sealed, net'[q][j].t \in Sealed
          PROVE  net'[q][i].seq < net'[q][j].seq
      BY <2>1, <1>2, <1>3, <1>4 DEF QueueRises, AllBelow
    <2>2. ASSUME NEW i \in DOMAIN net'[q], net'[q][i].t \in Sealed
          PROVE  /\ recvSeq[q] < net'[q][i].seq
                 /\ \A f \in opening[q] : f.seq < net'[q][i].seq
      BY <2>2, <1>4 DEF QueueRises, AllBelow
    <2> QED BY <2>1, <2>2 DEF QueueRises
  <1>6. ASSUME NEW n \in Nat, AllBelow(q, n),
               \A i \in DOMAIN s : s[i].t \in Sealed => s[i].seq < n
        PROVE  AllBelow(q, n)'
    BY <1>4, <1>6 DEF AllBelow
  <1> QED BY <1>5, <1>6

(* A delivery takes the head of the queue; if it is sealed it may join the  *)
(* decryptions in flight.                                                   *)
LEMMA ArrivalKeepsOrder ==
    ASSUME TypeOK, NEW q \in Peer, QueueRises(q),
           net[q] # << >>, net'[q] = Tail(net[q]),
           \/ opening'[q] = opening[q]
           \/ /\ Head(net[q]).t \in Sealed
              /\ opening'[q] = opening[q] \cup {Head(net[q])},
           recvSeq'[q] = recvSeq[q]
    PROVE  QueueRises(q)' /\ \A n \in Nat : AllBelow(q, n) => AllBelow(q, n)'
  <1>1. net[q] \in Seq(Frame) /\ 1 \in DOMAIN net[q] /\ Head(net[q]) = net[q][1]
    BY SeqNumbers
  <1>2. \A i \in DOMAIN net'[q] :
           i + 1 \in DOMAIN net[q] /\ net'[q][i] = net[q][i + 1] /\ i \in Nat /\ 1 < i + 1
    BY <1>1
  <1>3. \A f \in opening'[q] : f \in opening[q] \/ (f = net[q][1] /\ f.t \in Sealed)
    BY <1>1
  <1>4. ASSUME NEW i \in DOMAIN net'[q], net'[q][i].t \in Sealed
        PROVE  /\ recvSeq[q] < net'[q][i].seq
               /\ \A f \in opening'[q] : f.seq < net'[q][i].seq
    BY <1>1, <1>2, <1>3, <1>4 DEF QueueRises
  <1>5. ASSUME NEW i \in DOMAIN net'[q], NEW j \in DOMAIN net'[q], i < j,
               net'[q][i].t \in Sealed, net'[q][j].t \in Sealed
        PROVE  net'[q][i].seq < net'[q][j].seq
    <2>1. i + 1 < j + 1
      BY <1>2, <1>5
    <2> QED BY <2>1, <1>2, <1>5 DEF QueueRises
  <1>6. QueueRises(q)'
    BY <1>4, <1>5 DEF QueueRises
  <1>7. ASSUME NEW n \in Nat, AllBelow(q, n) PROVE AllBelow(q, n)'
    BY <1>1, <1>2, <1>3, <1>7 DEF AllBelow
  <1> QED BY <1>6, <1>7

(* A decryption that ends sets recvSeq to the number of its frame, which    *)
(* may be below the old one; the queue is above both.                       *)
LEMMA OpeningKeepsOrder ==
    ASSUME NEW q \in Peer, QueueRises(q), NEW f \in opening[q],
           recvSeq'[q] = f.seq, opening'[q] = opening[q] \ {f}, net'[q] = net[q]
    PROVE  QueueRises(q)' /\ \A n \in Nat : AllBelow(q, n) => AllBelow(q, n)'
  BY DEF QueueRises, AllBelow

(* A closed channel delivers nothing.                                       *)
LEMMA ClosingKeepsOrder ==
    ASSUME NEW q \in Peer, QueueRises(q),
           net'[q] = net[q] \/ net'[q] = << >>,
           recvSeq'[q] = recvSeq[q], opening'[q] = opening[q]
    PROVE  QueueRises(q)' /\ \A n \in Nat : AllBelow(q, n) => AllBelow(q, n)'
  <1>1. CASE net'[q] = net[q]
    BY <1>1 DEF QueueRises, AllBelow
  <1>2. CASE net'[q] = << >>
    BY <1>2 DEF QueueRises, AllBelow
  <1> QED BY <1>1, <1>2

(* What DeliveryOrder says of one sender, apart from the receiver's queue.  *)
OneSend(p) ==
    \A m, n \in Own(p) : stage[m] \notin Settled /\ stage[n] \notin Settled => m = n

(* A step that takes no number, starts no send and leaves every receiver in *)
(* order keeps DeliveryOrder.                                               *)
LEMMA OrderKept ==
    ASSUME TypeOK, DeliveryOrder,
           \A q \in Peer :
              QueueRises(q)' /\ \A n \in Nat : AllBelow(q, n) => AllBelow(q, n)',
           UNCHANGED <<seqOf, sendSeq, stage>>
    PROVE  DeliveryOrder'
  <1>1. \A p \in Peer : Other(p) \in Peer /\ sendSeq[p] \in Nat
    BY OtherPeer DEF TypeOK
  <1>2. \A m \in Msg : seqOf[m] \in Nat
    BY DEF TypeOK
  <1>3. ASSUME NEW p \in Peer PROVE AllBelow(Other(p), sendSeq[p])'
    <2>1. AllBelow(Other(p), sendSeq[p])
      BY DEF DeliveryOrder
    <2> QED BY <1>1, <2>1 DEF AllBelow
  <1>4. ASSUME NEW p \in Peer, NEW m \in Own(p), stage[m] = "encrypting"
        PROVE  AllBelow(Other(p), seqOf[m])' /\ seqOf'[m] < sendSeq'[p]
    <2>1. AllBelow(Other(p), seqOf[m]) /\ seqOf[m] < sendSeq[p] /\ m \in Msg
      BY <1>4 DEF DeliveryOrder, Own
    <2> QED BY <1>1, <1>2, <2>1 DEF AllBelow
  <1> QED BY <1>3, <1>4 DEF DeliveryOrder, Own

(* Starting to encrypt: the number taken is above all the receiver holds.   *)
LEMMA TakeKeepsOrder ==
    ASSUME TypeOK, DeliveryOrder, NEW m \in Msg, TakeSeq(Author[m], m),
           \A n \in Own(Author[m]) : stage[n] \notin Settled => n = m,
           stage' = [stage EXCEPT ![m] = "encrypting"],
           UNCHANGED <<net, opening, recvSeq>>
    PROVE  DeliveryOrder'
  <1>1. Author[m] \in Peer /\ Author \in [Msg -> Peer]
    BY MsgAssumption
  <1>2. /\ seqOf' = [seqOf EXCEPT ![m] = sendSeq[Author[m]]]
        /\ sendSeq' = [sendSeq EXCEPT ![Author[m]] = @ + 1]
        /\ seqOf \in [Msg -> Nat] /\ sendSeq \in [Peer -> Nat] /\ stage \in [Msg -> Stage]
    BY DEF TakeSeq, TypeOK
  <1>3. \A p \in Peer : OneSend(p)'
    BY <1>1, <1>2 DEF OneSend, Own, DeliveryOrder
  <1>4. \A q \in Peer : QueueRises(q)'
    BY DEF QueueRises, DeliveryOrder
  <1>5. ASSUME NEW p \in Peer PROVE AllBelow(Other(p), sendSeq[p])'
    <2>1. AllBelow(Other(p), sendSeq[p]) /\ Other(p) \in Peer
      BY OtherPeer DEF DeliveryOrder
    <2>2. sendSeq'[p] >= sendSeq[p] /\ sendSeq[p] \in Nat /\ sendSeq'[p] \in Nat
      BY <1>1, <1>2
    <2> QED BY <2>1, <2>2, SeqNumbers DEF AllBelow
  <1>6. ASSUME NEW p \in Peer, NEW n \in Own(p), stage'[n] = "encrypting"
        PROVE  AllBelow(Other(p), seqOf[n])' /\ seqOf'[n] < sendSeq'[p]
    <2>1. CASE n = m
      <3>1. p = Author[m] /\ seqOf'[n] = sendSeq[p] /\ sendSeq'[p] = sendSeq[p] + 1
        BY <2>1, <1>1, <1>2, <1>6 DEF Own
      <3>2. AllBelow(Other(p), sendSeq[p])
        BY DEF DeliveryOrder
      <3> QED BY <3>1, <3>2, <1>2 DEF AllBelow
    <2>2. CASE n # m
      <3>1. n \in Msg /\ Author[n] = p /\ stage[n] = "encrypting"
        BY <2>2, <1>2, <1>6 DEF Own
      <3>2. AllBelow(Other(p), seqOf[n]) /\ seqOf[n] < sendSeq[p]
        BY <3>1 DEF DeliveryOrder, Own
      <3>3. seqOf'[n] = seqOf[n] /\ sendSeq'[p] >= sendSeq[p] /\ sendSeq'[p] \in Nat
            /\ seqOf[n] \in Nat /\ sendSeq[p] \in Nat
        BY <1>1, <1>2, <2>2, <3>1
      <3> QED BY <3>2, <3>3 DEF AllBelow
    <2> QED BY <2>1, <2>2
  <1> QED BY <1>3, <1>4, <1>5, <1>6 DEF DeliveryOrder, OneSend

(* A step of a send already begun, which puts frames s on the wire: the     *)
(* sealed one, if any, is first and carries the number of m.                *)
LEMMA SendStepKeepsOrder ==
    ASSUME TypeOK, DeliveryOrder, NEW m \in Msg,
           stage[m] \notin Settled, stage'[m] # "encrypting",
           stage' = [stage EXCEPT ![m] = stage'[m]],
           NEW s \in Seq(Frame),
           \A i \in DOMAIN s : s[i].t \in Sealed =>
              i = 1 /\ stage[m] = "encrypting" /\ s[i].seq = seqOf[m],
           Send(Author[m], s) \/ UNCHANGED net,
           UNCHANGED <<seqOf, sendSeq, opening, recvSeq>>
    PROVE  DeliveryOrder'
  <1> DEFINE p == Author[m]
             q == Other(p)
  <1>1. p \in Peer /\ q \in Peer /\ q # p /\ Other(q) = p /\ m \in Own(p)
    BY MsgAssumption, OtherPeer DEF Own
  <1>2. seqOf[m] \in Nat /\ stage \in [Msg -> Stage]
    BY DEF TypeOK
  <1>3. \A x \in Peer : OneSend(x)'
    BY <1>2 DEF DeliveryOrder, OneSend, Own
  <1>4. \A x \in Peer : QueueRises(x)
    BY DEF DeliveryOrder
  <1>5. \A x \in Peer : x # q => net'[x] = net[x]
    BY DEF Send, TypeOK
  <1>6. net'[q] = net[q] \/ net'[q] = net[q] \o s
    BY <1>1 DEF Send, TypeOK
  <1>7. stage[m] = "encrypting" => AllBelow(q, seqOf[m]) /\ seqOf[m] < sendSeq[p]
    BY <1>1 DEF DeliveryOrder
  <1>8. QueueRises(q)' /\ AllBelow(q, sendSeq[p])'
    <2>1. AllBelow(q, sendSeq[p]) /\ sendSeq[p] \in Nat
      BY <1>1 DEF DeliveryOrder, TypeOK
    <2>2. CASE net'[q] = net[q]
      BY <2>1, <2>2, <1>1, <1>4 DEF QueueRises, AllBelow
    <2>3. CASE net'[q] = net[q] \o s
      <3>1. \A i \in DOMAIN s : s[i].t \in Sealed => i = 1 /\ AllBelow(q, s[i].seq)
        BY <1>7
      <3>2. \A i \in DOMAIN s : s[i].t \in Sealed => s[i].seq < sendSeq[p]
        BY <1>7
      <3>3. QueueRises(q)' /\ \A n \in Nat :
                 /\ AllBelow(q, n)
                 /\ \A i \in DOMAIN s : s[i].t \in Sealed => s[i].seq < n
                 => AllBelow(q, n)'
        BY <1>1, <1>4, <2>3, <3>1, SendKeepsOrder
      <3>4. \A n \in Nat : n = sendSeq[p] => AllBelow(q, n)'
        BY <2>1, <3>2, <3>3
      <3> QED BY <2>1, <3>3, <3>4 DEF AllBelow
    <2> QED BY <1>6, <2>2, <2>3
  <1>9. QueueRises(p)' /\ AllBelow(p, sendSeq[q])'
    <2>1. AllBelow(p, sendSeq[q]) /\ net'[p] = net[p]
      BY <1>1, <1>5 DEF DeliveryOrder
    <2> QED BY <2>1, <1>1, <1>4 DEF QueueRises, AllBelow
  <1>10. \A x \in Peer : x = p \/ x = q
    BY <1>1, PeerAssumption
  <1>11. ASSUME NEW x \in Peer, NEW n \in Own(x), stage'[n] = "encrypting"
         PROVE  AllBelow(Other(x), seqOf[n])' /\ seqOf'[n] < sendSeq'[x]
    <2>1. n # m /\ stage[n] = "encrypting" /\ n \in Msg
      BY <1>2, <1>11 DEF Own
    <2>2. x = q
      BY <2>1, <1>1, <1>10, <1>11 DEF DeliveryOrder, Settled, Own
    <2>3. AllBelow(p, seqOf[n]) /\ seqOf[n] < sendSeq[x] /\ net'[p] = net[p]
      BY <2>1, <2>2, <1>1, <1>5, <1>11 DEF DeliveryOrder
    <2> QED BY <2>2, <2>3, <1>1 DEF AllBelow
  <1> QED BY <1>1, <1>3, <1>8, <1>9, <1>10, <1>11 DEF DeliveryOrder, OneSend

(* While users wait for one send to end before the next, frames reach the   *)
(* peer in rising order, above all it has taken in.                         *)
THEOREM OrderWhileUsersWait == ASSUME ~Overlap PROVE Spec => []DeliveryOrder
  <1>1. Init => DeliveryOrder
    <2> SUFFICES ASSUME Init PROVE DeliveryOrder
      OBVIOUS
    <2>0. \A p \in Peer : /\ net[p] = << >> /\ opening[p] = {}
                          /\ recvSeq[p] = 0 /\ sendSeq[p] = 1
      BY DEF Init
    <2>1. ASSUME NEW p \in Peer PROVE DOMAIN net[p] = {}
      BY <2>0
    <2>2. ASSUME NEW p \in Peer PROVE QueueRises(p) /\ AllBelow(Other(p), sendSeq[p])
      <3>1. QueueRises(p)
        BY <2>1 DEF QueueRises
      <3>2. Other(p) \in Peer
        BY OtherPeer
      <3>3. DOMAIN net[Other(p)] = {} /\ opening[Other(p)] = {} /\ recvSeq[Other(p)] < sendSeq[p]
        BY <2>0, <2>1, <3>2
      <3> QED BY <3>1, <3>3 DEF AllBelow
    <2>3. \A m \in Msg : stage[m] = "idle"
      BY DEF Init
    <2> QED BY <2>2, <2>3 DEF DeliveryOrder, Settled, Own
  <1>2. TypeOK /\ DeliveryOrder /\ [Next]_vars => DeliveryOrder'
    <2> SUFFICES ASSUME TypeOK, DeliveryOrder, [Next]_vars PROVE DeliveryOrder'
      OBVIOUS
    <2>0. \A m \in Msg : m \in Own(Author[m]) /\ Author[m] \in Peer
      BY MsgAssumption DEF Own
    <2>1. ASSUME NEW m \in Text, StartText(m) PROVE DeliveryOrder'
      <3>1. m \in Msg /\ \A n \in Own(Author[m]) : stage[n] \notin Settled => n = m
        BY <2>1 DEF StartText, MayStart, Msg
      <3> QED BY <2>1, <3>1, TakeKeepsOrder DEF StartText, recvVars
    <2>2. ASSUME NEW f \in File, StartFile(f) PROVE DeliveryOrder'
      <3>1. f \in Msg /\ \A n \in Own(Author[f]) : stage[n] \in Settled
        BY <2>2 DEF StartFile, MayStart, Msg
      <3>2. stage' = [stage EXCEPT ![f] = "encryptingFile"] /\ stage \in [Msg -> Stage]
        BY <2>2 DEF StartFile, TypeOK
      <3>3. UNCHANGED <<seqOf, sendSeq, net, opening, recvSeq>>
        BY <2>2 DEF StartFile, recvVars
      <3>4. \A p \in Peer : OneSend(p)'
        BY <3>1, <3>2 DEF DeliveryOrder, OneSend, Own
      <3>5. \A m \in Msg : stage'[m] = "encrypting" => stage[m] = "encrypting"
        BY <3>2
      <3>6. \A p \in Peer : QueueRises(p)' /\ AllBelow(Other(p), sendSeq[p])'
        BY <3>3 DEF DeliveryOrder, QueueRises, AllBelow
      <3>7. \A p \in Peer : \A m \in Own(p) :
               stage'[m] = "encrypting" =>
                  AllBelow(Other(p), seqOf[m])' /\ seqOf'[m] < sendSeq'[p]
        BY <3>3, <3>5 DEF DeliveryOrder, AllBelow, Own
      <3> QED BY <3>4, <3>6, <3>7 DEF DeliveryOrder, OneSend, Own
    <2>3. ASSUME NEW f \in File, FileEncrypted(f) PROVE DeliveryOrder'
      <3>1. f \in Msg /\ stage[f] = "encryptingFile" /\ stage \in [Msg -> Stage]
        BY <2>3 DEF FileEncrypted, Msg, TypeOK
      <3>2. \A n \in Own(Author[f]) : stage[n] \notin Settled => n = f
        BY <3>1, <2>0 DEF DeliveryOrder, Settled
      <3>3. UNCHANGED <<net, opening, recvSeq>>
        BY <2>3 DEF FileEncrypted, recvVars
      <3>4. CASE session[Author[f]]
        <4>1. TakeSeq(Author[f], f) /\ stage' = [stage EXCEPT ![f] = "encrypting"]
          BY <2>3, <3>4 DEF FileEncrypted
        <4> QED BY <3>1, <3>2, <3>3, <4>1, TakeKeepsOrder
      <3>5. CASE ~session[Author[f]]
        <4>1. UNCHANGED <<seqOf, sendSeq>> /\ stage' = [stage EXCEPT ![f] = "failed"]
          BY <2>3, <3>5 DEF FileEncrypted
        <4>2. << >> \in Seq(Frame) /\ stage[f] \notin Settled /\ stage'[f] = "failed"
          BY <3>1, <4>1 DEF Settled
        <4>3. \A i \in DOMAIN << >> : FALSE
          OBVIOUS
        <4> QED BY <3>1, <3>3, <4>1, <4>2, <4>3, SendStepKeepsOrder
      <3> QED BY <3>4, <3>5
    <2>4. ASSUME NEW m \in Text, TextEncrypted(m) PROVE DeliveryOrder'
      <3> DEFINE s == <<SealedFrame(m), Plain("ack", m, 0)>>
      <3>1. m \in Msg /\ stage[m] = "encrypting" /\ stage \in [Msg -> Stage]
            /\ stage[m] \notin Settled
        BY <2>4 DEF TextEncrypted, Msg, TypeOK, Settled
      <3>2. s \in Seq(Frame) /\ DOMAIN s = 1..2
        BY <3>1, FrameTypes
      <3>3. s[1].seq = seqOf[m] /\ s[2].t \notin Sealed
        BY DEF SealedFrame, Plain, Sealed
      <3>4. Send(Author[m], s) \/ UNCHANGED net
        BY <2>4 DEF TextEncrypted
      <3>5. UNCHANGED <<seqOf, sendSeq, opening, recvSeq>>
        BY <2>4 DEF TextEncrypted, recvVars
      <3>6. stage' = [stage EXCEPT ![m] = stage'[m]] /\ stage'[m] # "encrypting"
        BY <2>4, <3>1 DEF TextEncrypted
      <3>7. \A i \in DOMAIN s : i = 1 \/ i = 2
        BY <3>2
      <3> QED BY <3>1, <3>2, <3>3, <3>4, <3>5, <3>6, <3>7, SendStepKeepsOrder
    <2>5. ASSUME NEW f \in File, MetaEncrypted(f) PROVE DeliveryOrder'
      <3> DEFINE s == <<SealedFrame(f)>>
      <3>1. f \in Msg /\ stage[f] = "encrypting" /\ stage \in [Msg -> Stage]
            /\ stage[f] \notin Settled
        BY <2>5 DEF MetaEncrypted, Msg, TypeOK, Settled
      <3>2. s \in Seq(Frame) /\ \A i \in DOMAIN s : i = 1
        BY <3>1, FrameTypes
      <3>3. s[1].seq = seqOf[f]
        BY DEF SealedFrame
      <3>4. Send(Author[f], s) \/ UNCHANGED net
        BY <2>5 DEF MetaEncrypted
      <3>5. UNCHANGED <<seqOf, sendSeq, opening, recvSeq>>
        BY <2>5 DEF MetaEncrypted, recvVars
      <3>6. stage' = [stage EXCEPT ![f] = stage'[f]] /\ stage'[f] # "encrypting"
        BY <2>5, <3>1 DEF MetaEncrypted
      <3> QED BY <3>1, <3>2, <3>3, <3>4, <3>5, <3>6, SendStepKeepsOrder
    <2>6. ASSUME NEW f \in File, SendChunk(f) PROVE DeliveryOrder'
      <3> DEFINE k == chunksSent[f] + 1
                 chunk == Plain("bin", f, k)
                 s == IF k = Chunks[f]
                        THEN <<chunk, Plain("fe", f, 0), Plain("ack", f, 0)>>
                        ELSE <<chunk>>
      <3>1. f \in Msg /\ stage[f] = "sending" /\ stage \in [Msg -> Stage]
            /\ stage[f] \notin Settled
        BY <2>6 DEF SendChunk, Msg, TypeOK, Settled
      <3>2. chunk \in Frame
        BY FrameTypes DEF TypeOK
      <3>3. s \in Seq(Frame)
        BY <3>1, <3>2, FrameTypes
      <3>4. \A i \in DOMAIN s : s[i].t \notin Sealed
        BY DEF Plain, Sealed
      <3>5. Send(Author[f], s) \/ UNCHANGED net
        BY <2>6 DEF SendChunk
      <3>6. UNCHANGED <<seqOf, sendSeq, opening, recvSeq>>
        BY <2>6 DEF SendChunk, recvVars
      <3>7. stage' = [stage EXCEPT ![f] = stage'[f]] /\ stage'[f] # "encrypting"
        BY <2>6, <3>1 DEF SendChunk
      <3> QED BY <3>1, <3>3, <3>4, <3>5, <3>6, <3>7, SendStepKeepsOrder
    <2> DEFINE Kept(q) == QueueRises(q)' /\ \A n \in Nat : AllBelow(q, n) => AllBelow(q, n)'
    <2>7. \A q \in Peer : QueueRises(q) /\ net \in [Peer -> Seq(Frame)]
             /\ opening \in [Peer -> SUBSET SealedFrames] /\ recvSeq \in [Peer -> Nat]
      BY DEF DeliveryOrder, TypeOK
    <2>8. ASSUME NEW q \in Peer, UNCHANGED <<net[q], opening[q], recvSeq[q]>> PROVE Kept(q)
      BY <2>7, <2>8, ClosingKeepsOrder
    <2>9. ASSUME NEW p \in Peer, Receive(p) PROVE DeliveryOrder'
      <3>1. /\ net[p] # << >> /\ net' = [net EXCEPT ![p] = Tail(net[p])]
            /\ UNCHANGED <<recvSeq, seqOf, sendSeq, stage>>
        BY <2>9 DEF Receive, ReceiveSealed, ReceiveChunk, ReceiveFileEnd, ReceiveAck,
                    DropEarly, Arrives, Delivered, sendVars, recvVars
      <3>2. \/ UNCHANGED opening
            \/ /\ Head(net[p]).t \in Sealed
               /\ opening' = [opening EXCEPT ![p] = opening[p] \cup {Head(net[p])}]
        <4>1. ASSUME ReceiveSealed(p), Accepts(p, Head(net[p])) PROVE <3>2!2
          BY <4>1 DEF ReceiveSealed, Arrives
        <4>2. ASSUME ReceiveSealed(p), ~Accepts(p, Head(net[p])) PROVE UNCHANGED opening
          BY <4>2 DEF ReceiveSealed
        <4>3. ASSUME ReceiveChunk(p) \/ ReceiveFileEnd(p) \/ ReceiveAck(p) \/ DropEarly(p)
              PROVE  UNCHANGED opening
          BY <4>3 DEF ReceiveChunk, ReceiveFileEnd, ReceiveAck, DropEarly, recvVars
        <4> QED BY <2>9, <4>1, <4>2, <4>3 DEF Receive
      <3>3. Kept(p)
        BY <2>7, <3>1, <3>2, ArrivalKeepsOrder
      <3>4. \A q \in Peer : q # p => Kept(q)
        BY <2>7, <2>8, <3>1, <3>2
      <3> QED BY <3>1, <3>3, <3>4, OrderKept
    <2>10. ASSUME NEW p \in Peer, NEW f \in opening[p], FrameOpened(p, f)
           PROVE  DeliveryOrder'
      <3>1. /\ recvSeq' = [recvSeq EXCEPT ![p] = f.seq]
            /\ opening' = [opening EXCEPT ![p] = opening[p] \ {f}]
            /\ UNCHANGED <<net, seqOf, sendSeq, stage>>
        BY <2>10 DEF FrameOpened, sendVars
      <3>2. Kept(p)
        BY <2>7, <3>1, OpeningKeepsOrder
      <3>3. \A q \in Peer : q # p => Kept(q)
        BY <2>7, <2>8, <3>1
      <3> QED BY <3>1, <3>2, <3>3, OrderKept
    <2>11. ASSUME NEW p \in Peer, NEW b \in joining[p], FileJoined(p, b)
           PROVE  DeliveryOrder'
      <3>1. UNCHANGED <<net, opening, recvSeq, seqOf, sendSeq, stage>>
        BY <2>11 DEF FileJoined, sendVars
      <3> QED BY <2>8, <3>1, OrderKept
    <2>12. ASSUME NEW p \in Peer, Connection(p) PROVE DeliveryOrder'
      <3>1. /\ UNCHANGED net \/ net' = [net EXCEPT ![p] = << >>]
            /\ UNCHANGED <<opening, recvSeq, seqOf, sendSeq, stage>>
        BY <2>12, ConnectionStep DEF sendVars, recvVars
      <3>2. \A q \in Peer : Kept(q)
        BY <2>7, <3>1, ClosingKeepsOrder
      <3> QED BY <3>1, <3>2, OrderKept
    <2>13. ASSUME NEW f \in File, FileRefused(f) PROVE DeliveryOrder'
      <3>1. f \in Msg /\ stage[f] = "encryptingFile" /\ stage \in [Msg -> Stage]
        BY <2>13 DEF FileRefused, Msg, TypeOK
      <3>2. UNCHANGED <<net, opening, recvSeq, seqOf, sendSeq>>
            /\ stage' = [stage EXCEPT ![f] = "failed"]
        BY <2>13 DEF FileRefused, recvVars
      <3>3. << >> \in Seq(Frame) /\ stage[f] \notin Settled /\ stage'[f] = "failed"
        BY <3>1, <3>2 DEF Settled
      <3>4. \A i \in DOMAIN << >> : FALSE
        OBVIOUS
      <3> QED BY <3>1, <3>2, <3>3, <3>4, SendStepKeepsOrder
    <2>14. CASE UNCHANGED vars
      <3>1. UNCHANGED <<net, opening, recvSeq, seqOf, sendSeq, stage>>
        BY <2>14 DEF vars, sendVars, recvVars
      <3> QED BY <2>8, <3>1, OrderKept
    <2> QED
      BY <2>1, <2>2, <2>3, <2>4, <2>5, <2>6, <2>9, <2>10, <2>11, <2>12, <2>13, <2>14
      DEF Next, Crypto
  <1> QED BY <1>1, <1>2, TypeCorrect, PTL DEF Spec

(* The replay check never refuses a frame the peer really sent, while users *)
(* wait for one send to end before the next.                                *)
THEOREM ReplayCheckHarmless == ASSUME ~Overlap PROVE Spec => []NoGenuineFrameRejected
  <1>1. Init => NoGenuineFrameRejected
    BY DEF Init, NoGenuineFrameRejected
  <1>2. TypeOK /\ DeliveryOrder /\ NoGenuineFrameRejected /\ [Next]_vars
           => NoGenuineFrameRejected'
    <2> SUFFICES ASSUME TypeOK, DeliveryOrder, NoGenuineFrameRejected, [Next]_vars
                 PROVE  UNCHANGED rejected
      BY DEF NoGenuineFrameRejected
    <2>1. ASSUME NEW p \in Peer, ReceiveSealed(p) PROVE UNCHANGED rejected
      <3>1. net[p] \in Seq(Frame) /\ net[p] # << >> /\ Head(net[p]).t \in Sealed
        BY <2>1 DEF ReceiveSealed, Arrives, Delivered, TypeOK
      <3>2. 1 \in DOMAIN net[p] /\ Head(net[p]) = net[p][1]
        BY <3>1
      <3>3. Head(net[p]).seq > recvSeq[p]
        BY <3>1, <3>2, SeqNumbers DEF DeliveryOrder, QueueRises
      <3> QED BY <2>1, <3>3 DEF ReceiveSealed, Accepts
    <2>2. ASSUME NEW p \in Peer,
                 \/ ReceiveChunk(p) \/ ReceiveFileEnd(p) \/ ReceiveAck(p)
                 \/ DropEarly(p) \/ Connection(p)
          PROVE  UNCHANGED rejected
      BY <2>2, ConnectionStep
      DEF ReceiveChunk, ReceiveFileEnd, ReceiveAck, DropEarly, recvVars
    <2>3. ASSUME NEW m \in Text, StartText(m) \/ TextEncrypted(m)
          PROVE  UNCHANGED rejected
      BY <2>3 DEF StartText, TextEncrypted, recvVars
    <2>4. ASSUME NEW f \in File,
                 \/ StartFile(f) \/ FileEncrypted(f) \/ FileRefused(f)
                 \/ MetaEncrypted(f) \/ SendChunk(f)
          PROVE  UNCHANGED rejected
      BY <2>4 DEF StartFile, FileEncrypted, FileRefused, MetaEncrypted, SendChunk, recvVars
    <2>5. ASSUME NEW p \in Peer, NEW f \in opening[p], FrameOpened(p, f)
          PROVE  UNCHANGED rejected
      BY <2>5 DEF FrameOpened
    <2>6. ASSUME NEW p \in Peer, NEW b \in joining[p], FileJoined(p, b)
          PROVE  UNCHANGED rejected
      BY <2>6 DEF FileJoined
    <2>7. CASE UNCHANGED vars
      BY <2>7 DEF vars, recvVars
    <2> QED BY <2>1, <2>2, <2>3, <2>4, <2>5, <2>6, <2>7 DEF Next, Crypto, Receive
  <1> QED BY <1>1, <1>2, TypeCorrect, OrderWhileUsersWait, PTL DEF Spec

-----------------------------------------------------------------------------
(* What a send reports.                                                     *)

(* The only steps that report anything new as sent: the one message whose   *)
(* frame goes out in this very step, over a channel its author has open.    *)
LEMMA SentInThisStep ==
    ASSUME TypeOK, [Next]_vars
    PROVE  \/ UNCHANGED {m \in Msg : stage[m] = "sent"}
           \/ \E m \in Msg :
                 /\ stage[m] \in {"encrypting", "sending"}
                 /\ CanSend(Author[m])
                 /\ stage' = [stage EXCEPT ![m] = "sent"]
                 /\ TextEncrypted(m) \/ (m \in File /\ SendChunk(m))
  <1> USE DEF TypeOK, Settled, Stage
  <1>1. \A m \in Text : m \in Msg
    BY DEF Msg
  <1>2. \A f \in File : f \in Msg
    BY DEF Msg
  <1>3. ASSUME NEW m \in Text, StartText(m)
        PROVE  UNCHANGED {n \in Msg : stage[n] = "sent"}
    BY <1>1, <1>3 DEF StartText
  <1>4. ASSUME NEW m \in Text, TextEncrypted(m)
        PROVE  \/ UNCHANGED {n \in Msg : stage[n] = "sent"}
               \/ CanSend(Author[m]) /\ stage' = [stage EXCEPT ![m] = "sent"]
    BY <1>1, <1>4 DEF TextEncrypted
  <1>5. ASSUME NEW f \in File,
               StartFile(f) \/ FileEncrypted(f) \/ FileRefused(f) \/ MetaEncrypted(f)
        PROVE  UNCHANGED {n \in Msg : stage[n] = "sent"}
    BY <1>2, <1>5 DEF StartFile, FileEncrypted, FileRefused, MetaEncrypted
  <1>6. ASSUME NEW f \in File, SendChunk(f)
        PROVE  \/ UNCHANGED {n \in Msg : stage[n] = "sent"}
               \/ CanSend(Author[f]) /\ stage' = [stage EXCEPT ![f] = "sent"]
    BY <1>2, <1>6 DEF SendChunk
  <1>7. ASSUME NEW p \in Peer, Receive(p) \/ Connection(p)
        PROVE  UNCHANGED stage
    BY <1>7, ConnectionStep
    DEF Receive, ReceiveSealed, ReceiveChunk, ReceiveFileEnd, ReceiveAck, DropEarly,
        sendVars
  <1>8. ASSUME NEW p \in Peer, NEW f \in opening[p], FrameOpened(p, f)
        PROVE  UNCHANGED stage
    BY <1>8 DEF FrameOpened, sendVars
  <1>9. ASSUME NEW p \in Peer, NEW b \in joining[p], FileJoined(p, b)
        PROVE  UNCHANGED stage
    BY <1>9 DEF FileJoined, sendVars
  <1>10. UNCHANGED vars => UNCHANGED stage
    BY DEF vars, sendVars
  <1> QED
    BY <1>1, <1>2, <1>3, <1>4, <1>5, <1>6, <1>7, <1>8, <1>9, <1>10
    DEF Next, Crypto, TextEncrypted, SendChunk

(* A send whose channel closed under it fails: it is never reported as sent *)
(* afterwards, whatever encryption was still in flight.                     *)
THEOREM ClosedSendsFail == Spec => NothingSentOnceClosed
  <1>1. TypeOK /\ [Next]_vars =>
           [\A m \in Msg : dc[Author[m]] # "open" /\ stage'[m] = "sent"
                              => stage[m] = "sent"]_vars
    <2> SUFFICES ASSUME TypeOK, [Next]_vars, NEW m \in Msg,
                        dc[Author[m]] # "open", stage'[m] = "sent"
                 PROVE  stage[m] = "sent"
      OBVIOUS
    <2> QED BY SentInThisStep DEF CanSend, TypeOK
  <1> QED BY <1>1, TypeCorrect, PTL DEF Spec, NothingSentOnceClosed

-----------------------------------------------------------------------------
(* No text is lost without trace.                                           *)

(* What a send does to the queues: the frames join the far end's queue, or  *)
(* are lost when that end is closed; nothing queued is disturbed.           *)
LEMMA QueueAfterSend ==
    ASSUME TypeOK, NEW p \in Peer, NEW s \in Seq(Frame), Send(p, s), NEW q \in Peer
    PROVE  /\ \A i \in DOMAIN net[q] : i \in DOMAIN net'[q] /\ net'[q][i] = net[q][i]
           /\ \A i \in DOMAIN net'[q] :
                 \/ i \in DOMAIN net[q] /\ net'[q][i] = net[q][i]
                 \/ /\ q = Other(p)
                    /\ i - Len(net[q]) \in DOMAIN s
                    /\ net'[q][i] = s[i - Len(net[q])]
                    /\ i > Len(net[q])
           /\ q = Other(p) /\ dc[q] = "open" =>
                 \A i \in DOMAIN s :
                    /\ i + Len(net[q]) \in DOMAIN net'[q]
                    /\ net'[q][i + Len(net[q])] = s[i]
  <1>1. Other(p) \in Peer /\ net[q] \in Seq(Frame) /\ net \in [Peer -> Seq(Frame)]
    BY OtherPeer DEF TypeOK
  <1>2. CASE q = Other(p) /\ dc[q] = "open"
    <2>1. net'[q] = net[q] \o s
      BY <1>1, <1>2 DEF Send
    <2> QED BY SMTT(30), <1>1, <1>2, <2>1
  <1>3. CASE ~(q = Other(p) /\ dc[q] = "open")
    <2>1. net'[q] = net[q]
      BY <1>1, <1>3 DEF Send
    <2> QED BY <1>3, <2>1
  <1> QED BY <1>2, <1>3

(* What a delivery does to the queues: the receiver's loses its head.       *)
LEMMA QueueAfterArrival ==
    ASSUME TypeOK, NEW p \in Peer, Delivered(p), NEW q \in Peer
    PROVE  /\ q # p => net'[q] = net[q]
           /\ 1 \in DOMAIN net[p] /\ Head(net[p]) = net[p][1]
           /\ \A i \in DOMAIN net'[p] :
                 i + 1 \in DOMAIN net[p] /\ net'[p][i] = net[p][i + 1] /\ i + 1 # 1
           /\ \A i \in DOMAIN net[p] :
                 i = 1 \/ (i - 1 \in DOMAIN net'[p] /\ net'[p][i - 1] = net[p][i])
  <1>1. net[p] \in Seq(Frame) /\ net[p] # << >> /\ net \in [Peer -> Seq(Frame)]
    BY DEF TypeOK, Delivered
  <1>2. net'[p] = Tail(net[p]) /\ (q # p => net'[q] = net[q])
    BY <1>1 DEF Delivered
  <1> QED BY <1>1, <1>2

(* Where a text that was sent still shows: queued, being decrypted, refused *)
(* with a notice, or shown.                                                 *)
Traced(m, q) ==
    \/ \E i \in DOMAIN net[q] : net[q][i].t = "m" /\ net[q][i].m = m
    \/ \E f \in opening[q] \cup rejected[q] : f.t = "m" /\ f.m = m
    \/ shown[m] > 0

(* Every sending step hands frames to the channel, or none.                 *)
LEMMA SendsFrames ==
    ASSUME TypeOK,
           \/ \E m \in Text : StartText(m) \/ TextEncrypted(m)
           \/ \E f \in File : \/ StartFile(f) \/ FileEncrypted(f) \/ FileRefused(f)
                             \/ MetaEncrypted(f) \/ SendChunk(f)
    PROVE  /\ UNCHANGED net \/ \E p \in Peer, s \in Seq(Frame) : Send(p, s)
           /\ UNCHANGED recvVars /\ UNCHANGED linkVars
  <1>1. CASE \E m \in Text : StartText(m)
    BY <1>1 DEF StartText
  <1>2. ASSUME NEW m \in Text, TextEncrypted(m)
        PROVE  /\ UNCHANGED net \/ \E p \in Peer, s \in Seq(Frame) : Send(p, s)
               /\ UNCHANGED recvVars /\ UNCHANGED linkVars
    <2>1. Author[m] \in Peer /\ <<SealedFrame(m), Plain("ack", m, 0)>> \in Seq(Frame)
      BY FrameTypes DEF Msg
    <2> QED BY <1>2, <2>1 DEF TextEncrypted
  <1>3. CASE \E f \in File : StartFile(f) \/ FileEncrypted(f) \/ FileRefused(f)
    BY <1>3 DEF StartFile, FileEncrypted, FileRefused
  <1>4. ASSUME NEW f \in File, MetaEncrypted(f)
        PROVE  /\ UNCHANGED net \/ \E p \in Peer, s \in Seq(Frame) : Send(p, s)
               /\ UNCHANGED recvVars /\ UNCHANGED linkVars
    <2>1. Author[f] \in Peer /\ <<SealedFrame(f)>> \in Seq(Frame)
      BY FrameTypes DEF Msg
    <2> QED BY <1>4, <2>1 DEF MetaEncrypted
  <1>5. ASSUME NEW f \in File, SendChunk(f)
        PROVE  /\ UNCHANGED net \/ \E p \in Peer, s \in Seq(Frame) : Send(p, s)
               /\ UNCHANGED recvVars /\ UNCHANGED linkVars
    <2> DEFINE chunk == Plain("bin", f, chunksSent[f] + 1)
    <2>1. chunksSent[f] + 1 \in Nat /\ f \in Msg
      BY DEF TypeOK, Msg
    <2>2. /\ Author[f] \in Peer /\ <<chunk>> \in Seq(Frame)
          /\ <<chunk, Plain("fe", f, 0), Plain("ack", f, 0)>> \in Seq(Frame)
      BY <2>1, FrameTypes
    <2>3. UNCHANGED net \/ Send(Author[f], <<chunk>>)
          \/ Send(Author[f], <<chunk, Plain("fe", f, 0), Plain("ack", f, 0)>>)
      BY <1>5 DEF SendChunk
    <2> QED BY <1>5, <2>2, <2>3 DEF SendChunk
  <1> QED BY <1>1, <1>2, <1>3, <1>4, <1>5

(* A sending step leaves the trace of every text behind.                    *)
LEMMA SendKeepsTrace ==
    ASSUME TypeOK, NEW m \in Text, NEW q \in Peer, Traced(m, q),
           \/ UNCHANGED net
           \/ \E p \in Peer, s \in Seq(Frame) : Send(p, s),
           UNCHANGED <<opening, rejected, shown>>
    PROVE  Traced(m, q)'
  BY QueueAfterSend DEF Traced

(* What an accounted-for text needs: it is traced while its receiver's end  *)
(* of the channel is open.                                                  *)
LEMMA Accounting ==
    TextsAccountedFor <=>
       \A m \in Text :
          stage[m] = "sent" /\ m \notin early /\ dc[Other(Author[m])] = "open"
             => Traced(m, Other(Author[m]))
  BY DEF TextsAccountedFor, Traced

(* Why a text that found its receiver secure is not dropped at the handshake*)
(* check any more: a session that is gone takes the channel with it.        *)
SecureSinceSent ==
    \A m \in Text :
        LET q == Other(Author[m]) IN
        stage[m] = "sent" /\ m \notin early /\ dc[q] = "open" => session[q]

LEMMA ReceiverStaysSecure == Spec => []SecureSinceSent
  <1>1. Init => SecureSinceSent
    BY DEF Init, SecureSinceSent, Msg
  <1>2. TypeOK /\ SecureSinceSent /\ [Next]_vars => SecureSinceSent'
    <2> SUFFICES ASSUME TypeOK, SecureSinceSent, [Next]_vars, NEW m \in Text,
                        stage'[m] = "sent", m \notin early',
                        dc'[Other(Author[m])] = "open"
                 PROVE  session'[Other(Author[m])]
      BY DEF SecureSinceSent
    <2> DEFINE q == Other(Author[m])
    <2>1. m \in Msg /\ Author[m] \in Peer /\ q \in Peer
      BY OtherPeer, FrameTypes DEF Msg
    <2>2. ASSUME UNCHANGED linkVars PROVE dc[q] = "open" /\ session'[q] = session[q]
      BY <2>2 DEF linkVars
    <2>3. CASE stage[m] # "sent"
      <3>1. TextEncrypted(m) /\ CanSend(Author[m])
        BY <2>1, <2>3, SentInThisStep, MsgAssumption DEF TypeOK
      <3>2. session[q] /\ UNCHANGED linkVars
        BY <3>1 DEF TextEncrypted
      <3> QED BY <2>2, <3>2
    <2>4. CASE stage[m] = "sent" /\ UNCHANGED <<linkVars, early>>
      BY <2>2, <2>4 DEF SecureSinceSent
    <2>5. ASSUME NEW n \in Text, TextEncrypted(n), stage[m] = "sent" PROVE session'[q]
      <3>1. early \subseteq early' /\ UNCHANGED linkVars
        BY <2>5 DEF TextEncrypted
      <3> QED BY <2>2, <2>5, <3>1 DEF SecureSinceSent
    <2>6. ASSUME NEW p \in Peer, Connection(p), stage[m] = "sent" PROVE session'[q]
      <3>1. UNCHANGED early /\ dc[q] = "open"
        BY <2>1, <2>6, ConnectionStep DEF sendVars, TypeOK
      <3>2. session[q]
        BY <2>6, <3>1 DEF SecureSinceSent
      <3>3. \/ UNCHANGED session
            \/ session' = [session EXCEPT ![p] = TRUE]
            \/ dc' = [dc EXCEPT ![p] = "gone"] /\ session' = [session EXCEPT ![p] = FALSE]
        BY <2>6 DEF Connection, Cancel, ChannelClosed, HelloArrives, Established,
                    HandshakeFails, HandshakeTimesOut, Teardown
      <3> QED BY <2>1, <3>2, <3>3 DEF TypeOK
    <2> QED
      BY <2>3, <2>4, <2>5, <2>6
      DEF Next, Crypto, Receive, vars, sendVars, StartText, StartFile, FileEncrypted,
          FileRefused, MetaEncrypted, SendChunk, FrameOpened, FileJoined,
          ReceiveSealed, ReceiveChunk, ReceiveFileEnd, ReceiveAck, DropEarly
  <1> QED BY <1>1, <1>2, TypeCorrect, PTL DEF Spec

(* A text reported as sent to a peer that had its session is queued, being  *)
(* decrypted, shown, or refused with a notice, as long as the receiver's    *)
(* end of the channel is open: what is dropped without trace is what was    *)
(* sent before the receiver was secure, and nothing else.                   *)
THEOREM SentTextsAccountedFor == Spec => []TextsAccountedFor
  <1>1. Init => TextsAccountedFor
    BY DEF Init, TextsAccountedFor, Msg
  <1>2. TypeOK /\ SecureSinceSent /\ TextsAccountedFor /\ [Next]_vars
           => TextsAccountedFor'
    <2> SUFFICES ASSUME TypeOK, SecureSinceSent, TextsAccountedFor, [Next]_vars,
                        NEW m \in Text,
                        stage'[m] = "sent", m \notin early',
                        dc'[Other(Author[m])] = "open"
                 PROVE  Traced(m, Other(Author[m]))'
      BY DEF TextsAccountedFor, Traced
    <2> DEFINE q == Other(Author[m])
    <2>1. m \in Msg /\ Author[m] \in Peer /\ q \in Peer
      BY OtherPeer, FrameTypes DEF Msg
    <2>2. /\ dc[q] = "open"
          /\ stage[m] = "sent" => Traced(m, q) /\ session[q]
      <3>1. dc[q] = "open"
        <4>1. \/ UNCHANGED dc
              \/ \E p \in Peer, c \in {"closed", "gone"} : dc' = [dc EXCEPT ![p] = c]
          BY ConnectionStep
          DEF Next, Crypto, Receive, vars, linkVars, StartText, StartFile,
              FileEncrypted, FileRefused, MetaEncrypted, SendChunk, TextEncrypted,
              FrameOpened, FileJoined, ReceiveSealed, ReceiveChunk, ReceiveFileEnd,
              ReceiveAck, DropEarly
        <4> QED BY <2>1, <4>1 DEF TypeOK
      <3>2. early \subseteq early'
        BY ConnectionStep
        DEF Next, Crypto, Receive, vars, sendVars, StartText, StartFile,
            FileEncrypted, FileRefused, MetaEncrypted, SendChunk, TextEncrypted,
            FrameOpened, FileJoined, ReceiveSealed, ReceiveChunk, ReceiveFileEnd,
            ReceiveAck, DropEarly
      <3> QED BY <3>1, <3>2, Accounting DEF SecureSinceSent
    <2>3. CASE stage[m] # "sent"
      <3>1. TextEncrypted(m) /\ CanSend(Author[m])
        BY <2>1, <2>3, SentInThisStep, MsgAssumption DEF TypeOK
      <3>2. /\ Send(Author[m], <<SealedFrame(m), Plain("ack", m, 0)>>)
            /\ <<SealedFrame(m), Plain("ack", m, 0)>> \in Seq(Frame)
            /\ 1 \in DOMAIN <<SealedFrame(m), Plain("ack", m, 0)>>
        BY <2>1, <3>1, FrameTypes DEF TextEncrypted
      <3>3. \E i \in DOMAIN net'[q] : net'[q][i] = SealedFrame(m)
        <4> DEFINE s == <<SealedFrame(m), Plain("ack", m, 0)>>
        <4>1. 1 \in DOMAIN s /\ s[1] = SealedFrame(m)
          OBVIOUS
        <4>2. \A i \in DOMAIN s : /\ i + Len(net[q]) \in DOMAIN net'[q]
                                 /\ net'[q][i + Len(net[q])] = s[i]
          <5>1. Send(Author[m], s) /\ s \in Seq(Frame)
            BY <3>2
          <5> HIDE DEF s
          <5> QED BY <2>1, <2>2, <5>1, QueueAfterSend
        <4> QED BY <4>1, <4>2
      <3>4. SealedFrame(m).t = "m" /\ SealedFrame(m).m = m
        BY DEF SealedFrame
      <3> QED BY <3>3, <3>4 DEF Traced
    <2>4. CASE stage[m] = "sent"
      <3> USE <2>1, <2>2, <2>4
      <3>1. CASE \/ \E n \in Text : StartText(n) \/ TextEncrypted(n)
                 \/ \E f \in File : \/ StartFile(f) \/ FileEncrypted(f) \/ FileRefused(f)
                                   \/ MetaEncrypted(f) \/ SendChunk(f)
        BY <3>1, SendsFrames, SendKeepsTrace DEF recvVars
      <3>3. ASSUME NEW p \in Peer, ReceiveSealed(p)
            PROVE  Traced(m, q)'
        <4>1. Delivered(p) /\ UNCHANGED shown
          BY <3>3 DEF ReceiveSealed, Arrives
        <4>2. /\ Head(net[p]) \in opening'[p] \cup rejected'[p]
              /\ opening[q] \cup rejected[q] \subseteq opening'[q] \cup rejected'[q]
          <5>1. CASE Accepts(p, Head(net[p]))
            <6>1. opening' = [opening EXCEPT ![p] = @ \cup {Head(net[p])}]
                  /\ UNCHANGED rejected
              BY <3>3, <5>1 DEF ReceiveSealed
            <6> QED BY <6>1 DEF TypeOK
          <5>2. CASE ~Accepts(p, Head(net[p]))
            <6>1. rejected' = [rejected EXCEPT ![p] = @ \cup {Head(net[p])}]
                  /\ UNCHANGED opening
              BY <3>3, <5>2 DEF ReceiveSealed
            <6> QED BY <6>1 DEF TypeOK
          <5> QED BY <5>1, <5>2
        <4> QED BY <4>1, <4>2, QueueAfterArrival DEF Traced
      <3>4. ASSUME NEW p \in Peer, ReceiveChunk(p) \/ ReceiveFileEnd(p) \/ ReceiveAck(p)
            PROVE  Traced(m, q)'
        <4>1. Delivered(p) /\ Head(net[p]).t # "m"
          BY <3>4 DEF ReceiveChunk, ReceiveFileEnd, ReceiveAck, Arrives
        <4>2. UNCHANGED <<opening, rejected, shown>>
          BY <3>4 DEF ReceiveChunk, ReceiveFileEnd, ReceiveAck, recvVars
        <4> QED BY <4>1, <4>2, QueueAfterArrival DEF Traced
      <3>5. ASSUME NEW p \in Peer, NEW f \in opening[p], FrameOpened(p, f)
            PROVE  Traced(m, q)'
        <4>1. f.t = "m" => f.m \in Text
          <5>1. f \in Frame
            BY DEF TypeOK, SealedFrames
          <5> QED BY <5>1 DEF Frame
        <4>2. /\ UNCHANGED <<net, rejected>>
              /\ opening[q] \ {f} \subseteq opening'[q]
              /\ IF f.t = "m" THEN shown' = [shown EXCEPT ![f.m] = @ + 1]
                              ELSE UNCHANGED shown
          BY <3>5 DEF FrameOpened, TypeOK
        <4>3. shown[m] \in Nat /\ shown \in [Msg -> Nat]
          BY DEF TypeOK
        <4>4. (shown[m] > 0 => shown'[m] > 0) /\ (f.t = "m" /\ f.m = m => shown'[m] > 0)
          <5>1. CASE f.t = "m"
            <6>1. shown' = [shown EXCEPT ![f.m] = @ + 1]
              BY <4>2, <5>1
            <6> QED BY <4>3, <6>1
          <5>2. CASE f.t # "m"
            BY <4>2, <5>2
          <5> QED BY <5>1, <5>2
        <4> QED BY <4>2, <4>4 DEF Traced
      <3>6. ASSUME NEW p \in Peer, NEW b \in joining[p], FileJoined(p, b)
            PROVE  Traced(m, q)'
        <4>1. UNCHANGED shown \/ shown' = [shown EXCEPT ![b.file] = @ + 1]
          BY <3>6 DEF FileJoined
        <4>2. shown[m] > 0 => shown'[m] > 0
          <5>1. shown \in [Msg -> Nat] /\ b.file \in Msg
            BY DEF TypeOK, Buffer, Msg
          <5> QED BY <4>1, <5>1
        <4>3. UNCHANGED <<net, opening, rejected>>
          BY <3>6 DEF FileJoined
        <4> QED BY <4>2, <4>3 DEF Traced
      <3>7. ASSUME NEW p \in Peer, DropEarly(p) PROVE Traced(m, q)'
        <4>1. /\ p # q /\ Delivered(p)
              /\ UNCHANGED recvVars
          BY <3>7 DEF DropEarly
        <4> QED BY <4>1, QueueAfterArrival DEF Traced, recvVars
      <3>9. ASSUME NEW p \in Peer, Connection(p) PROVE Traced(m, q)'
        <4>1. /\ \/ UNCHANGED net
                 \/ /\ \E c \in {"closed", "gone"} : dc' = [dc EXCEPT ![p] = c]
                    /\ net' = [net EXCEPT ![p] = << >>]
              /\ UNCHANGED recvVars
          BY <3>9, ConnectionStep
        <4>2. net'[q] = net[q]
          BY <4>1 DEF TypeOK
        <4> QED BY <4>1, <4>2 DEF Traced, recvVars
      <3>8. CASE UNCHANGED vars
        BY <3>8 DEF vars, recvVars, Traced
      <3> QED BY <3>1, <3>3, <3>4, <3>5, <3>6, <3>7, <3>8, <3>9
          DEF Next, Crypto, Receive
    <2> QED BY <2>3, <2>4
  <1> QED BY <1>1, <1>2, TypeCorrect, ReceiverStaysSecure, PTL DEF Spec

-----------------------------------------------------------------------------
(* The mailbox.                                                             *)

(* The frames that stand for a message while it travels.                    *)
TextFrame(f, m) == f.t = "m" /\ f.m = m
Chunk(f, m, k) == f.t = "bin" /\ f.m = m /\ f.k = k
Carries(b, f, k) == \E i \in DOMAIN b.chunks : b.chunks[i] = <<f, k>>

(* A text's frame is in one place only, at the far end, while it has not    *)
(* been shown; its sender was told it is sent, and still is once it is      *)
(* shown.                                                                   *)
TextOnce(m) ==
    /\ shown[m] > 0 => stage[m] = "sent"
    /\ \A q \in Peer :
        /\ \A i \in DOMAIN net[q] :
              TextFrame(net[q][i], m) =>
                 /\ stage[m] = "sent" /\ q = Other(Author[m]) /\ shown[m] = 0
                 /\ \A j \in DOMAIN net[q] : TextFrame(net[q][j], m) => i = j
                 /\ \A f \in opening[q] : ~TextFrame(f, m)
        /\ \A f \in opening[q] :
              TextFrame(f, m) =>
                 /\ stage[m] = "sent" /\ q = Other(Author[m]) /\ shown[m] = 0
                 /\ \A g \in opening[q] : TextFrame(g, m) => f = g

(* The first chunk of an attachment is in one place only while the          *)
(* attachment has not been shown.                                           *)
FirstChunkOnce(f) ==
    \A q \in Peer :
        /\ \A i \in DOMAIN net[q] :
              Chunk(net[q][i], f, 1) =>
                 /\ q = Other(Author[f]) /\ shown[f] = 0
                 /\ \A j \in DOMAIN net[q] : Chunk(net[q][j], f, 1) => i = j
                 /\ ~Carries(incomingFile[q], f, 1)
                 /\ \A b \in joining[q] : ~Carries(b, f, 1)
        /\ Carries(incomingFile[q], f, 1) =>
                 /\ q = Other(Author[f]) /\ shown[f] = 0
                 /\ \A b \in joining[q] : ~Carries(b, f, 1)
        /\ \A b \in joining[q] :
              Carries(b, f, 1) =>
                 /\ q = Other(Author[f]) /\ shown[f] = 0
                 /\ \A c \in joining[q] : Carries(c, f, 1) => b = c

(* Only chunks that were sent are anywhere, and an attachment whose last    *)
(* chunk was sent is reported as sent.                                      *)
ChunksWereSent(f) ==
    /\ chunksSent[f] <= Chunks[f]
    /\ chunksSent[f] = Chunks[f] => stage[f] = "sent"
    /\ chunksSent[f] = 0 => shown[f] = 0
    /\ \A q \in Peer, k \in Nat :
          \/ \E i \in DOMAIN net[q] : Chunk(net[q][i], f, k)
          \/ Carries(incomingFile[q], f, k)
          \/ \E b \in joining[q] : Carries(b, f, k)
          => k <= chunksSent[f]

(* The strengthening: nothing is in two places, and nothing unsent anywhere.*)
DeliveredOnce ==
    /\ \A m \in Text : TextOnce(m)
    /\ \A f \in File : FirstChunkOnce(f) /\ ChunksWereSent(f)

(* In this step no frame of kind t and message m is added to q's queue.     *)
NoNewFrames(q, t, m) ==
    \E d \in Nat :
       \A i \in DOMAIN net'[q] :
          net'[q][i].t = t /\ net'[q][i].m = m =>
             i + d \in DOMAIN net[q] /\ net[q][i + d] = net'[q][i]

(* A send adds only the frames it was given.                                *)
LEMMA SendAddsNone ==
    ASSUME TypeOK, NEW p \in Peer, NEW s \in Seq(Frame), Send(p, s), NEW t, NEW m,
           \A i \in DOMAIN s : ~(s[i].t = t /\ s[i].m = m)
    PROVE  \A q \in Peer : NoNewFrames(q, t, m)
  <1> SUFFICES ASSUME NEW q \in Peer PROVE NoNewFrames(q, t, m)
    OBVIOUS
  <1>1. \A i \in DOMAIN net[q] : i + 0 = i
    BY DEF TypeOK
  <1>2. \A i \in DOMAIN net'[q] :
           net'[q][i].t = t /\ net'[q][i].m = m =>
              i + 0 \in DOMAIN net[q] /\ net[q][i + 0] = net'[q][i]
    BY <1>1, QueueAfterSend
  <1> QED BY <1>2 DEF NoNewFrames

(* Nothing but a send adds frames.                                          *)
LEMMA OthersAddNone ==
    ASSUME TypeOK,
           \/ UNCHANGED net
           \/ \E p \in Peer : \/ net' = [net EXCEPT ![p] = << >>]
                              \/ Delivered(p)
    PROVE  \A q \in Peer : \A t, m : NoNewFrames(q, t, m)
  <1> SUFFICES ASSUME NEW q \in Peer, NEW t, NEW m PROVE NoNewFrames(q, t, m)
    OBVIOUS
  <1>1. CASE net'[q] = net[q]
    <2>1. \A i \in DOMAIN net[q] : i + 0 = i
      BY DEF TypeOK
    <2> QED BY <1>1, <2>1 DEF NoNewFrames
  <1>2. CASE net'[q] = << >>
    BY <1>2 DEF NoNewFrames
  <1>3. ASSUME Delivered(q) PROVE NoNewFrames(q, t, m)
    <2>1. \A i \in DOMAIN net'[q] : i + 1 \in DOMAIN net[q] /\ net[q][i + 1] = net'[q][i]
      BY <1>3, QueueAfterArrival
    <2> QED BY <2>1 DEF NoNewFrames
  <1>4. ASSUME NEW p \in Peer, Delivered(p), p # q PROVE net'[q] = net[q]
    BY <1>4 DEF Delivered, TypeOK
  <1> QED BY <1>1, <1>2, <1>3, <1>4 DEF TypeOK

(* A step that adds no frame of a text, decrypts none, and shows it no more *)
(* often, leaves it in one place.                                           *)
LEMMA TextStaysOnce ==
    ASSUME TypeOK, TypeOK', NEW m \in Text, TextOnce(m),
           \A q \in Peer :
              /\ NoNewFrames(q, "m", m)
              /\ \A f \in opening'[q] : TextFrame(f, m) => f \in opening[q],
           shown'[m] = shown[m],
           stage[m] = "sent" => stage'[m] = "sent"
    PROVE  TextOnce(m)'
  <1> SUFFICES ASSUME NEW q \in Peer
               PROVE  /\ \A i \in DOMAIN net'[q] :
                            TextFrame(net'[q][i], m) =>
                               /\ stage'[m] = "sent" /\ q = Other(Author[m]) /\ shown'[m] = 0
                               /\ \A j \in DOMAIN net'[q] : TextFrame(net'[q][j], m) => i = j
                               /\ \A f \in opening'[q] : ~TextFrame(f, m)
                      /\ \A f \in opening'[q] :
                            TextFrame(f, m) =>
                               /\ stage'[m] = "sent" /\ q = Other(Author[m]) /\ shown'[m] = 0
                               /\ \A g \in opening'[q] : TextFrame(g, m) => f = g
    BY DEF TextOnce, TextFrame
  <1>1. PICK d \in Nat :
           \A i \in DOMAIN net'[q] :
              TextFrame(net'[q][i], m) =>
                 i + d \in DOMAIN net[q] /\ TextFrame(net[q][i + d], m)
    BY DEF NoNewFrames, TextFrame
  <1>2. \A i, j \in DOMAIN net'[q] :
           TextFrame(net'[q][i], m) /\ TextFrame(net'[q][j], m) => i + d = j + d
    BY <1>1 DEF TextOnce
  <1>3. \A i, j \in DOMAIN net'[q] : i + d = j + d => i = j
    BY DEF TypeOK
  <1>4. \A f \in opening'[q] : TextFrame(f, m) => f \in opening[q]
    OBVIOUS
  <1>5. ASSUME NEW i \in DOMAIN net'[q], TextFrame(net'[q][i], m)
        PROVE  /\ stage[m] = "sent" /\ q = Other(Author[m]) /\ shown[m] = 0
               /\ \A f \in opening[q] : ~TextFrame(f, m)
    <2>1. i + d \in DOMAIN net[q] /\ TextFrame(net[q][i + d], m)
      BY <1>1, <1>5
    <2> QED BY <2>1 DEF TextOnce
  <1>6. \A f \in opening[q] :
           TextFrame(f, m) =>
              /\ stage[m] = "sent" /\ q = Other(Author[m]) /\ shown[m] = 0
              /\ \A g \in opening[q] : TextFrame(g, m) => f = g
    BY DEF TextOnce
  <1> QED BY <1>2, <1>3, <1>4, <1>5, <1>6

(* The same of an attachment: a step that adds no chunk of it anywhere, and *)
(* shows it no more often.                                                  *)
LEMMA FileStaysOnce ==
    ASSUME TypeOK, TypeOK', NEW f \in File, FirstChunkOnce(f), ChunksWereSent(f),
           \A q \in Peer :
              /\ NoNewFrames(q, "bin", f)
              /\ \A k \in Nat : Carries(incomingFile'[q], f, k) => Carries(incomingFile[q], f, k)
              /\ \A b \in joining'[q], k \in Nat : Carries(b, f, k) => b \in joining[q],
           shown'[f] = shown[f],
           chunksSent'[f] = chunksSent[f],
           stage[f] = "sent" => stage'[f] = "sent"
    PROVE  FirstChunkOnce(f)' /\ ChunksWereSent(f)'
  <1>1. ASSUME NEW q \in Peer
        PROVE  /\ \A i \in DOMAIN net'[q] :
                     Chunk(net'[q][i], f, 1) =>
                        /\ q = Other(Author[f]) /\ shown'[f] = 0
                        /\ \A j \in DOMAIN net'[q] : Chunk(net'[q][j], f, 1) => i = j
                        /\ ~Carries(incomingFile'[q], f, 1)
                        /\ \A b \in joining'[q] : ~Carries(b, f, 1)
               /\ \A i \in DOMAIN net'[q], k \in Nat :
                     Chunk(net'[q][i], f, k) => k <= chunksSent[f]
    <2>1. PICK d \in Nat :
             \A i \in DOMAIN net'[q], k \in Nat :
                Chunk(net'[q][i], f, k) =>
                   i + d \in DOMAIN net[q] /\ Chunk(net[q][i + d], f, k)
      BY DEF NoNewFrames, Chunk
    <2>2. \A i, j \in DOMAIN net'[q] : i + d = j + d => i = j
      BY DEF TypeOK
    <2>3. ASSUME NEW i \in DOMAIN net'[q], Chunk(net'[q][i], f, 1)
          PROVE  /\ q = Other(Author[f]) /\ shown[f] = 0
                 /\ \A j \in DOMAIN net'[q] : Chunk(net'[q][j], f, 1) => i + d = j + d
                 /\ ~Carries(incomingFile[q], f, 1)
                 /\ \A b \in joining[q] : ~Carries(b, f, 1)
      <3>1. i + d \in DOMAIN net[q] /\ Chunk(net[q][i + d], f, 1)
        BY <2>1, <2>3
      <3> QED BY <2>1, <3>1 DEF FirstChunkOnce
    <2>4. ASSUME NEW i \in DOMAIN net'[q], NEW k \in Nat, Chunk(net'[q][i], f, k)
          PROVE  k <= chunksSent[f]
      BY <2>1, <2>4 DEF ChunksWereSent
    <2> QED BY <2>2, <2>3, <2>4
  <1>2. ASSUME NEW q \in Peer
        PROVE  /\ Carries(incomingFile'[q], f, 1) =>
                     /\ q = Other(Author[f]) /\ shown'[f] = 0
                     /\ \A b \in joining'[q] : ~Carries(b, f, 1)
               /\ \A b \in joining'[q] :
                     Carries(b, f, 1) =>
                        /\ q = Other(Author[f]) /\ shown'[f] = 0
                        /\ \A c \in joining'[q] : Carries(c, f, 1) => b = c
    BY DEF FirstChunkOnce
  <1>3. FirstChunkOnce(f)'
    BY <1>1, <1>2 DEF FirstChunkOnce, Chunk, Carries
  <1>4. ChunksWereSent(f)'
    BY <1>1 DEF ChunksWereSent, Chunk, Carries
  <1> QED BY <1>3, <1>4

(* An attachment is sent once its last chunk is, never before.              *)
LEMMA SentStays ==
    ASSUME TypeOK, [Next]_vars, NEW m \in Msg, stage[m] = "sent"
    PROVE  stage'[m] = "sent"
  BY SentInThisStep DEF TypeOK

(* A sending step other than a text's own frame, or a chunk.                *)
LEMMA SendKeepsDeliveredOnce ==
    ASSUME TypeOK, TypeOK', DeliveredOnce, [Next]_vars,
           UNCHANGED recvVars, UNCHANGED chunksSent,
           \/ UNCHANGED net
           \/ \E p \in Peer, s \in Seq(Frame) :
                 Send(p, s) /\ \A i \in DOMAIN s : s[i].t \notin {"m", "bin"}
    PROVE  DeliveredOnce'
  <1>1. \A m : \A q \in Peer : NoNewFrames(q, "m", m) /\ NoNewFrames(q, "bin", m)
    BY SendAddsNone, OthersAddNone
  <1>2. ASSUME NEW m \in Text PROVE TextOnce(m)'
    BY <1>1, TextStaysOnce, SentStays DEF DeliveredOnce, recvVars, Msg
  <1>3. ASSUME NEW f \in File PROVE FirstChunkOnce(f)' /\ ChunksWereSent(f)'
    BY <1>1, FileStaysOnce, SentStays DEF DeliveredOnce, recvVars, Msg
  <1> QED BY <1>2, <1>3 DEF DeliveredOnce

(* The frame of a text goes out: it is the first of its kind.               *)
LEMMA TextGoesOutOnce ==
    ASSUME TypeOK, TypeOK', DeliveredOnce, [Next]_vars,
           NEW m \in Text, TextEncrypted(m), CanSend(Author[m])
    PROVE  DeliveredOnce'
  <1> DEFINE s == <<SealedFrame(m), Plain("ack", m, 0)>>
  <1>1. /\ s \in Seq(Frame) /\ Author[m] \in Peer /\ m \in Msg
        /\ Send(Author[m], s) /\ stage' = [stage EXCEPT ![m] = "sent"]
        /\ stage[m] # "sent"
        /\ UNCHANGED recvVars /\ UNCHANGED chunksSent
    BY FrameTypes DEF TextEncrypted, Msg
  <1>2. \A i \in DOMAIN s : /\ s[i].t # "bin"
                            /\ s[i].t = "m" => i = 1 /\ s[i].m = m
    BY MsgAssumption DEF SealedFrame, Plain
  <1>3. ASSUME NEW f \in File PROVE FirstChunkOnce(f)' /\ ChunksWereSent(f)'
    <2>1. \A q \in Peer : NoNewFrames(q, "bin", f)
      <3> HIDE DEF s
      <3> QED BY <1>1, <1>2, SendAddsNone
    <2> QED BY <1>1, <2>1, FileStaysOnce, SentStays DEF DeliveredOnce, recvVars, Msg
  <1>4. ASSUME NEW n \in Text, n # m PROVE TextOnce(n)'
    <2>1. \A q \in Peer : NoNewFrames(q, "m", n)
      <3> HIDE DEF s
      <3> QED BY <1>1, <1>2, <1>4, SendAddsNone
    <2> QED BY <1>1, <2>1, TextStaysOnce, SentStays DEF DeliveredOnce, recvVars, Msg
  <1>5. TextOnce(m)'
    <2>1. \A q \in Peer : /\ \A i \in DOMAIN net[q] : ~TextFrame(net[q][i], m)
                          /\ \A f \in opening[q] : ~TextFrame(f, m)
      BY <1>1 DEF DeliveredOnce, TextOnce
    <2>2. shown'[m] = 0 /\ stage'[m] = "sent" /\ UNCHANGED opening
      BY <1>1 DEF TypeOK, recvVars, DeliveredOnce, TextOnce
    <2>3. \A q \in Peer : \A i \in DOMAIN net'[q] :
             TextFrame(net'[q][i], m) => q = Other(Author[m]) /\ i = Len(net[q]) + 1
      <3> HIDE DEF s
      <3> SUFFICES ASSUME NEW q \in Peer, NEW i \in DOMAIN net'[q], TextFrame(net'[q][i], m)
                   PROVE  q = Other(Author[m]) /\ i = Len(net[q]) + 1
        OBVIOUS
      <3>1. /\ q = Other(Author[m]) /\ i - Len(net[q]) \in DOMAIN s
            /\ net'[q][i] = s[i - Len(net[q])]
        BY <1>1, <2>1, QueueAfterSend
      <3>2. i - Len(net[q]) = 1
        BY <1>2, <3>1 DEF TextFrame
      <3>3. i \in Nat /\ Len(net[q]) \in Nat
        BY DEF TypeOK
      <3> QED BY <3>1, <3>2, <3>3
    <2> QED BY <2>1, <2>2, <2>3 DEF TextOnce, TextFrame
  <1> QED BY <1>3, <1>4, <1>5 DEF DeliveredOnce

(* A chunk goes out: the first one is the first of its kind.                *)
LEMMA ChunkGoesOutOnce ==
    ASSUME TypeOK, TypeOK', DeliveredOnce, [Next]_vars,
           NEW f \in File, SendChunk(f), CanSend(Author[f])
    PROVE  DeliveredOnce'
  <1> DEFINE k == chunksSent[f] + 1
             last == k = Chunks[f]
             chunk == Plain("bin", f, k)
             s == IF last THEN <<chunk, Plain("fe", f, 0), Plain("ack", f, 0)>>
                          ELSE <<chunk>>
  <1>1. /\ Author[f] \in Peer /\ f \in Msg /\ k \in Nat
        /\ chunksSent \in [File -> Nat] /\ stage \in [Msg -> Stage] /\ Chunks[f] \in Nat \ {0}
    <2>1. chunksSent \in [File -> Nat] /\ stage \in [Msg -> Stage]
      BY DEF TypeOK
    <2>2. Author[f] \in Peer /\ f \in Msg
      BY FrameTypes DEF Msg
    <2>3. Chunks[f] \in Nat \ {0}
      BY MsgAssumption
    <2> QED BY <2>1, <2>2, <2>3
  <1>2. /\ stage[f] = "sending" /\ chunksSent' = [chunksSent EXCEPT ![f] = k]
        /\ stage' = [stage EXCEPT ![f] = IF last THEN "sent" ELSE "sending"]
        /\ Send(Author[f], s) /\ UNCHANGED recvVars
    BY DEF SendChunk
  <1>3. s \in Seq(Frame)
    BY <1>1, FrameTypes
  <1>4. \A i \in DOMAIN s : /\ s[i].t # "m"
                            /\ s[i].t = "bin" => i = 1 /\ s[i].m = f /\ s[i].k = k
    BY DEF Plain
  <1> HIDE DEF s
  <1>5. ASSUME NEW m \in Text PROVE TextOnce(m)'
    <2>1. \A q \in Peer : NoNewFrames(q, "m", m)
      BY <1>1, <1>2, <1>3, <1>4, SendAddsNone
    <2> QED BY <1>2, <2>1, TextStaysOnce, SentStays DEF DeliveredOnce, recvVars, Msg
  <1>6. ASSUME NEW g \in File, g # f PROVE FirstChunkOnce(g)' /\ ChunksWereSent(g)'
    <2>1. \A q \in Peer : NoNewFrames(q, "bin", g)
      BY <1>1, <1>2, <1>3, <1>4, <1>6, SendAddsNone
    <2>2. chunksSent'[g] = chunksSent[g]
      BY <1>1, <1>2, <1>6
    <2> QED BY <1>2, <2>1, <2>2, FileStaysOnce, SentStays DEF DeliveredOnce, recvVars, Msg
  <1>7. chunksSent[f] < Chunks[f] /\ ChunksWereSent(f) /\ FirstChunkOnce(f)
    BY <1>1, <1>2 DEF DeliveredOnce, ChunksWereSent
  <1>8. ASSUME NEW q \in Peer, NEW i \in DOMAIN net'[q], NEW n \in Nat, Chunk(net'[q][i], f, n)
        PROVE  \/ i \in DOMAIN net[q] /\ Chunk(net[q][i], f, n)
               \/ q = Other(Author[f]) /\ i = Len(net[q]) + 1 /\ n = k
    <2>1. CASE i \in DOMAIN net[q] /\ net'[q][i] = net[q][i]
      BY <1>8, <2>1
    <2>2. CASE q = Other(Author[f]) /\ i - Len(net[q]) \in DOMAIN s
               /\ net'[q][i] = s[i - Len(net[q])]
      <3>1. i - Len(net[q]) = 1 /\ n = k
        BY <1>4, <1>8, <2>2 DEF Chunk
      <3>2. i \in Nat /\ Len(net[q]) \in Nat
        BY DEF TypeOK
      <3> QED BY <2>2, <3>1, <3>2
    <2> QED BY <1>1, <1>2, <1>3, <2>1, <2>2, QueueAfterSend
  <1>9. ChunksWereSent(f)'
    <2>1. /\ chunksSent'[f] = k /\ k <= Chunks[f] /\ k # 0 /\ chunksSent[f] < k
          /\ k = Chunks[f] => stage'[f] = "sent"
          /\ UNCHANGED <<incomingFile, joining>>
      BY <1>1, <1>2, <1>7 DEF recvVars
    <2>2. ASSUME NEW q \in Peer, NEW n \in Nat,
                 \/ \E i \in DOMAIN net'[q] : Chunk(net'[q][i], f, n)
                 \/ Carries(incomingFile'[q], f, n)
                 \/ \E b \in joining'[q] : Carries(b, f, n)
          PROVE  n <= k
      <3>1. n <= chunksSent[f] \/ n = k
        BY <1>7, <1>8, <2>1, <2>2 DEF ChunksWereSent
      <3> QED BY <1>1, <2>1, <3>1
    <2> QED BY <2>1, <2>2 DEF ChunksWereSent, Chunk, Carries
  <1>10. FirstChunkOnce(f)'
    <2>1. UNCHANGED <<incomingFile, joining, shown>>
      BY <1>2 DEF recvVars
    <2>2. CASE k = 1
      <3>1. chunksSent[f] = 0 /\ shown[f] = 0
        BY <1>1, <1>7, <2>2 DEF ChunksWereSent
      <3>2. \A q \in Peer : /\ \A i \in DOMAIN net[q] : ~Chunk(net[q][i], f, 1)
                            /\ ~Carries(incomingFile[q], f, 1)
                            /\ \A b \in joining[q] : ~Carries(b, f, 1)
        BY <1>7, <3>1 DEF ChunksWereSent
      <3>3. \A q \in Peer : \A i \in DOMAIN net'[q] :
               Chunk(net'[q][i], f, 1) => q = Other(Author[f]) /\ i = Len(net[q]) + 1
        BY <1>8, <3>2
      <3> QED BY <2>1, <3>1, <3>2, <3>3 DEF FirstChunkOnce, Chunk, Carries
    <2>3. CASE k # 1
      <3>1. \A q \in Peer : \A i \in DOMAIN net'[q] :
               Chunk(net'[q][i], f, 1) => i \in DOMAIN net[q] /\ Chunk(net[q][i], f, 1)
        BY <1>8, <2>3
      <3> QED BY <1>7, <2>1, <3>1 DEF FirstChunkOnce, Chunk, Carries
    <2> QED BY <2>2, <2>3
  <1> QED BY <1>5, <1>6, <1>9, <1>10 DEF DeliveredOnce

(* A sealed frame arrives: a text moves from the queue to the decryptions   *)
(* in flight, or is refused.                                                *)
LEMMA SealedStaysOnce ==
    ASSUME TypeOK, TypeOK', DeliveredOnce, NEW p \in Peer, ReceiveSealed(p)
    PROVE  DeliveredOnce'
  <1> DEFINE h == Head(net[p])
  <1>1. /\ Delivered(p) /\ h.t \in Sealed
        /\ UNCHANGED <<sendVars, incomingFile, joining, shown>>
        /\ \/ opening' = [opening EXCEPT ![p] = @ \cup {h}]
           \/ UNCHANGED opening
    BY DEF ReceiveSealed, Arrives
  <1>2. \A q \in Peer : \A t, m : NoNewFrames(q, t, m)
    BY <1>1, OthersAddNone
  <1>3. ASSUME NEW f \in File PROVE FirstChunkOnce(f)' /\ ChunksWereSent(f)'
    BY <1>1, <1>2, FileStaysOnce DEF DeliveredOnce, sendVars
  <1>4. ASSUME NEW m \in Text PROVE TextOnce(m)'
    <2>1. opening \in [Peer -> SUBSET SealedFrames] /\ TextOnce(m)
      BY DEF TypeOK, DeliveredOnce
    <2>2. CASE ~TextFrame(h, m) \/ UNCHANGED opening
      <3>1. \A q \in Peer : \A f \in opening'[q] : TextFrame(f, m) => f \in opening[q]
        BY <1>1, <2>1, <2>2
      <3> QED BY <1>1, <1>2, <2>1, <3>1, TextStaysOnce DEF sendVars
    <2>3. CASE TextFrame(h, m) /\ opening' = [opening EXCEPT ![p] = @ \cup {h}]
      <3>1. 1 \in DOMAIN net[p] /\ h = net[p][1]
        BY <1>1, QueueAfterArrival
      <3>2. /\ stage[m] = "sent" /\ p = Other(Author[m]) /\ shown[m] = 0
            /\ \A j \in DOMAIN net[p] : TextFrame(net[p][j], m) => j = 1
            /\ \A f \in opening[p] : ~TextFrame(f, m)
        BY <2>1, <2>3, <3>1 DEF TextOnce
      <3>3. \A i \in DOMAIN net'[p] : ~TextFrame(net'[p][i], m)
        BY <1>1, <3>2, QueueAfterArrival
      <3>4. \A q \in Peer : q # p => net'[q] = net[q] /\ opening'[q] = opening[q]
        BY <1>1, <2>1, <2>3, QueueAfterArrival
      <3>5. \A f \in opening'[p] : TextFrame(f, m) => f = h
        BY <2>1, <2>3, <3>2
      <3>6. \A q \in Peer : q # p => /\ \A i \in DOMAIN net[q] : ~TextFrame(net[q][i], m)
                                    /\ \A f \in opening[q] : ~TextFrame(f, m)
        BY <2>1, <3>2 DEF TextOnce
      <3> QED BY <1>1, <3>2, <3>3, <3>4, <3>5, <3>6 DEF TextOnce, TextFrame, sendVars
    <2> QED BY <1>1, <2>2, <2>3
  <1> QED BY <1>3, <1>4 DEF DeliveredOnce

(* Appending a chunk to a buffer.                                           *)
LEMMA CarriesAfterAppend ==
    ASSUME NEW s \in Seq(File \X Nat), NEW e \in File \X Nat, NEW f, NEW k
    PROVE  (\E i \in DOMAIN Append(s, e) : Append(s, e)[i] = <<f, k>>)
              <=> (\E i \in DOMAIN s : s[i] = <<f, k>>) \/ e = <<f, k>>
  <1>1. /\ DOMAIN Append(s, e) = 1..(Len(s) + 1) /\ DOMAIN s = 1..Len(s) /\ Len(s) \in Nat
        /\ \A i \in 1..Len(s) : Append(s, e)[i] = s[i]
        /\ Append(s, e)[Len(s) + 1] = e
    OBVIOUS
  <1>2. \A i \in 1..(Len(s) + 1) : i \in 1..Len(s) \/ i = Len(s) + 1
    BY <1>1
  <1>3. Len(s) + 1 \in 1..(Len(s) + 1) /\ \A i \in 1..Len(s) : i \in 1..(Len(s) + 1)
    BY <1>1
  <1> QED BY <1>1, <1>2, <1>3

(* A chunk arrives: it moves from the queue to the buffer, or is dropped.   *)
LEMMA ChunkStaysOnce ==
    ASSUME TypeOK, TypeOK', DeliveredOnce, NEW p \in Peer, ReceiveChunk(p)
    PROVE  DeliveredOnce'
  <1> DEFINE h == Head(net[p])
  <1>1. /\ Delivered(p) /\ h.t = "bin"
        /\ UNCHANGED <<sendVars, opening, joining, shown>>
    BY DEF ReceiveChunk, Arrives
  <1>2. \A q \in Peer : \A t, m : NoNewFrames(q, t, m)
    BY <1>1, OthersAddNone
  <1>3. ASSUME NEW m \in Text PROVE TextOnce(m)'
    BY <1>1, <1>2, <1>3, TextStaysOnce DEF DeliveredOnce, sendVars
  <1>4. CASE incomingFile[p].file = NoFile
    <2>1. UNCHANGED incomingFile
      BY <1>4 DEF ReceiveChunk
    <2>2. ASSUME NEW f \in File PROVE FirstChunkOnce(f)' /\ ChunksWereSent(f)'
      BY <1>1, <1>2, <2>1, FileStaysOnce DEF DeliveredOnce, sendVars
    <2> QED BY <1>3, <2>2 DEF DeliveredOnce
  <1>5. CASE incomingFile[p].file # NoFile
    <2>1. /\ h \in Frame /\ h.t = "bin" /\ <<h.m, h.k>> \in File \X Nat
          /\ 1 \in DOMAIN net[p] /\ h = net[p][1]
      <3>1. h \in Frame /\ h.t = "bin" /\ 1 \in DOMAIN net[p] /\ h = net[p][1]
        BY <1>1, ArrivesTypes, QueueAfterArrival
      <3> QED BY <3>1 DEF Frame
    <2>2. incomingFile[p] \in Buffer /\ incomingFile[p].chunks \in Seq(File \X Nat)
      BY <1>5 DEF TypeOK, NoBuffer, Buffer
    <2>3. /\ incomingFile'[p].chunks = Append(incomingFile[p].chunks, <<h.m, h.k>>)
          /\ \A q \in Peer : q # p => incomingFile'[q] = incomingFile[q]
      <3>1. incomingFile' = [incomingFile EXCEPT ![p].chunks = Append(@, <<h.m, h.k>>)]
        BY <1>5 DEF ReceiveChunk
      <3>2. incomingFile' = [incomingFile EXCEPT
               ![p] = [incomingFile[p] EXCEPT !.chunks = Append(@, <<h.m, h.k>>)]]
        BY <3>1
      <3> QED BY <2>2, <3>2 DEF TypeOK, Buffer
    <2>4. \A f, k : Carries(incomingFile'[p], f, k)
                       <=> Carries(incomingFile[p], f, k) \/ Chunk(h, f, k)
      <3> DEFINE e == <<h.m, h.k>>
                 s == incomingFile[p].chunks
      <3>1. e \in File \X Nat /\ s \in Seq(File \X Nat) /\ incomingFile'[p].chunks = Append(s, e)
        BY <2>1, <2>2, <2>3
      <3>2. \A f, k : e = <<f, k>> <=> Chunk(h, f, k)
        BY <2>1 DEF Chunk
      <3>3. \A f, k : /\ Carries(incomingFile'[p], f, k)
                           <=> \E i \in DOMAIN Append(s, e) : Append(s, e)[i] = <<f, k>>
                      /\ Carries(incomingFile[p], f, k) <=> \E i \in DOMAIN s : s[i] = <<f, k>>
        BY <3>1 DEF Carries
      <3> HIDE DEF e, s
      <3>4. \A f, k : (\E i \in DOMAIN Append(s, e) : Append(s, e)[i] = <<f, k>>)
                          <=> (\E i \in DOMAIN s : s[i] = <<f, k>>) \/ e = <<f, k>>
        BY <3>1, CarriesAfterAppend
      <3> QED BY <3>2, <3>3, <3>4
    <2>5. ASSUME NEW f \in File, f # h.m PROVE FirstChunkOnce(f)' /\ ChunksWereSent(f)'
      <3>1. \A q \in Peer, k \in Nat :
               Carries(incomingFile'[q], f, k) => Carries(incomingFile[q], f, k)
        BY <2>3, <2>4, <2>5 DEF Chunk
      <3> QED BY <1>1, <1>2, <3>1, FileStaysOnce DEF DeliveredOnce, sendVars
    <2>6. ASSUME NEW f \in File, f = h.m PROVE FirstChunkOnce(f)' /\ ChunksWereSent(f)'
      <3>1. /\ FirstChunkOnce(f) /\ ChunksWereSent(f)
            /\ UNCHANGED <<joining, shown, chunksSent, stage>>
        BY <1>1 DEF DeliveredOnce, sendVars
      <3>2. /\ \A q \in Peer : q # p => net'[q] = net[q]
            /\ \A i \in DOMAIN net'[p] : i + 1 \in DOMAIN net[p] /\ net'[p][i] = net[p][i + 1]
                                         /\ i + 1 # 1
        BY <1>1, QueueAfterArrival
      <3>3. ChunksWereSent(f)'
        <4>1. ASSUME NEW q \in Peer, NEW k \in Nat,
                     \/ \E i \in DOMAIN net'[q] : Chunk(net'[q][i], f, k)
                     \/ Carries(incomingFile'[q], f, k)
                     \/ \E b \in joining'[q] : Carries(b, f, k)
              PROVE  k <= chunksSent[f]
          <5>1. \/ \E i \in DOMAIN net[q] : Chunk(net[q][i], f, k)
                \/ Carries(incomingFile[q], f, k)
                \/ \E b \in joining[q] : Carries(b, f, k)
            BY <2>1, <2>3, <2>4, <3>1, <3>2, <4>1
          <5> QED BY <3>1, <5>1 DEF ChunksWereSent
        <4> QED BY <3>1, <4>1 DEF ChunksWereSent, Chunk, Carries
      <3>4. CASE h.k # 1
        <4>1. ~Chunk(h, f, 1)
          BY <3>4 DEF Chunk
        <4>2. \A q \in Peer : Carries(incomingFile'[q], f, 1) => Carries(incomingFile[q], f, 1)
          BY <2>3, <2>4, <4>1
        <4>3. FirstChunkOnce(f)'
          <5>1. ASSUME NEW q \in Peer, NEW i \in DOMAIN net'[q], NEW j \in DOMAIN net'[q],
                       Chunk(net'[q][i], f, 1)
                PROVE  /\ Chunk(net'[q][j], f, 1) => i = j
                       /\ q = Other(Author[f]) /\ shown[f] = 0
                       /\ ~Carries(incomingFile[q], f, 1)
                       /\ \A b \in joining[q] : ~Carries(b, f, 1)
            <6>1. CASE q = p
              <7>1. /\ Chunk(net[p][i + 1], f, 1) /\ i + 1 \in DOMAIN net[p]
                    /\ j + 1 \in DOMAIN net[p] /\ net'[p][j] = net[p][j + 1]
                BY <3>2, <5>1, <6>1
              <7>2. i + 1 = j + 1 => i = j
                BY <6>1 DEF TypeOK
              <7> QED BY <3>1, <6>1, <7>1, <7>2 DEF FirstChunkOnce
            <6>2. CASE q # p
              BY <3>1, <3>2, <5>1, <6>2 DEF FirstChunkOnce
            <6> QED BY <6>1, <6>2
          <5>2. ASSUME NEW q \in Peer
                PROVE  /\ Carries(incomingFile'[q], f, 1) =>
                             /\ q = Other(Author[f]) /\ shown[f] = 0
                             /\ \A b \in joining[q] : ~Carries(b, f, 1)
                       /\ \A b \in joining[q] :
                             Carries(b, f, 1) =>
                                /\ q = Other(Author[f]) /\ shown[f] = 0
                                /\ \A c \in joining[q] : Carries(c, f, 1) => b = c
            BY <3>1, <4>2 DEF FirstChunkOnce
          <5>3. \A q \in Peer : ~Carries(incomingFile[q], f, 1) => ~Carries(incomingFile'[q], f, 1)
            BY <4>2
          <5> QED BY SMTT(30), <3>1, <5>1, <5>2, <5>3 DEF FirstChunkOnce, Chunk, Carries
        <4> QED BY <3>3, <4>3
      <3>5. CASE h.k = 1
        <4>1. Chunk(h, f, 1)
          BY <2>1, <2>6, <3>5 DEF Chunk
        <4>2. /\ p = Other(Author[f]) /\ shown[f] = 0
              /\ \A j \in DOMAIN net[p] : Chunk(net[p][j], f, 1) => j = 1
              /\ \A b \in joining[p] : ~Carries(b, f, 1)
          BY <2>1, <3>1, <4>1 DEF FirstChunkOnce
        <4>3. \A i \in DOMAIN net'[p] : ~Chunk(net'[p][i], f, 1)
          BY <3>2, <4>2
        <4>4. \A q \in Peer : q # p => /\ \A i \in DOMAIN net[q] : ~Chunk(net[q][i], f, 1)
                                      /\ ~Carries(incomingFile[q], f, 1)
                                      /\ \A b \in joining[q] : ~Carries(b, f, 1)
          BY <3>1, <4>2 DEF FirstChunkOnce
        <4>5. FirstChunkOnce(f)'
          <5>1. \A q \in Peer : q # p => /\ \A i \in DOMAIN net'[q] : ~Chunk(net'[q][i], f, 1)
                                        /\ ~Carries(incomingFile'[q], f, 1)
            BY <2>3, <3>2, <4>4
          <5>2. shown'[f] = 0 /\ \A q \in Peer : joining'[q] = joining[q]
            BY <3>1, <4>2
          <5>3. ASSUME NEW q \in Peer
                PROVE  /\ \A i \in DOMAIN net'[q] : ~Chunk(net'[q][i], f, 1)
                       /\ \A b \in joining'[q] : ~Carries(b, f, 1)
                       /\ q # p => ~Carries(incomingFile'[q], f, 1)
            BY <4>2, <4>3, <4>4, <5>1, <5>2
          <5> QED BY <4>2, <5>2, <5>3 DEF FirstChunkOnce, Chunk, Carries
        <4> QED BY <3>3, <4>5
      <3> QED BY <3>4, <3>5
    <2> QED BY <1>3, <2>5, <2>6 DEF DeliveredOnce
  <1> QED BY <1>4, <1>5

(* An "fe" arrives: the buffer goes to decryption, or is discarded.         *)
LEMMA FileEndStaysOnce ==
    ASSUME TypeOK, TypeOK', DeliveredOnce, NEW p \in Peer, ReceiveFileEnd(p)
    PROVE  DeliveredOnce'
  <1>1. /\ Delivered(p)
        /\ incomingFile' = [incomingFile EXCEPT ![p] = NoBuffer]
        /\ \/ joining' = [joining EXCEPT ![p] = @ \cup {incomingFile[p]}]
           \/ UNCHANGED joining
        /\ UNCHANGED <<sendVars, opening, shown>>
    BY DEF ReceiveFileEnd, Arrives
  <1>2. \A q \in Peer : \A t, m : NoNewFrames(q, t, m)
    BY <1>1, OthersAddNone
  <1>3. ASSUME NEW m \in Text PROVE TextOnce(m)'
    BY <1>1, <1>2, <1>3, TextStaysOnce DEF DeliveredOnce, sendVars
  <1>4. /\ \A f, k : ~Carries(incomingFile'[p], f, k)
        /\ \A q \in Peer : q # p => incomingFile'[q] = incomingFile[q] /\ joining'[q] = joining[q]
        /\ \A b \in joining'[p] : b \in joining[p] \/ b = incomingFile[p]
    BY <1>1 DEF TypeOK, NoBuffer, Carries
  <1>5. ASSUME NEW f \in File PROVE FirstChunkOnce(f)' /\ ChunksWereSent(f)'
    <2>1. /\ FirstChunkOnce(f) /\ ChunksWereSent(f)
          /\ UNCHANGED <<shown, chunksSent, stage>>
      BY <1>1 DEF DeliveredOnce, sendVars
    <2>2. \A q \in Peer : q # p => net'[q] = net[q]
      BY <1>1, QueueAfterArrival
    <2>3. \A i \in DOMAIN net'[p] : i + 1 \in DOMAIN net[p] /\ net'[p][i] = net[p][i + 1]
      BY <1>1, QueueAfterArrival
    <2>4. ChunksWereSent(f)'
      <3>1. ASSUME NEW q \in Peer, NEW k \in Nat,
                   \/ \E i \in DOMAIN net'[q] : Chunk(net'[q][i], f, k)
                   \/ Carries(incomingFile'[q], f, k)
                   \/ \E b \in joining'[q] : Carries(b, f, k)
            PROVE  k <= chunksSent[f]
        <4>1. \/ \E i \in DOMAIN net[q] : Chunk(net[q][i], f, k)
              \/ Carries(incomingFile[q], f, k)
              \/ \E b \in joining[q] : Carries(b, f, k)
          BY <1>4, <2>2, <2>3, <3>1
        <4> QED BY <2>1, <4>1 DEF ChunksWereSent
      <3> QED BY <2>1, <3>1 DEF ChunksWereSent, Chunk, Carries
    <2>5. FirstChunkOnce(f)'
      <3>1. ASSUME NEW q \in Peer, NEW i \in DOMAIN net'[q], NEW j \in DOMAIN net'[q],
                   Chunk(net'[q][i], f, 1)
            PROVE  /\ Chunk(net'[q][j], f, 1) => i = j
                   /\ q = Other(Author[f]) /\ shown[f] = 0
                   /\ ~Carries(incomingFile'[q], f, 1)
                   /\ \A b \in joining'[q] : ~Carries(b, f, 1)
        <4>1. CASE q = p
          <5>1. /\ Chunk(net[p][i + 1], f, 1) /\ i + 1 \in DOMAIN net[p]
                /\ j + 1 \in DOMAIN net[p] /\ net'[p][j] = net[p][j + 1]
            BY <2>3, <3>1, <4>1
          <5>2. i + 1 = j + 1 => i = j
            BY <4>1 DEF TypeOK
          <5>3. /\ ~Carries(incomingFile[p], f, 1) /\ p = Other(Author[f]) /\ shown[f] = 0
                /\ \A b \in joining[p] : ~Carries(b, f, 1)
                /\ Chunk(net'[p][j], f, 1) => i + 1 = j + 1
            BY <2>1, <5>1 DEF FirstChunkOnce
          <5> QED BY <1>4, <4>1, <5>2, <5>3
        <4>2. CASE q # p
          BY <1>4, <2>1, <2>2, <3>1, <4>2 DEF FirstChunkOnce
        <4> QED BY <4>1, <4>2
      <3>2. ASSUME NEW q \in Peer
            PROVE  /\ Carries(incomingFile'[q], f, 1) =>
                         /\ q = Other(Author[f]) /\ shown[f] = 0
                         /\ \A b \in joining'[q] : ~Carries(b, f, 1)
                   /\ \A b \in joining'[q] :
                         Carries(b, f, 1) =>
                            /\ q = Other(Author[f]) /\ shown[f] = 0
                            /\ \A c \in joining'[q] : Carries(c, f, 1) => b = c
        <4>1. CASE q = p
          BY <1>4, <2>1, <4>1 DEF FirstChunkOnce
        <4>2. CASE q # p
          BY <1>4, <2>1, <4>2 DEF FirstChunkOnce
        <4> QED BY <4>1, <4>2
      <3> QED BY <2>1, <3>1, <3>2 DEF FirstChunkOnce, Chunk, Carries
    <2> QED BY <2>4, <2>5
  <1> QED BY <1>3, <1>5 DEF DeliveredOnce

(* A decryption in flight ends: the frame's text is shown, for the first    *)
(* time, and was reported as sent; or a fresh buffer opens.                 *)
LEMMA OpenedOnce ==
    ASSUME TypeOK, TypeOK', DeliveredOnce,
           NEW p \in Peer, NEW f \in opening[p], FrameOpened(p, f)
    PROVE  /\ DeliveredOnce'
           /\ \/ UNCHANGED shown
              \/ \E m \in Text : /\ stage[m] = "sent" /\ shown[m] = 0
                                 /\ shown' = [shown EXCEPT ![m] = @ + 1]
  <1>1. /\ opening' = [opening EXCEPT ![p] = @ \ {f}]
        /\ UNCHANGED <<sendVars, net, joining>>
        /\ f.t = "m" => shown' = [shown EXCEPT ![f.m] = @ + 1] /\ UNCHANGED incomingFile
        /\ f.t # "m" =>
              /\ incomingFile' = [incomingFile EXCEPT ![p] = [file |-> f.m, chunks |-> << >>]]
              /\ UNCHANGED shown
    BY DEF FrameOpened
  <1>2. (f.t = "m" => f.m \in Text) /\ shown \in [Msg -> Nat]
    <2>1. f \in Frame
      BY DEF TypeOK, SealedFrames
    <2> QED BY <2>1 DEF Frame, TypeOK
  <1>3. \A q \in Peer : \A t, m : NoNewFrames(q, t, m)
    BY <1>1, OthersAddNone
  <1>4. \A q \in Peer : opening'[q] \subseteq opening[q]
    BY <1>1 DEF TypeOK
  <1>5. ASSUME NEW g \in File PROVE FirstChunkOnce(g)' /\ ChunksWereSent(g)'
    <2>1. shown'[g] = shown[g] /\ UNCHANGED <<joining, chunksSent, stage>>
      BY <1>1, <1>2, MsgAssumption DEF sendVars, Msg
    <2>2. \A q \in Peer, k \in Nat :
             Carries(incomingFile'[q], g, k) => Carries(incomingFile[q], g, k)
      <3>1. \A q \in Peer : \/ incomingFile'[q] = incomingFile[q]
                           \/ incomingFile'[q].chunks = << >>
        <4>1. CASE f.t = "m"
          BY <1>1, <4>1
        <4>2. CASE f.t # "m"
          BY <1>1, <4>2 DEF TypeOK
        <4> QED BY <4>1, <4>2
      <3> QED BY <3>1 DEF Carries
    <2> QED BY <1>3, <2>1, <2>2, FileStaysOnce DEF DeliveredOnce
  <1>6. ASSUME NEW m \in Text, ~(f.t = "m" /\ f.m = m) PROVE TextOnce(m)'
    <2>1. shown'[m] = shown[m] /\ UNCHANGED stage
      BY <1>1, <1>2, <1>6 DEF sendVars, Msg
    <2> QED BY <1>3, <1>4, <2>1, TextStaysOnce DEF DeliveredOnce
  <1>7. ASSUME NEW m \in Text, f.t = "m", f.m = m
        PROVE  TextOnce(m)' /\ stage[m] = "sent" /\ shown[m] = 0
    <2>1. /\ stage[m] = "sent" /\ p = Other(Author[m]) /\ shown[m] = 0
          /\ \A g \in opening[p] : TextFrame(g, m) => f = g
      BY <1>7 DEF DeliveredOnce, TextOnce, TextFrame
    <2>2. \A q \in Peer : /\ \A i \in DOMAIN net[q] : ~TextFrame(net[q][i], m)
                          /\ \A g \in opening[q] : TextFrame(g, m) => g = f /\ q = p
      BY <1>7, <2>1 DEF DeliveredOnce, TextOnce, TextFrame
    <2>3. \A q \in Peer : \A g \in opening'[q] : ~TextFrame(g, m)
      BY <1>1, <1>4, <2>2 DEF TypeOK
    <2>4. stage'[m] = "sent" /\ UNCHANGED net
      BY <1>1, <2>1 DEF sendVars
    <2> QED BY <2>1, <2>2, <2>3, <2>4 DEF TextOnce, TextFrame
  <1> QED BY <1>1, <1>2, <1>5, <1>6, <1>7 DEF DeliveredOnce

(* An attachment's decryption ends: it is shown, for the first time, and    *)
(* all of it was reported as sent; or it is discarded.                      *)
LEMMA JoinedOnce ==
    ASSUME TypeOK, TypeOK', DeliveredOnce,
           NEW p \in Peer, NEW b \in joining[p], FileJoined(p, b)
    PROVE  /\ DeliveredOnce'
           /\ \/ UNCHANGED shown
              \/ \E m \in File : /\ stage[m] = "sent" /\ shown[m] = 0
                                 /\ shown' = [shown EXCEPT ![m] = @ + 1]
  <1> DEFINE g == b.file
  <1>1. /\ joining' = [joining EXCEPT ![p] = @ \ {b}]
        /\ UNCHANGED <<sendVars, net, opening, incomingFile>>
        /\ \/ UNCHANGED shown
           \/ /\ b.chunks = WholeFile(g)
              /\ shown' = [shown EXCEPT ![g] = @ + 1]
    BY DEF FileJoined
  <1>2. g \in File /\ shown \in [Msg -> Nat] /\ Chunks[g] \in Nat \ {0} /\ g \in Msg
    <2>1. joining \in [Peer -> SUBSET Buffer] /\ shown \in [Msg -> Nat]
      BY DEF TypeOK
    <2>2. b \in Buffer
      BY <2>1
    <2>3. g \in File
      BY <2>2 DEF Buffer
    <2> QED BY <2>1, <2>3, MsgAssumption DEF Msg
  <1>3. \A q \in Peer : \A t, m : NoNewFrames(q, t, m)
    BY <1>1, OthersAddNone
  <1>4. \A q \in Peer : joining'[q] \subseteq joining[q]
    <2>1. joining \in [Peer -> SUBSET Buffer]
      BY DEF TypeOK
    <2> QED BY <1>1, <2>1
  <1>5. ASSUME NEW m \in Text PROVE TextOnce(m)'
    <2>1. shown'[m] = shown[m] /\ UNCHANGED <<stage, opening>>
      BY <1>1, <1>2, MsgAssumption DEF sendVars, Msg
    <2> QED BY <1>3, <2>1, TextStaysOnce DEF DeliveredOnce
  <1>6. ASSUME NEW f \in File, shown'[f] = shown[f]
        PROVE  FirstChunkOnce(f)' /\ ChunksWereSent(f)'
    BY <1>1, <1>3, <1>4, <1>6, FileStaysOnce DEF DeliveredOnce, sendVars
  <1>7. ASSUME ~UNCHANGED shown
        PROVE  /\ FirstChunkOnce(g)' /\ ChunksWereSent(g)'
               /\ stage[g] = "sent" /\ shown[g] = 0
    <2>1. b.chunks = WholeFile(g) /\ shown' = [shown EXCEPT ![g] = @ + 1]
      BY <1>1, <1>7
    <2>2. Carries(b, g, 1) /\ Carries(b, g, Chunks[g])
      <3>1. /\ DOMAIN b.chunks = 1..Chunks[g] /\ 1 \in 1..Chunks[g] /\ Chunks[g] \in 1..Chunks[g]
            /\ \A i \in 1..Chunks[g] : b.chunks[i] = <<g, i>>
        BY <1>2, <2>1 DEF WholeFile
      <3> QED BY <3>1 DEF Carries
    <2>3. FirstChunkOnce(g) /\ ChunksWereSent(g) /\ chunksSent[g] \in Nat
      BY <1>2 DEF DeliveredOnce, TypeOK
    <2>4. stage[g] = "sent" /\ 1 <= chunksSent[g]
      <3>1. Chunks[g] <= chunksSent[g] /\ 1 <= chunksSent[g]
        BY <1>2, <2>2, <2>3 DEF ChunksWereSent
      <3>2. chunksSent[g] = Chunks[g]
        BY <1>2, <2>3, <3>1 DEF ChunksWereSent
      <3> QED BY <2>3, <3>1, <3>2 DEF ChunksWereSent
    <2>5. /\ p = Other(Author[g]) /\ shown[g] = 0
          /\ \A c \in joining[p] : Carries(c, g, 1) => c = b
      BY <2>2, <2>3 DEF FirstChunkOnce
    <2>6. \A q \in Peer : /\ \A i \in DOMAIN net[q] : ~Chunk(net[q][i], g, 1)
                          /\ ~Carries(incomingFile[q], g, 1)
                          /\ \A c \in joining[q] : Carries(c, g, 1) => c = b /\ q = p
      BY <2>2, <2>3, <2>5 DEF FirstChunkOnce
    <2>7. \A q \in Peer : \A c \in joining'[q] : ~Carries(c, g, 1)
      BY <1>1, <1>4, <2>6 DEF TypeOK
    <2>8. FirstChunkOnce(g)'
      BY <1>1, <2>6, <2>7 DEF FirstChunkOnce, Chunk, Carries
    <2>9. ChunksWereSent(g)'
      <3>1. UNCHANGED <<chunksSent, stage, net, incomingFile>>
        BY <1>1 DEF sendVars
      <3> QED BY <1>4, <2>3, <2>4, <3>1 DEF ChunksWereSent, Chunk, Carries
    <2> QED BY <2>4, <2>5, <2>8, <2>9
  <1>8. \A f \in File : f # g => shown'[f] = shown[f]
    BY <1>1, <1>2 DEF Msg
  <1>9. CASE UNCHANGED shown
    BY <1>5, <1>6, <1>9 DEF DeliveredOnce
  <1>10. CASE ~UNCHANGED shown
    BY <1>1, <1>2, <1>5, <1>6, <1>7, <1>8, <1>10 DEF DeliveredOnce
  <1> QED BY <1>9, <1>10

(* A channel closes.                                                        *)
LEMMA ClosingStaysOnce ==
    ASSUME TypeOK, TypeOK', DeliveredOnce,
           \/ UNCHANGED net
           \/ \E p \in Peer : \/ net' = [net EXCEPT ![p] = << >>]
                              \/ Delivered(p),
           UNCHANGED recvVars, UNCHANGED sendVars
    PROVE  DeliveredOnce'
  <1>1. \A q \in Peer : \A t, m : NoNewFrames(q, t, m)
    BY OthersAddNone
  <1>2. ASSUME NEW m \in Text PROVE TextOnce(m)'
    BY <1>1, TextStaysOnce DEF DeliveredOnce, recvVars, sendVars
  <1>3. ASSUME NEW f \in File PROVE FirstChunkOnce(f)' /\ ChunksWereSent(f)'
    BY <1>1, FileStaysOnce DEF DeliveredOnce, recvVars, sendVars
  <1> QED BY <1>2, <1>3 DEF DeliveredOnce

(* Sending steps, one by one.                                               *)
LEMMA SendingStaysOnce ==
    ASSUME TypeOK, TypeOK', DeliveredOnce, [Next]_vars,
           \/ \E m \in Text : StartText(m) \/ TextEncrypted(m)
           \/ \E f \in File : \/ StartFile(f) \/ FileEncrypted(f) \/ FileRefused(f)
                             \/ MetaEncrypted(f) \/ SendChunk(f)
    PROVE  DeliveredOnce' /\ UNCHANGED shown
  <1> SUFFICES DeliveredOnce'
    BY SendsFrames DEF recvVars
  <1>1. ASSUME NEW m \in Text, StartText(m) PROVE DeliveredOnce'
    BY <1>1, SendKeepsDeliveredOnce DEF StartText
  <1>2. ASSUME NEW m \in Text, TextEncrypted(m) PROVE DeliveredOnce'
    <2>1. CASE CanSend(Author[m])
      BY <1>2, <2>1, TextGoesOutOnce
    <2>2. CASE ~CanSend(Author[m])
      BY <1>2, <2>2, SendKeepsDeliveredOnce DEF TextEncrypted
    <2> QED BY <2>1, <2>2
  <1>3. ASSUME NEW f \in File, StartFile(f) \/ FileEncrypted(f) \/ FileRefused(f)
        PROVE  DeliveredOnce'
    BY <1>3, SendKeepsDeliveredOnce DEF StartFile, FileEncrypted, FileRefused
  <1>4. ASSUME NEW f \in File, MetaEncrypted(f) PROVE DeliveredOnce'
    <2>1. /\ UNCHANGED net \/ Send(Author[f], <<SealedFrame(f)>>)
          /\ UNCHANGED recvVars /\ UNCHANGED chunksSent
      BY <1>4 DEF MetaEncrypted
    <2>2. /\ Author[f] \in Peer /\ <<SealedFrame(f)>> \in Seq(Frame)
          /\ \A i \in DOMAIN <<SealedFrame(f)>> : <<SealedFrame(f)>>[i].t \notin {"m", "bin"}
      BY FrameTypes, MsgAssumption DEF Msg, SealedFrame
    <2> QED BY <2>1, <2>2, SendKeepsDeliveredOnce
  <1>5. ASSUME NEW f \in File, SendChunk(f) PROVE DeliveredOnce'
    <2>1. CASE CanSend(Author[f])
      BY <1>5, <2>1, ChunkGoesOutOnce
    <2>2. CASE ~CanSend(Author[f])
      BY <1>5, <2>2, SendKeepsDeliveredOnce DEF SendChunk
    <2> QED BY <2>1, <2>2
  <1> QED BY <1>1, <1>2, <1>3, <1>4, <1>5

(* Every other step: what is shown new was sent and not yet shown.          *)
LEMMA ReceivingStaysOnce ==
    ASSUME TypeOK, TypeOK', DeliveredOnce,
           \/ \E p \in Peer : \/ Receive(p) \/ Connection(p)
                              \/ \E f \in opening[p] : FrameOpened(p, f)
                              \/ \E b \in joining[p] : FileJoined(p, b)
           \/ UNCHANGED vars
    PROVE  /\ DeliveredOnce' /\ UNCHANGED stage
           /\ \/ UNCHANGED shown
              \/ \E m \in Msg : /\ stage[m] = "sent" /\ shown[m] = 0
                                /\ shown' = [shown EXCEPT ![m] = @ + 1]
  <1>1. ASSUME NEW p \in Peer, ReceiveSealed(p)
        PROVE  DeliveredOnce' /\ UNCHANGED <<stage, shown>>
    BY <1>1, SealedStaysOnce DEF ReceiveSealed, sendVars
  <1>2. ASSUME NEW p \in Peer, ReceiveChunk(p)
        PROVE  DeliveredOnce' /\ UNCHANGED <<stage, shown>>
    BY <1>2, ChunkStaysOnce DEF ReceiveChunk, sendVars
  <1>3. ASSUME NEW p \in Peer, ReceiveFileEnd(p)
        PROVE  DeliveredOnce' /\ UNCHANGED <<stage, shown>>
    BY <1>3, FileEndStaysOnce DEF ReceiveFileEnd, sendVars
  <1>4. ASSUME NEW p \in Peer, ReceiveAck(p)
        PROVE  DeliveredOnce' /\ UNCHANGED <<stage, shown>>
    <2>1. Delivered(p) /\ UNCHANGED recvVars /\ UNCHANGED sendVars
      BY <1>4 DEF ReceiveAck, Arrives
    <2> QED BY <2>1, ClosingStaysOnce DEF recvVars, sendVars
  <1>5. ASSUME NEW p \in Peer, DropEarly(p) \/ Connection(p)
        PROVE  DeliveredOnce' /\ UNCHANGED <<stage, shown>>
    BY <1>5, ClosingStaysOnce, ConnectionStep DEF DropEarly, recvVars, sendVars
  <1>6. CASE UNCHANGED vars
    BY <1>6, ClosingStaysOnce DEF vars, recvVars, sendVars
  <1>7. ASSUME NEW p \in Peer, NEW f \in opening[p], FrameOpened(p, f)
        PROVE  /\ DeliveredOnce' /\ UNCHANGED stage
               /\ \/ UNCHANGED shown
                  \/ \E m \in Msg : /\ stage[m] = "sent" /\ shown[m] = 0
                                    /\ shown' = [shown EXCEPT ![m] = @ + 1]
    <2>1. UNCHANGED stage
      BY <1>7 DEF FrameOpened, sendVars
    <2> QED BY <1>7, <2>1, OpenedOnce DEF Msg
  <1>8. ASSUME NEW p \in Peer, NEW b \in joining[p], FileJoined(p, b)
        PROVE  /\ DeliveredOnce' /\ UNCHANGED stage
               /\ \/ UNCHANGED shown
                  \/ \E m \in Msg : /\ stage[m] = "sent" /\ shown[m] = 0
                                    /\ shown' = [shown EXCEPT ![m] = @ + 1]
    <2>1. UNCHANGED stage
      BY <1>8 DEF FileJoined, sendVars
    <2> QED BY <1>8, <2>1, JoinedOnce DEF Msg
  <1> QED BY <1>1, <1>2, <1>3, <1>4, <1>5, <1>6, <1>7, <1>8 DEF Receive

(* Each text and each attachment is in one place at a time and shown once:  *)
(* the strengthening under which the channel is a mailbox.                  *)
LEMMA EverythingDeliveredOnce == Spec => []DeliveredOnce
  <1>1. Init => DeliveredOnce
    BY MsgAssumption
    DEF Init, DeliveredOnce, TextOnce, FirstChunkOnce, ChunksWereSent, NoBuffer,
        Carries, Msg
  <1>2. TypeOK /\ TypeOK' /\ DeliveredOnce /\ [Next]_vars => DeliveredOnce'
    <2> SUFFICES ASSUME TypeOK, TypeOK', DeliveredOnce, [Next]_vars PROVE DeliveredOnce'
      OBVIOUS
    <2> QED BY SendingStaysOnce, ReceivingStaysOnce DEF Next, Crypto
  <1> QED BY <1>1, <1>2, TypeCorrect, PTL DEF Spec

(* The channel implements the mailbox: whatever the interleaving of sends,  *)
(* decryptions and closings, each message is shown at most once, and only   *)
(* after its sender was told that the whole of it is sent.                  *)
THEOREM ChannelIsMailbox == Spec => MailboxSpec
  <1>1. Init => Promise!Init
    BY DEF Init, Promise!Init
  <1>2. /\ TypeOK /\ TypeOK' /\ DeliveredOnce
        /\ [Next]_vars
        => [Promise!Next]_<<{m \in Msg : stage[m] = "sent"}, shown>>
    <2> SUFFICES ASSUME TypeOK, TypeOK', DeliveredOnce, [Next]_vars
                 PROVE  [Promise!Next]_<<{m \in Msg : stage[m] = "sent"}, shown>>
      OBVIOUS
    <2> DEFINE reported == {m \in Msg : stage[m] = "sent"}
    <2>1. CASE \/ \E m \in Text : StartText(m) \/ TextEncrypted(m)
               \/ \E f \in File : \/ StartFile(f) \/ FileEncrypted(f) \/ FileRefused(f)
                                 \/ MetaEncrypted(f) \/ SendChunk(f)
      <3>1. UNCHANGED shown
        BY <2>1, SendingStaysOnce
      <3>2. UNCHANGED reported \/ \E m \in Msg : m \notin reported /\ reported' = reported \cup {m}
        <4>1. ASSUME NEW m \in Msg, stage[m] \in {"encrypting", "sending"},
                     stage' = [stage EXCEPT ![m] = "sent"]
              PROVE  m \notin reported /\ reported' = reported \cup {m}
          BY <4>1 DEF TypeOK
        <4> QED BY <4>1, SentInThisStep
      <3> QED BY <3>1, <3>2 DEF Promise!Next, Promise!Post
    <2>2. CASE \/ \E p \in Peer : \/ Receive(p) \/ Connection(p)
                                  \/ \E f \in opening[p] : FrameOpened(p, f)
                                  \/ \E b \in joining[p] : FileJoined(p, b)
               \/ UNCHANGED vars
      <3>1. /\ UNCHANGED stage
            /\ \/ UNCHANGED shown
               \/ \E m \in Msg : /\ stage[m] = "sent" /\ shown[m] = 0
                                 /\ shown' = [shown EXCEPT ![m] = @ + 1]
        BY <2>2, ReceivingStaysOnce
      <3>2. UNCHANGED reported
        BY <3>1
      <3>3. ASSUME NEW m \in Msg, stage[m] = "sent", shown[m] = 0,
                   shown' = [shown EXCEPT ![m] = @ + 1]
            PROVE  m \in reported /\ shown[m] = 0 /\ shown' = [shown EXCEPT ![m] = 1]
        BY <3>3 DEF TypeOK
      <3> QED BY <3>1, <3>2, <3>3 DEF Promise!Next, Promise!Deliver
    <2> QED BY <2>1, <2>2 DEF Next, Crypto
  <1>3. MailboxSpec <=> Promise!Init /\ [][Promise!Next]_<<{m \in Msg : stage[m] = "sent"}, shown>>
    BY DEF MailboxSpec, Promise!Spec
  <1> QED BY <1>1, <1>2, <1>3, TypeCorrect, EverythingDeliveredOnce, PTL DEF Spec

-----------------------------------------------------------------------------
(* The composer.  Nothing it sends is lost or goes elsewhere because each   *)
(* piece is in one place (OnePlace), has its chat on record (Typed), and of *)
(* each ChatView at most one recording is under way (OneMic).               *)

(* The values of the variables, one by one.                                 *)
ViewType == [number : 0..MaxMounts, draft : SUBSET Piece, sending : BOOLEAN,
             recording : BOOLEAN, recorder : 0..MaxNotes]
NoteType == [state : {"new", "asked", "live", "stopping", "leaked", "done"},
             view : 0..MaxMounts, by : Contact \cup {None}]
SendType == [kind : {"text", "voice"}, what : (SUBSET Piece) \cup (SUBSET Note),
             for : Contact, to : Contact, view : 0..MaxMounts]
ToastType == [id : 0..MaxToasts, open : BOOLEAN, made : 0..MaxToasts,
              seen : BOOLEAN, timers : SUBSET (1..MaxToasts)]
ChunkType == [0..MaxMounts -> SUBSET Note]
PlaceType == Contact \cup {None}

(* Which ChatView anything belongs to: none is from a later one, one that   *)
(* is gone holds nothing, and whoever records has a contact.                *)
Placed ==
    /\ \A s \in sends : s.view <= view.number
    /\ \A n \in Note : notes[n].view <= view.number
    /\ open = None => view = Fresh(view.number)
    /\ \A n \in Note : notes[n].state # "new" => notes[n].by # None

(* Texts and voice notes are sent; only texts are made of pieces.           *)
IsText(s) == s.kind = "text"

(* A piece is in one place: the composer, one text under way, or what       *)
(* went.                                                                    *)
OnePlace ==
    /\ \A s \in sends : IF IsText(s) THEN s.what # {} /\ s.what \subseteq Piece ELSE s.what \subseteq Note
    /\ \A s, r \in sends : IsText(s) /\ IsText(r) /\ s # r =>
        s.view # r.view /\ \A t \in s.what : t \notin r.what
    /\ \A s \in sends : IsText(s) /\ ~Current(s) => \A t \in s.what : t \notin view.draft
    /\ \A s \in sends : IsText(s) /\ Current(s) => s.what \subseteq view.draft /\ view.sending
    /\ \A r \in sent : \A t \in r.what :
        t \notin view.draft /\ \A s \in sends : IsText(s) => t \notin s.what

(* A piece in any of these places has the chat it was typed in on record.   *)
Typed ==
    /\ meant \in [Piece -> PlaceType]
    /\ \A t \in view.draft : meant[t] # None
    /\ \A s \in sends : IsText(s) => \A t \in s.what : meant[t] # None
    /\ \A r \in sent : \A t \in Piece : t \in r.what => meant[t] # None

(* Nothing goes astray except in the ways that amiss records.               *)
Straight ==
    /\ Only(Ways \ {"elsewhere"}) => open = peer \/ None \in {open, peer}
    /\ Only(Ways \ {"kept"}) =>
        /\ \A t \in view.draft : meant[t] = open
        /\ \A s \in sends : IsText(s) => \A t \in s.what : meant[t] = s.for
    /\ Only(Ways \ {"kept", "left"}) =>
        \A n \in Recording : Mine(n) /\ notes[n].by = open
    /\ Only({"typing", "twice"}) =>
        /\ \A s \in sends : s.to = s.for
        /\ \A r \in sent : r.to = r.for /\ \A t \in Piece : t \in r.what => meant[t] = r.to

(* Of one ChatView at most one recording is under way, and it is the        *)
(* visible one; it is asked for while none records, and its chunks are      *)
(* empty until it stops.                                                    *)
OneMic ==
    /\ Only(Ways \ {"twice", "left"}) =>
        /\ \A n \in Recording : Mine(n)
        /\ \A n \in Note : notes[n].state = "asked" => ~view.recording
    /\ Only(Ways \ {"twice"}) =>
        /\ \A n, m \in Recording : notes[n].view = notes[m].view => n = m
        /\ \A n \in Recorders : chunks[notes[n].view] = {}
        /\ \A s \in sends : ~IsText(s) => \E n \in Note : s.what = {n}
        /\ \A r \in sent : r.what \subseteq Note => \E n \in Note : r.what = {n}

(* The recorder that runs is the one the chat shows: MicShown, but for the  *)
(* microphones that a failed recorder left open.                            *)
RecorderShown ==
    Only(Ways \ {"twice", "left"}) =>
        /\ \A n \in Recorders : Mine(n) /\ view.recording /\ view.recorder = n
        /\ view.recording => view.recorder \in Recorders

(* What is being sent is still in the composer, and what was typed is       *)
(* there or under way from a ChatView that has gone.                        *)
Kept ==
    Only(Ways \ {"typing"}) =>
        /\ \A s \in sends : IsText(s) /\ Current(s) => s.what = view.draft
        /\ \A t \in Unsent : t \in view.draft \/ \E s \in sends : ~Current(s) /\ t \in s.what

(* No timer is set for the toast that nobody has seen yet.                  *)
Toasts ==
    /\ toast.timers \subseteq 1..toast.made /\ toast.id \in 0..toast.made
    /\ toast.made \in toast.timers => toast.seen
    /\ NewestToastShown

(* The inductive invariant.                                                 *)
IInv ==
    /\ ChatTypeOK /\ Placed /\ OnePlace /\ Typed /\ Straight /\ OneMic /\ RecorderShown
    /\ Kept /\ Toasts

(* The two ways to leave a microphone open.                                 *)
Leaking(n) == NoRecorder(n) \/ NotStarted(n)

(* The type invariant by variable.                                          *)
LEMMA Types ==
    ChatTypeOK <=>
        /\ peer \in PlaceType /\ open \in PlaceType /\ view \in ViewType
        /\ chunks \in ChunkType /\ notes \in [Note -> NoteType] /\ sends \subseteq SendType
        /\ toast \in ToastType /\ amiss \subseteq Ways
  BY DEF ChatTypeOK, ViewType, NoteType, SendType, ToastType, ChunkType, PlaceType

(* The constants, as the provers need them.                                 *)
LEMMA Bounds ==
    /\ MaxNotes \in Nat /\ MaxMounts \in Nat /\ MaxToasts \in Nat
    /\ None \notin Contact /\ Piece \cap Note = {}
    /\ \A n \in Note : n \in Nat \ {0} /\ n \in 0..MaxNotes
  BY ComposerAssumption DEF Note

(* The pieces of the type invariant that each helper leaves intact.         *)
LEMMA ToldType == ASSUME toast \in ToastType, Told PROVE toast' \in ToastType
<1>1. toast.made + 1 \in 0..MaxToasts
  BY Bounds DEF Told, ToastType
<1> QED
  BY <1>1 DEF Told, ToastType

(* Dismissing a toast.                                                      *)
LEMMA DismissType == ASSUME toast \in ToastType, Dismiss PROVE toast' \in ToastType
<1>1. toast.id \in 1..MaxToasts
  BY Bounds DEF Dismiss, ToastType
<1> QED
  BY <1>1 DEF Dismiss, ToastType

(* Its timer's end.                                                         *)
LEMMA RemoveType ==
    ASSUME toast \in ToastType, NEW id \in toast.timers, RemoveToast(id)
    PROVE  toast' \in ToastType
<1>1. 0 \in 0..MaxToasts
  BY Bounds
<1> QED
  BY <1>1 DEF RemoveToast, Removed, ToastType

(* A new ChatView.                                                          *)
LEMMA FreshType == ASSUME NEW n \in 0..MaxMounts PROVE Fresh(n) \in ViewType
  BY Bounds DEF Fresh, ViewType

(* Mounting one.                                                            *)
LEMMA MountsType ==
    ASSUME view \in ViewType, NEW c \in Contact, Mounts(c)
    PROVE  view' \in ViewType /\ open' \in PlaceType
<1>1. view.number + 1 \in 0..MaxMounts
  BY Bounds DEF Mounts, ViewType
<1> QED
  BY <1>1, FreshType DEF Mounts, PlaceType

(* Unmounting it.                                                           *)
LEMMA UnmountsType ==
    ASSUME view \in ViewType, Unmounts, amiss \subseteq Ways
    PROVE  view' \in ViewType /\ open' \in PlaceType /\ amiss' \subseteq Ways
<1>1. view.number \in 0..MaxMounts
  BY DEF ViewType
<1> QED
  BY <1>1, FreshType DEF Unmounts, PlaceType, Blame, If, Ways

(* The end of a call in it.                                                 *)
LEMMA EndsType ==
    ASSUME view \in ViewType, NEW s, NEW draft \in SUBSET Piece, EndsInView(s, draft)
    PROVE  view' \in ViewType
  BY DEF EndsInView, ViewType

(* A message under way is well formed.                                      *)
LEMMA SendingType ==
    ASSUME peer \in Contact, view \in ViewType, NEW for \in Contact,
           NEW kind \in {"text", "voice"},
           NEW what \in (SUBSET Piece) \cup (SUBSET Note)
    PROVE  Sending(kind, what, for) \in SendType
  BY DEF Sending, SendType, ViewType

(* Every step keeps the values within their types.                          *)
LEMMA TypeKept == ASSUME ChatTypeOK, Placed, OnePlace, Toasts, [ChatNext]_chatVars PROVE ChatTypeOK'
<1>0. /\ peer \in PlaceType /\ open \in PlaceType /\ view \in ViewType
      /\ chunks \in ChunkType /\ notes \in [Note -> NoteType] /\ sends \subseteq SendType
      /\ toast \in ToastType /\ amiss \subseteq Ways
  BY Types
<1> SUFFICES /\ peer' \in PlaceType /\ open' \in PlaceType /\ view' \in ViewType
             /\ chunks' \in ChunkType /\ notes' \in [Note -> NoteType]
             /\ sends' \subseteq SendType
             /\ toast' \in ToastType /\ amiss' \subseteq Ways
  BY DEF ChatTypeOK, ViewType, NoteType, SendType, ToastType, ChunkType, PlaceType
<1>1. CASE UNCHANGED chatVars
  BY <1>0, <1>1 DEF chatVars
<1>2. CASE Dismiss
  BY <1>2, DismissType, <1>0, Bounds DEF Dismiss
<1>3. CASE \E id \in toast.timers : RemoveToast(id)
  BY <1>3, RemoveType, <1>0, Bounds DEF RemoveToast
<1>4. CASE \E c \in Contact : OpenChat(c)
  BY <1>4, MountsType, <1>0, Bounds DEF OpenChat, Blame, Strays, If, Ways
<1>5. CASE \E c \in Contact : onSecure(c)
  BY <1>5, MountsType, <1>0, Bounds DEF onSecure, Blame, If, Ways, PlaceType
<1>6. CASE CloseChat
  BY <1>6, UnmountsType, <1>0, Bounds DEF CloseChat
<1>7. CASE ChannelCloses
  BY <1>7, <1>0, Bounds DEF ChannelCloses, PlaceType
<1>8. CASE lockVault
  BY <1>8, UnmountsType, <1>0, Bounds DEF lockVault, PlaceType
<1>9. CASE \E t \in Piece : Type(t)
  BY <1>9, <1>0, Bounds DEF Type, Blame, If, Ways, ViewType
<1>10. CASE doSendText
  <2>1. peer # None => Sending("text", view.draft, open) \in SendType
    BY <1>10, <1>0, SendingType DEF doSendText, PlaceType, ViewType
  <2>2. sends' \subseteq SendType /\ view' \in ViewType
    BY <1>10, <2>1, <1>0 DEF doSendText, ViewType
  <2> QED
    BY <1>10, <2>2, <1>0, ToldType DEF doSendText
<1>11. CASE Stop
  BY <1>11, <1>0, Bounds DEF Stop, NoteType, Recorders
<1>12. CASE \E s \in sends : Sent(s)
  BY <1>12, EndsType, <1>0, Bounds DEF Sent, ViewType
<1>13. CASE \E s \in sends : SendFails(s)
  BY <1>13, ToldType, EndsType, <1>0, Bounds DEF SendFails, Fails, ViewType
<1>14. CASE \E n \in Note : Asks(n)
  BY <1>14, <1>0, Bounds DEF Asks, Blame, If, NoteType, ViewType, PlaceType, Ways
<1>15. CASE \E n \in Note : MicGiven(n)
  <2>0. PICK n \in Note : MicGiven(n)
    BY <1>15
  <2>1. notes' \in [Note -> NoteType]
    BY <2>0, <1>0 DEF MicGiven, NoteType
  <2>2. view' \in ViewType
    BY <2>0, <1>0, Bounds DEF MicGiven, ViewType
  <2>3. chunks' \in ChunkType
    BY <2>0, <1>0 DEF MicGiven, NoteType, ChunkType
  <2> QED
    BY <2>0, <2>1, <2>2, <2>3, <1>0 DEF MicGiven
<1>18. CASE ToldElsewhere
  BY <1>18, ToldType, <1>0 DEF ToldElsewhere
<1>19. CASE \E n \in Note : Leaking(n)
  <2>0. PICK n \in Note : Leaking(n)
    BY <1>19
  <2>1. notes' \in [Note -> NoteType] /\ toast' \in ToastType
    BY <2>0, <1>0, ToldType DEF Leaking, NoRecorder, NotStarted, Leaks, NoteType
  <2>2. view' \in ViewType /\ chunks' \in ChunkType
    BY <2>0, <1>0, Bounds DEF Leaking, NoRecorder, NotStarted, ViewType, ChunkType
  <2> QED
    BY <2>0, <2>1, <2>2, <1>0 DEF Leaking, NoRecorder, NotStarted
<1>16. CASE \E n \in Note : MicRefused(n)
  BY <1>16, ToldType, <1>0, Bounds DEF MicRefused, NoteType
<1>17. CASE \E n \in Note : Stopped(n)
  <2>0. PICK n \in Note : Stopped(n)
    BY <1>17
  <2>1. notes' \in [Note -> NoteType]
    BY <2>0, <1>0 DEF Stopped, NoteType
  <2>2. view' \in ViewType
    BY <2>0, <1>0 DEF Stopped, ViewType
  <2>3. notes[n].view \in 0..MaxMounts /\ notes[n].by \in Contact
    BY <2>0, <1>0 DEF Stopped, Recorders, NoteType, Placed
  <2>4. chunks' \in ChunkType
    BY <2>0, <2>3, <1>0 DEF Stopped, ChunkType
  <2>5. PICK w \in SUBSET Note : w = chunks'[notes[n].view]
    BY <2>3, <2>4 DEF ChunkType
  <2>7. peer # None => Sending("voice", w, notes[n].by) \in SendType
    BY <2>3, <1>0, SendingType DEF PlaceType
  <2>6. sends' \subseteq SendType
    BY <2>0, <2>5, <2>7, <1>0 DEF Stopped
  <2> QED
    BY <2>0, <2>1, <2>2, <2>4, <2>6, <1>0, ToldType DEF Stopped
<1> QED
  BY <1>1, <1>2, <1>3, <1>4, <1>5, <1>6, <1>7, <1>8, <1>9, <1>10, <1>11, <1>12,
     <1>13, <1>14, <1>15, <1>16, <1>17, <1>18, <1>19
     DEF ChatNext, Leaking
(* The fields each step sets, for what follows.                             *)
Formed ==
    /\ peer \in PlaceType /\ open \in PlaceType /\ view \in ViewType
    /\ notes \in [Note -> NoteType] /\ chunks \in ChunkType /\ sends \subseteq SendType
    /\ toast \in ToastType /\ amiss \subseteq Ways

(* What typing, sending and its end leave alone in a ChatView.              *)
Composing == <<view.number, view.recording, view.recorder>>

(* What Type sets, field by field.                                          *)
LEMMA TypeSets ==
    ASSUME Formed, NEW t \in Piece, Type(t)
    PROVE  /\ Composing' = Composing /\ view'.sending = view.sending
           /\ view'.draft = view.draft \cup {t}
  BY DEF Formed, ViewType, Type, Composing

(* What doSendText sets: without a channel nothing but the toast.           *)
LEMMA SendTextSets ==
    ASSUME Formed, doSendText
    PROVE  /\ Composing' = Composing /\ view'.draft = view.draft
           /\ Told \/ toast' = toast
           /\ peer = None => view' = view /\ sends' = sends
           /\ peer # None => view'.sending /\ sends' = sends \cup {Sending("text", view.draft, open)}
  BY DEF Formed, ViewType, doSendText, Composing

(* The end of a call changes the ChatView that made it and no other.        *)
LEMMA EndsSets ==
    ASSUME Formed, NEW s, NEW draft, EndsInView(s, draft)
    PROVE  /\ Composing' = Composing
           /\ s.kind = "text" /\ Current(s) => ~view'.sending /\ view'.draft = draft
           /\ ~(s.kind = "text" /\ Current(s)) => view' = view
  BY DEF Formed, ViewType, EndsInView, Composing

(* What asking for the microphone sets.                                     *)
LEMMA AsksSets ==
    ASSUME Formed, NEW n \in Note, Asks(n)
    PROVE  /\ UNCHANGED <<peer, open, view, chunks, sends, toast, meant, sent>>
           /\ open # None /\ ~view.recording /\ notes[n].state = "new" /\ amiss \subseteq amiss'
           /\ (\E m \in Recording : Mine(m)) => "twice" \in amiss'
           /\ notes'[n].state = "asked" /\ notes'[n].view = view.number /\ notes'[n].by = open
           /\ \A m \in Note \ {n} : notes'[m] = notes[m]
  BY DEF Formed, NoteType, Asks, Blame, If

(* What recording leaves alone in a ChatView.                               *)
Edited == <<view.number, view.draft, view.sending>>

(* What the granted microphone sets.                                        *)
LEMMA GivenSets ==
    ASSUME Formed, NEW n \in Note, MicGiven(n)
    PROVE  /\ UNCHANGED <<peer, open, sends, toast, meant, sent, amiss>>
           /\ notes[n].state = "asked"
           /\ notes'[n].state = "live" /\ notes'[n].view = notes[n].view
           /\ notes'[n].by = notes[n].by
           /\ \A m \in Note \ {n} : notes'[m] = notes[m]
           /\ Edited' = Edited
           /\ Mine(n) => view'.recorder = n /\ view'.recording
           /\ ~Mine(n) => view' = view
           /\ chunks'[notes[n].view] = {}
           /\ \A v \in 0..MaxMounts : v # notes[n].view => chunks'[v] = chunks[v]
<1>1. notes[n].view \in 0..MaxMounts
  BY DEF Formed, NoteType
<1> QED
  BY <1>1 DEF Formed, NoteType, ViewType, ChunkType, MicGiven, Edited

(* What the refused one sets.                                               *)
LEMMA RefusedSets ==
    ASSUME Formed, NEW n \in Note, MicRefused(n)
    PROVE  /\ UNCHANGED <<peer, open, view, chunks, sends, meant, sent, amiss>>
           /\ notes[n].state = "asked" /\ notes'[n].state = "done"
           /\ notes'[n].view = notes[n].view /\ notes'[n].by = notes[n].by
           /\ \A m \in Note \ {n} : notes'[m] = notes[m]
  BY DEF Formed, NoteType, MicRefused

(* What a microphone left open sets: the recorder may have been replaced,   *)
(* but none runs that did not.                                              *)
LEMMA LeakSets ==
    ASSUME Formed, NEW n \in Note, Leaking(n)
    PROVE  /\ UNCHANGED <<peer, open, sends, meant, sent, amiss>> /\ Told
           /\ notes[n].state = "asked" /\ notes'[n].state = "leaked"
           /\ notes'[n].view = notes[n].view /\ notes'[n].by = notes[n].by
           /\ \A m \in Note \ {n} : notes'[m] = notes[m]
           /\ Edited' = Edited /\ view'.recording = view.recording
           /\ ~Mine(n) => view' = view
           /\ \A v \in 0..MaxMounts : chunks'[v] = chunks[v] \/ chunks'[v] = {}
           /\ Recorders' = Recorders /\ Recording' = Recording \ {n}
<1>1. notes[n].view \in 0..MaxMounts
  BY DEF Formed, NoteType
<1>2. \A m \in Note : notes'[m].state = IF m = n THEN "leaked" ELSE notes[m].state
  BY DEF Formed, NoteType, Leaking, NoRecorder, NotStarted, Leaks
<1>3. Recorders' = Recorders /\ Recording' = Recording \ {n}
  BY <1>2 DEF Recording, Recorders, Leaking, NoRecorder, NotStarted, Leaks
<1>4. /\ notes[n].state = "asked" /\ notes'[n].state = "leaked"
      /\ notes'[n].view = notes[n].view /\ notes'[n].by = notes[n].by
      /\ \A m \in Note \ {n} : notes'[m] = notes[m]
  BY DEF Formed, NoteType, Leaking, NoRecorder, NotStarted, Leaks
<1>5. /\ Edited' = Edited /\ view'.recording = view.recording
      /\ ~Mine(n) => view' = view
  BY DEF Formed, ViewType, Leaking, NoRecorder, NotStarted, Edited
<1>6. \A v \in 0..MaxMounts : chunks'[v] = chunks[v] \/ chunks'[v] = {}
  BY <1>1 DEF Formed, ChunkType, Leaking, NoRecorder, NotStarted
<1>7. UNCHANGED <<peer, open, sends, meant, sent, amiss>> /\ Told
  BY DEF Leaking, NoRecorder, NotStarted, Leaks
<1> QED
  BY <1>1, <1>3, <1>4, <1>5, <1>6, <1>7

(* What the button that stops sets.                                         *)
LEMMA StopSets ==
    ASSUME Formed, Stop
    PROVE  \E n \in Recorders :
           /\ n = view.recorder /\ view.recording /\ open # None
           /\ UNCHANGED <<peer, open, view, chunks, sends, toast, meant, sent, amiss>>
           /\ notes'[n].state = "stopping" /\ notes'[n].view = notes[n].view
           /\ notes'[n].by = notes[n].by
           /\ \A m \in Note \ {n} : notes'[m] = notes[m]
  BY DEF Formed, NoteType, Stop, Recorders

(* What the end of a recording sets.                                        *)
LEMMA StoppedSets ==
    ASSUME Formed, NEW n \in Note, Stopped(n)
    PROVE  /\ UNCHANGED <<peer, open, meant, sent, amiss>> /\ n \in Recorders
           /\ notes'[n].state = "done" /\ notes'[n].view = notes[n].view
           /\ notes'[n].by = notes[n].by
           /\ \A m \in Note \ {n} : notes'[m] = notes[m]
           /\ Edited' = Edited /\ view'.recorder = view.recorder
           /\ view'.recording = (view.recording /\ ~Mine(n))
           /\ chunks'[notes[n].view] = chunks[notes[n].view] \cup {n}
           /\ \A v \in 0..MaxMounts : v # notes[n].view => chunks'[v] = chunks[v]
           /\ peer = None => sends' = sends
           /\ peer # None =>
                sends' = sends \cup {Sending("voice", chunks'[notes[n].view], notes[n].by)}
           /\ Told \/ toast' = toast
<1>1. notes[n].view \in 0..MaxMounts
  BY DEF Formed, NoteType
<1> QED
  BY <1>1 DEF Formed, NoteType, ViewType, ChunkType, Stopped, EndsRecording, Edited

(* What Stopped sends is the note of its recorder.                          *)
LEMMA StoppedSends ==
    ASSUME Formed, NEW n \in Note, Stopped(n), NEW s \in sends'
    PROVE  s \in sends \/ /\ peer # None /\ s.kind = "voice" /\ s.what = chunks[notes[n].view] \cup {n}
                          /\ s.what \subseteq Note /\ s.for = notes[n].by /\ s.to = peer
                          /\ s.view = view.number
<1>1. notes[n].view \in 0..MaxMounts /\ chunks[notes[n].view] \subseteq Note
  BY DEF Formed, NoteType, ChunkType
<1> QED
  BY <1>1, StoppedSets DEF Sending

(* A new toast is shown, unseen and without a timer.                        *)
LEMMA ToldKeeps == ASSUME toast \in ToastType, Toasts, Told PROVE Toasts'
  BY Bounds DEF Toasts, ToastType, NewestToastShown, Told

(* The microphones while one is given, and while one stops.                 *)
LEMMA GivenMics ==
    ASSUME Formed, NEW n \in Note, MicGiven(n)
    PROVE  /\ n \in Recording /\ notes[n].view \in 0..MaxMounts /\ Recording' = Recording
           /\ Recorders' = Recorders \cup {n}
           /\ \A m \in Note : notes'[m].view = notes[m].view /\ Mine(m)' = Mine(m)
           /\ \A m \in Note : notes'[m].state = "asked" => notes[m].state = "asked" /\ m # n
           /\ \A m \in Note : notes[m].view # notes[n].view =>
                chunks'[notes[m].view] = chunks[notes[m].view]
<1>1. \A m \in Note : notes'[m].view = notes[m].view /\ notes[m].view \in 0..MaxMounts
  BY GivenSets DEF Formed, NoteType
<1>2. \A m \in Note : notes'[m].state = IF m = n THEN "live" ELSE notes[m].state
  BY GivenSets
<1>3. notes[n].state = "asked"
  BY GivenSets
<1> QED
  BY <1>1, <1>2, <1>3, GivenSets DEF Recording, Recorders, Mine, Edited

(* The microphones while one stops.                                         *)
LEMMA StoppedMics ==
    ASSUME Formed, NEW n \in Note, Stopped(n)
    PROVE  /\ n \in Recorders /\ notes[n].view \in 0..MaxMounts /\ Recording' = Recording \ {n}
           /\ Recorders' = Recorders \ {n}
           /\ \A m \in Note : notes'[m].view = notes[m].view /\ Mine(m)' = Mine(m)
           /\ \A m \in Note : notes'[m].state = "asked" => notes[m].state = "asked"
           /\ \A m \in Note : notes[m].view # notes[n].view =>
                chunks'[notes[m].view] = chunks[notes[m].view]
<1>1. \A m \in Note : notes'[m].view = notes[m].view /\ notes[m].view \in 0..MaxMounts
  BY StoppedSets DEF Formed, NoteType
<1>2. \A m \in Note : notes'[m].state = IF m = n THEN "done" ELSE notes[m].state
  BY StoppedSets
<1>3. notes[n].state \in {"live", "stopping"}
  BY StoppedSets DEF Recorders
<1> QED
  BY <1>1, <1>2, <1>3, StoppedSets DEF Recording, Recorders, Mine, Edited

(* Nothing belongs to a ChatView that is yet to be mounted.                 *)
LEMMA PlacedKept ==
    ASSUME ChatTypeOK, Placed, [ChatNext]_chatVars PROVE Placed'
<1>0. Formed
  BY Types DEF Formed
<1> USE <1>0, Bounds DEF Placed, Formed, PlaceType, ViewType, NoteType, SendType, Fresh,
       Composing, Edited, Current, Mine
<1>1. CASE UNCHANGED chatVars
  BY <1>1 DEF chatVars
<1>2. CASE Dismiss
  BY <1>2 DEF Dismiss
<1>3. ASSUME NEW id \in toast.timers, RemoveToast(id) PROVE Placed'
  BY <1>3 DEF RemoveToast, Removed
<1>4. ASSUME NEW c \in Contact, OpenChat(c) PROVE Placed'
  BY <1>4 DEF OpenChat, Mounts, Fresh, Blame, Strays, If
<1>5. ASSUME NEW c \in Contact, onSecure(c) PROVE Placed'
  BY <1>5 DEF onSecure, Mounts, Fresh, Blame, If
<1>6. CASE CloseChat
  BY <1>6 DEF CloseChat, Unmounts, Fresh, Blame, If, Forgets
<1>7. CASE ChannelCloses
  BY <1>7 DEF ChannelCloses
<1>8. CASE lockVault
  BY <1>8 DEF lockVault, Unmounts, Fresh, Blame, If, Forgets
<1>9. ASSUME NEW t \in Piece, Type(t) PROVE Placed'
  BY <1>9, TypeSets DEF Type, Blame, If
<1>10. CASE doSendText
  BY <1>10, SendTextSets DEF doSendText, Sending
<1>11. CASE Stop
  <2>1. PICK n \in Recorders :
          /\ n = view.recorder /\ view.recording /\ open # None
          /\ UNCHANGED <<peer, open, view, chunks, sends, toast, meant, sent, amiss>>
          /\ notes'[n].state = "stopping" /\ notes'[n].view = notes[n].view
          /\ notes'[n].by = notes[n].by /\ \A m \in Note \ {n} : notes'[m] = notes[m]
    BY <1>11, StopSets
  <2>2. \A m \in Note : notes'[m].view = notes[m].view /\ notes'[m].by = notes[m].by
                         /\ (notes'[m].state = "new" <=> notes[m].state = "new")
    BY <2>1 DEF Recorders
  <2> QED
    BY <2>1, <2>2
<1>12. ASSUME NEW s \in sends, Sent(s) PROVE Placed'
  BY <1>12, EndsSets DEF Sent
<1>13. ASSUME NEW s \in sends, SendFails(s) PROVE Placed'
  BY <1>13, EndsSets DEF SendFails, Fails, Forgets
<1>14. ASSUME NEW n \in Note, Asks(n) PROVE Placed'
  BY <1>14, AsksSets
<1>15. ASSUME NEW n \in Note, MicGiven(n) PROVE Placed'
  BY <1>15, GivenSets
<1>18. CASE ToldElsewhere
  BY <1>18 DEF ToldElsewhere
<1>19. ASSUME NEW n \in Note, Leaking(n) PROVE Placed'
  BY <1>19, LeakSets
<1>16. ASSUME NEW n \in Note, MicRefused(n) PROVE Placed'
  BY <1>16, RefusedSets
<1>17. ASSUME NEW n \in Note, Stopped(n) PROVE Placed'
  <2>1. \A m \in Note : notes'[m].view = notes[m].view /\ notes'[m].by = notes[m].by
                         /\ (notes'[m].state = "new" <=> notes[m].state = "new")
    BY <1>17, StoppedSets DEF Recorders
  <2>2. view'.number = view.number /\ open' = open
    BY <1>17, StoppedSets
  <2>3. open = None => view' = view
    BY <1>17 DEF Stopped, EndsRecording
  <2>4. \A s \in sends' : s.view <= view.number
    BY <1>17, StoppedSends
  <2> QED
    BY <2>1, <2>2, <2>3, <2>4
<1> QED
  BY <1>1, <1>2, <1>3, <1>4, <1>5, <1>6, <1>7, <1>8, <1>9, <1>10, <1>11, <1>12,
     <1>13, <1>14, <1>15, <1>16, <1>17, <1>18, <1>19
     DEF ChatNext, Leaking

(* No step puts a piece in two places.                                      *)
LEMMA OnePlaceKept ==
    ASSUME ChatTypeOK, Placed, OnePlace, Typed, [ChatNext]_chatVars PROVE OnePlace'
<1>0. Formed
  BY Types DEF Formed
<1> USE <1>0, Bounds DEF Typed, OnePlace, Placed, IsText, Formed, PlaceType, ViewType,
       NoteType, SendType, Fresh, Composing, Edited, Current, Mine
<1>1. CASE UNCHANGED chatVars
  BY <1>1 DEF chatVars
<1>2. CASE Dismiss
  BY <1>2 DEF Dismiss
<1>3. ASSUME NEW id \in toast.timers, RemoveToast(id) PROVE OnePlace'
  BY <1>3 DEF RemoveToast, Removed
<1>4. ASSUME NEW c \in Contact, OpenChat(c) PROVE OnePlace'
  BY <1>4 DEF OpenChat, Mounts, Fresh, Blame, Strays, If
<1>5. ASSUME NEW c \in Contact, onSecure(c) PROVE OnePlace'
  BY <1>5 DEF onSecure, Mounts, Fresh, Blame, If
<1>6. CASE CloseChat
  BY <1>6 DEF CloseChat, Unmounts, Fresh, Blame, If, Forgets
<1>7. CASE ChannelCloses
  BY <1>7 DEF ChannelCloses
<1>8. CASE lockVault
  BY <1>8 DEF lockVault, Unmounts, Fresh, Blame, If, Forgets
<1>9. ASSUME NEW t \in Piece, Type(t) PROVE OnePlace'
  BY <1>9, TypeSets DEF Type, Blame, If
<1>10. CASE doSendText
  BY <1>10, SendTextSets DEF doSendText, Sending
<1>11. CASE Stop
  BY <1>11, StopSets
<1>12. ASSUME NEW s \in sends, Sent(s) PROVE OnePlace'
  BY <1>12, EndsSets DEF Sent
<1>13. ASSUME NEW s \in sends, SendFails(s) PROVE OnePlace'
  BY <1>13, EndsSets DEF SendFails, Fails, Forgets
<1>14. ASSUME NEW n \in Note, Asks(n) PROVE OnePlace'
  BY <1>14, AsksSets
<1>15. ASSUME NEW n \in Note, MicGiven(n) PROVE OnePlace'
  BY <1>15, GivenSets
<1>18. CASE ToldElsewhere
  BY <1>18 DEF ToldElsewhere
<1>19. ASSUME NEW n \in Note, Leaking(n) PROVE OnePlace'
  BY <1>19, LeakSets
<1>16. ASSUME NEW n \in Note, MicRefused(n) PROVE OnePlace'
  BY <1>16, RefusedSets
<1>17. ASSUME NEW n \in Note, Stopped(n) PROVE OnePlace'
  BY <1>17, StoppedSets, StoppedSends
<1> QED
  BY <1>1, <1>2, <1>3, <1>4, <1>5, <1>6, <1>7, <1>8, <1>9, <1>10, <1>11, <1>12,
     <1>13, <1>14, <1>15, <1>16, <1>17, <1>18, <1>19
     DEF ChatNext, Leaking

(* A piece that is somewhere has a chat on record.                          *)
LEMMA TypedKept ==
    ASSUME ChatTypeOK, Placed, OnePlace, Typed, [ChatNext]_chatVars PROVE Typed'
<1>0. Formed
  BY Types DEF Formed
<1> USE <1>0, Bounds DEF Typed, OnePlace, Placed, IsText, Formed, PlaceType, ViewType,
       NoteType, SendType, Fresh, Composing, Edited, Current, Mine
<1>1. CASE UNCHANGED chatVars
  BY <1>1 DEF chatVars
<1>2. CASE Dismiss
  BY <1>2 DEF Dismiss
<1>3. ASSUME NEW id \in toast.timers, RemoveToast(id) PROVE Typed'
  BY <1>3 DEF RemoveToast, Removed
<1>4. ASSUME NEW c \in Contact, OpenChat(c) PROVE Typed'
  BY <1>4 DEF OpenChat, Mounts, Fresh, Blame, Strays, If
<1>5. ASSUME NEW c \in Contact, onSecure(c) PROVE Typed'
  BY <1>5 DEF onSecure, Mounts, Fresh, Blame, If
<1>6. CASE CloseChat
  BY <1>6 DEF CloseChat, Unmounts, Fresh, Blame, If, Forgets
<1>7. CASE ChannelCloses
  BY <1>7 DEF ChannelCloses
<1>8. CASE lockVault
  BY <1>8 DEF lockVault, Unmounts, Fresh, Blame, If, Forgets
<1>9. ASSUME NEW t \in Piece, Type(t) PROVE Typed'
  <2>1. /\ meant' = [meant EXCEPT ![t] = open] /\ sends' = sends /\ sent' = sent
        /\ meant[t] = None /\ open \in Contact
    BY <1>9 DEF Type
  <2>2. meant'[t] = open /\ \A u \in Piece : meant[u] # None => meant'[u] = meant[u]
    BY <2>1
  <2>3. meant' \in [Piece -> PlaceType]
    BY <2>1
  <2> QED
    BY <2>1, <2>2, <2>3, <1>9, TypeSets
<1>10. CASE doSendText
  BY <1>10, SendTextSets DEF doSendText, Sending
<1>11. CASE Stop
  BY <1>11, StopSets
<1>12. ASSUME NEW s \in sends, Sent(s) PROVE Typed'
  BY <1>12, EndsSets DEF Sent
<1>13. ASSUME NEW s \in sends, SendFails(s) PROVE Typed'
  BY <1>13, EndsSets DEF SendFails, Fails, Forgets
<1>14. ASSUME NEW n \in Note, Asks(n) PROVE Typed'
  BY <1>14, AsksSets
<1>15. ASSUME NEW n \in Note, MicGiven(n) PROVE Typed'
  BY <1>15, GivenSets
<1>18. CASE ToldElsewhere
  BY <1>18 DEF ToldElsewhere
<1>19. ASSUME NEW n \in Note, Leaking(n) PROVE Typed'
  BY <1>19, LeakSets
<1>16. ASSUME NEW n \in Note, MicRefused(n) PROVE Typed'
  BY <1>16, RefusedSets
<1>17. ASSUME NEW n \in Note, Stopped(n) PROVE Typed'
  BY <1>17, StoppedSets DEF Sending
<1> QED
  BY <1>1, <1>2, <1>3, <1>4, <1>5, <1>6, <1>7, <1>8, <1>9, <1>10, <1>11, <1>12,
     <1>13, <1>14, <1>15, <1>16, <1>17, <1>18, <1>19
     DEF ChatNext, Leaking

(* Chats and channels are crossed only in the ways that are recorded.       *)
LEMMA StraightKept ==
    ASSUME ChatTypeOK, Placed, OnePlace, Typed, Straight, [ChatNext]_chatVars PROVE Straight'
<1>0. Formed
  BY Types DEF Formed
<1> USE <1>0, Bounds DEF Straight, OnePlace, Placed, IsText, Only, Ways, Recording,
       Recorders, Typed, Formed, PlaceType, ViewType, NoteType, SendType, Fresh,
       Composing, Edited, Current, Mine
<1>1. CASE UNCHANGED chatVars
  BY <1>1 DEF chatVars
<1>2. CASE Dismiss
  BY <1>2 DEF Dismiss
<1>3. ASSUME NEW id \in toast.timers, RemoveToast(id) PROVE Straight'
  BY <1>3 DEF RemoveToast, Removed
<1>4. ASSUME NEW c \in Contact, OpenChat(c) PROVE Straight'
  BY <1>4 DEF OpenChat, Mounts, Fresh, Blame, Strays, If
<1>5. ASSUME NEW c \in Contact, onSecure(c) PROVE Straight'
  BY <1>5 DEF onSecure, Mounts, Fresh, Blame, If
<1>6. CASE CloseChat
  BY <1>6 DEF CloseChat, Unmounts, Fresh, Blame, If, Forgets
<1>7. CASE ChannelCloses
  BY <1>7 DEF ChannelCloses
<1>8. CASE lockVault
  BY <1>8 DEF lockVault, Unmounts, Fresh, Blame, If, Forgets
<1>9. ASSUME NEW t \in Piece, Type(t) PROVE Straight'
  <2>1. /\ meant' = [meant EXCEPT ![t] = open] /\ meant[t] = None /\ amiss \subseteq amiss'
        /\ UNCHANGED <<peer, open, notes, sends, sent>>
    BY <1>9 DEF Type, Blame
  <2>2. \A u \in Piece : meant'[u] = IF u = t THEN open ELSE meant[u]
    BY <2>1
  <2>3. \A n \in Note : Mine(n)' = Mine(n)
    BY <2>1, <1>9, TypeSets
  <2> QED
    BY <2>1, <2>2, <2>3, <1>9, TypeSets
<1>10. CASE doSendText
  BY <1>10, SendTextSets DEF doSendText, Sending
<1>11. CASE Stop
  BY <1>11, StopSets
<1>12. ASSUME NEW s \in sends, Sent(s) PROVE Straight'
  BY <1>12, EndsSets DEF Sent
<1>13. ASSUME NEW s \in sends, SendFails(s) PROVE Straight'
  BY <1>13, EndsSets DEF SendFails, Fails, Forgets
<1>14. ASSUME NEW n \in Note, Asks(n) PROVE Straight'
  BY <1>14, AsksSets
<1>15. ASSUME NEW n \in Note, MicGiven(n) PROVE Straight'
  BY <1>15, GivenSets
<1>18. CASE ToldElsewhere
  BY <1>18 DEF ToldElsewhere
<1>19. ASSUME NEW n \in Note, Leaking(n) PROVE Straight'
  BY <1>19, LeakSets
<1>16. ASSUME NEW n \in Note, MicRefused(n) PROVE Straight'
  BY <1>16, RefusedSets
<1>17. ASSUME NEW n \in Note, Stopped(n) PROVE Straight'
  BY <1>17, StoppedSets DEF Sending
<1> QED
  BY <1>1, <1>2, <1>3, <1>4, <1>5, <1>6, <1>7, <1>8, <1>9, <1>10, <1>11, <1>12,
     <1>13, <1>14, <1>15, <1>16, <1>17, <1>18, <1>19
     DEF ChatNext, Leaking

(* Recordings of one ChatView overlap only if two were asked for at once.   *)
LEMMA OneMicKept ==
    ASSUME ChatTypeOK, Placed, OnePlace, OneMic, RecorderShown, [ChatNext]_chatVars PROVE OneMic'
<1>0. Formed
  BY Types DEF Formed
<1> USE <1>0, Bounds DEF OneMic, RecorderShown, OnePlace, Placed, IsText, Only, Ways,
       Recording, Recorders, Formed, PlaceType, ViewType, NoteType, SendType, Fresh,
       Composing, Edited, Current, Mine
<1>1. CASE UNCHANGED chatVars
  BY <1>1 DEF chatVars
<1>2. CASE Dismiss
  BY <1>2 DEF Dismiss
<1>3. ASSUME NEW id \in toast.timers, RemoveToast(id) PROVE OneMic'
  BY <1>3 DEF RemoveToast, Removed
<1>4. ASSUME NEW c \in Contact, OpenChat(c) PROVE OneMic'
  BY <1>4 DEF OpenChat, Mounts, Fresh, Blame, Strays, If
<1>5. ASSUME NEW c \in Contact, onSecure(c) PROVE OneMic'
  BY <1>5 DEF onSecure, Mounts, Fresh, Blame, If
<1>6. CASE CloseChat
  BY <1>6 DEF CloseChat, Unmounts, Fresh, Blame, If, Forgets
<1>7. CASE ChannelCloses
  BY <1>7 DEF ChannelCloses
<1>8. CASE lockVault
  BY <1>8 DEF lockVault, Unmounts, Fresh, Blame, If, Forgets
<1>9. ASSUME NEW t \in Piece, Type(t) PROVE OneMic'
  BY <1>9, TypeSets DEF Type, Blame, If
<1>10. CASE doSendText
  BY <1>10, SendTextSets DEF doSendText, Sending
<1>11. CASE Stop
  <2>1. PICK n \in Recorders :
          /\ n = view.recorder /\ view.recording /\ open # None
          /\ UNCHANGED <<peer, open, view, chunks, sends, toast, meant, sent, amiss>>
          /\ notes'[n].state = "stopping" /\ notes'[n].view = notes[n].view
          /\ notes'[n].by = notes[n].by /\ \A m \in Note \ {n} : notes'[m] = notes[m]
    BY <1>11, StopSets
  <2>2. \A m \in Note : /\ notes'[m].view = notes[m].view /\ notes'[m].by = notes[m].by
                         /\ (notes'[m].state = "asked" <=> notes[m].state = "asked")
                         /\ (notes'[m].state \in {"live", "stopping"} <=> notes[m].state \in {"live", "stopping"})
    BY <2>1 DEF Recorders
  <2> QED
    BY <2>1, <2>2
<1>12. ASSUME NEW s \in sends, Sent(s) PROVE OneMic'
  BY <1>12, EndsSets DEF Sent
<1>13. ASSUME NEW s \in sends, SendFails(s) PROVE OneMic'
  BY <1>13, EndsSets DEF SendFails, Fails, Forgets
<1>14. ASSUME NEW n \in Note, Asks(n) PROVE OneMic'
  <2>1. /\ UNCHANGED <<open, view, chunks, sends, sent>> /\ amiss \subseteq amiss'
        /\ open # None /\ ~view.recording /\ notes'[n].view = view.number
        /\ notes[n].state = "new" /\ notes'[n].state = "asked"
        /\ \A m \in Note \ {n} : notes'[m] = notes[m]
        /\ (\E m \in Recording : Mine(m)) => "twice" \in amiss'
    BY <1>14, AsksSets
  <2>2. Recorders' = Recorders /\ Recording' = Recording \cup {n} /\ n \notin Recording
    BY <2>1
  <2> HIDE DEF RecorderShown, OnePlace, Placed, Recording, Recorders, Formed, PlaceType,
         ViewType, NoteType, SendType, Fresh, Composing, Edited, Current
  <2>3. \A m \in Recording : m \in Note /\ m # n /\ notes'[m] = notes[m]
    BY <2>1, <2>2 DEF Recording, Recorders
  <2>4. ASSUME (Only(Ways \ {"twice"}))'
        PROVE  \A m \in Recording : notes[m].view # view.number
    BY <2>1, <2>4
  <2>5. (Only(Ways \ {"twice", "left"}))' => \A m \in Recording' : Mine(m)'
    BY <2>1, <2>2, <2>3
  <2>6. (Only(Ways \ {"twice"}))' =>
          \A m, k \in Recording' : notes'[m].view = notes'[k].view => m = k
    BY <2>1, <2>2, <2>3, <2>4
  <2>7. ASSUME (Only(Ways \ {"twice"}))', NEW m \in Recorders'
        PROVE  chunks'[notes'[m].view] = {}
    <3>1. m \in Recording /\ m \in Recorders
      BY <2>2, <2>7 DEF Recording
    <3>2. Only(Ways \ {"twice"})
      BY <2>1, <2>7
    <3>3. chunks[notes[m].view] = {}
      BY <3>1, <3>2
    <3> QED
      BY <3>1, <3>3, <2>1, <2>3
  <2>8. (Only(Ways \ {"twice"}))' =>
          /\ \A s \in sends' : ~IsText(s) => \E k \in Note : s.what = {k}
          /\ \A r \in sent' : r.what \subseteq Note => \E k \in Note : r.what = {k}
    BY <2>1
  <2> QED
    BY <2>1, <2>5, <2>6, <2>7, <2>8
<1>15. ASSUME NEW n \in Note, MicGiven(n) PROVE OneMic'
  <2> HIDE DEF RecorderShown, OnePlace, Placed, Recording, Recorders, Formed, PlaceType,
         ViewType, NoteType, SendType, Fresh, Composing, Edited, Current, Mine
  <2>1. \A m \in Recording : m \in Note
    BY DEF Recording, Recorders
  <2>2. Recorders \subseteq Recording
    BY DEF Recording
  <2>3. ASSUME Only(Ways \ {"twice"}), NEW m \in Recorders' PROVE chunks'[notes'[m].view] = {}
    <3>1. m \in Note /\ notes'[m].view = notes[m].view /\ m \in Recorders \cup {n}
      BY <2>1, <2>2, <2>3, <1>15, GivenMics
    <3>2. CASE m = n
      BY <3>1, <3>2, <1>15, GivenSets
    <3>3. CASE m # n
      <4>1. m \in Recorders /\ m \in Recording /\ n \in Recording
        BY <3>1, <3>3, <2>2, <1>15, GivenMics
      <4>2. notes[m].view # notes[n].view /\ chunks[notes[m].view] = {}
        BY <4>1, <3>3, <2>3, <1>15, GivenSets
      <4> QED
        BY <3>1, <4>2, <1>15, GivenMics
    <3> QED
      BY <3>2, <3>3
  <2>4. UNCHANGED <<sends, sent, amiss>> /\ (Mine(n) => view'.recorder = n /\ view'.recording)
        /\ (~Mine(n) => view' = view)
    BY <1>15, GivenSets
  <2>5. Only(Ways \ {"twice", "left"}) => Mine(n) /\ \A m \in Note : notes'[m].state # "asked"
    BY <2>1, <2>2, <1>15, GivenMics DEF RecorderShown, Mine, Recording
  <2>6. \A m \in Recording' : notes'[m].view = notes[m].view /\ Mine(m)' = Mine(m) /\ m \in Recording
    BY <2>1, <1>15, GivenMics
  <2> QED
    BY <2>3, <2>4, <2>5, <2>6
<1>18. CASE ToldElsewhere
  BY <1>18 DEF ToldElsewhere
<1>19. ASSUME NEW n \in Note, Leaking(n) PROVE OneMic'
  BY <1>19, LeakSets
<1>16. ASSUME NEW n \in Note, MicRefused(n) PROVE OneMic'
  BY <1>16, RefusedSets
<1>17. ASSUME NEW n \in Note, Stopped(n) PROVE OneMic'
  <2> HIDE DEF RecorderShown, OnePlace, Placed, Recording, Recorders, Formed, PlaceType,
         ViewType, NoteType, SendType, Fresh, Composing, Edited, Current, Mine
  <2>1. \A m \in Recording : m \in Note
    BY DEF Recording, Recorders
  <2>2. Recorders \subseteq Recording
    BY DEF Recording
  <2>3. ASSUME Only(Ways \ {"twice"})
        PROVE  /\ \A m \in Recorders' : chunks'[notes'[m].view] = {}
               /\ \A s \in sends' : ~IsText(s) => \E k \in Note : s.what = {k}
    <3>1. ASSUME NEW m \in Recorders' PROVE chunks'[notes'[m].view] = {}
      <4>1. m \in Recorders /\ m \in Recording /\ m # n /\ n \in Recording /\ m \in Note
        BY <2>1, <2>2, <1>17, StoppedMics
      <4>2. notes[m].view # notes[n].view
        BY <4>1, <2>3
      <4> QED
        BY <4>1, <4>2, <2>3, <1>17, StoppedMics
    <3>2. chunks[notes[n].view] = {}
      BY <2>3, <1>17, StoppedMics
    <3> QED
      BY <2>3, <3>1, <3>2, <1>17, StoppedSends
  <2>4. UNCHANGED <<sent, amiss>> /\ (view'.recording => view.recording)
    BY <1>17, StoppedSets
  <2>5. \A m \in Recording' : notes'[m].view = notes[m].view /\ Mine(m)' = Mine(m) /\ m \in Recording
    BY <2>1, <1>17, StoppedMics
  <2> QED
    BY <1>17, StoppedMics, <2>3, <2>4, <2>5
<1> QED
  BY <1>1, <1>2, <1>3, <1>4, <1>5, <1>6, <1>7, <1>8, <1>9, <1>10, <1>11, <1>12,
     <1>13, <1>14, <1>15, <1>16, <1>17, <1>18, <1>19
     DEF ChatNext, Leaking

(* The recorder that runs is the one the chat shows.                        *)
LEMMA RecorderShownKept ==
    ASSUME ChatTypeOK, Placed, OneMic, RecorderShown, [ChatNext]_chatVars PROVE RecorderShown'
<1>0. Formed
  BY Types DEF Formed
<1> USE <1>0, Bounds DEF OneMic, RecorderShown, Placed, IsText, Only, Ways, Recording,
       Recorders, Formed, PlaceType, ViewType, NoteType, SendType, Fresh, Composing,
       Edited, Current, Mine
<1>1. CASE UNCHANGED chatVars
  BY <1>1 DEF chatVars
<1>2. CASE Dismiss
  BY <1>2 DEF Dismiss
<1>3. ASSUME NEW id \in toast.timers, RemoveToast(id) PROVE RecorderShown'
  BY <1>3 DEF RemoveToast, Removed
<1>4. ASSUME NEW c \in Contact, OpenChat(c) PROVE RecorderShown'
  BY <1>4 DEF OpenChat, Mounts, Fresh, Blame, Strays, If
<1>5. ASSUME NEW c \in Contact, onSecure(c) PROVE RecorderShown'
  BY <1>5 DEF onSecure, Mounts, Fresh, Blame, If
<1>6. CASE CloseChat
  BY <1>6 DEF CloseChat, Unmounts, Fresh, Blame, If, Forgets
<1>7. CASE ChannelCloses
  BY <1>7 DEF ChannelCloses
<1>8. CASE lockVault
  BY <1>8 DEF lockVault, Unmounts, Fresh, Blame, If, Forgets
<1>9. ASSUME NEW t \in Piece, Type(t) PROVE RecorderShown'
  BY <1>9, TypeSets DEF Type, Blame, If
<1>10. CASE doSendText
  BY <1>10, SendTextSets DEF doSendText, Sending
<1>11. CASE Stop
  BY <1>11, StopSets
<1>12. ASSUME NEW s \in sends, Sent(s) PROVE RecorderShown'
  BY <1>12, EndsSets DEF Sent
<1>13. ASSUME NEW s \in sends, SendFails(s) PROVE RecorderShown'
  BY <1>13, EndsSets DEF SendFails, Fails, Forgets
<1>14. ASSUME NEW n \in Note, Asks(n) PROVE RecorderShown'
  BY <1>14, AsksSets
<1>15. ASSUME NEW n \in Note, MicGiven(n) PROVE RecorderShown'
  BY <1>15, GivenSets
<1>18. CASE ToldElsewhere
  BY <1>18 DEF ToldElsewhere
<1>19. ASSUME NEW n \in Note, Leaking(n) PROVE RecorderShown'
  BY <1>19, LeakSets
<1>16. ASSUME NEW n \in Note, MicRefused(n) PROVE RecorderShown'
  BY <1>16, RefusedSets
<1>17. ASSUME NEW n \in Note, Stopped(n) PROVE RecorderShown'
  <2>1. Only(Ways \ {"twice", "left"}) => \A m \in Recorders : m = n
    BY <1>17, StoppedMics
  <2>2. Only(Ways \ {"twice", "left"}) => ~view'.recording /\ Recorders' = {}
    <3>1. Only(Ways \ {"twice", "left"}) => Mine(n)
      BY <1>17, StoppedMics
    <3> HIDE DEF Recording, Recorders, Mine, Placed, OneMic
    <3>2. view'.recording = (view.recording /\ ~Mine(n))
      BY <1>17, StoppedSets
    <3>3. Recorders' = Recorders \ {n}
      BY <1>17, StoppedMics
    <3> QED
      BY <2>1, <3>1, <3>2, <3>3
  <2>3. amiss' = amiss
    BY <1>17, StoppedSets
  <2> HIDE DEF Recording, Recorders, Mine, Placed, OneMic
  <2> QED
    BY <2>2, <2>3
<1> QED
  BY <1>1, <1>2, <1>3, <1>4, <1>5, <1>6, <1>7, <1>8, <1>9, <1>10, <1>11, <1>12,
     <1>13, <1>14, <1>15, <1>16, <1>17, <1>18, <1>19
     DEF ChatNext, Leaking

(* Typed text moves from the composer to a send and from there to the peer. *)
LEMMA KeptKept ==
    ASSUME ChatTypeOK, Placed, OnePlace, Typed, Kept, [ChatNext]_chatVars PROVE Kept'
<1>0. Formed
  BY Types DEF Formed
<1> USE <1>0, Bounds DEF Kept, OnePlace, Placed, Typed, IsText, Only, Ways, Unsent,
       Formed, PlaceType, ViewType, NoteType, SendType, Fresh, Composing, Edited,
       Current, Mine
<1>1. CASE UNCHANGED chatVars
  BY <1>1 DEF chatVars
<1>2. CASE Dismiss
  BY <1>2 DEF Dismiss
<1>3. ASSUME NEW id \in toast.timers, RemoveToast(id) PROVE Kept'
  BY <1>3 DEF RemoveToast, Removed
<1>4. ASSUME NEW c \in Contact, OpenChat(c) PROVE Kept'
  BY <1>4 DEF OpenChat, Mounts, Fresh, Blame, Strays, If
<1>5. ASSUME NEW c \in Contact, onSecure(c) PROVE Kept'
  BY <1>5 DEF onSecure, Mounts, Fresh, Blame, If
<1>6. CASE CloseChat
  BY <1>6 DEF CloseChat, Unmounts, Fresh, Blame, If, Forgets
<1>7. CASE ChannelCloses
  BY <1>7 DEF ChannelCloses
<1>8. CASE lockVault
  BY <1>8 DEF lockVault, Unmounts, Fresh, Blame, If, Forgets
<1>9. ASSUME NEW t \in Piece, Type(t) PROVE Kept'
  <2>1. meant' = [meant EXCEPT ![t] = open] /\ sends' = sends /\ sent' = sent
        /\ (\A s \in sends : Current(s)' = Current(s))
        /\ (view.sending => "typing" \in amiss') /\ amiss \subseteq amiss'
    BY <1>9, TypeSets DEF Type, Blame, If
  <2>2. Unsent' \subseteq Unsent \cup {t}
    BY <2>1
  <2> QED
    BY <2>1, <2>2, TypeSets, <1>9
<1>10. CASE doSendText
  BY <1>10, SendTextSets DEF doSendText, Sending
<1>11. CASE Stop
  BY <1>11, StopSets
<1>12. ASSUME NEW s \in sends, Sent(s) PROVE Kept'
  <2>1. /\ sent' = sent \cup {[what |-> s.what, for |-> s.for, to |-> s.to]}
        /\ meant' = meant /\ amiss' = amiss /\ sends' = sends \ {s}
        /\ \A r \in sends : Current(r)' = Current(r)
    BY <1>12, EndsSets DEF Sent
  <2>2. ASSUME NEW t \in Unsent' PROVE t \in Unsent /\ t \notin s.what
    <3>1. t \in Piece /\ meant[t] # None /\ \A r \in sent' : t \notin r.what
      BY <2>1, <2>2
    <3> DEFINE new == [what |-> s.what, for |-> s.for, to |-> s.to]
    <3>2. new \in sent' /\ new.what = s.what
      BY <2>1
    <3>3. \A q \in sent : q \in sent'
      BY <2>1
    <3> QED
      BY <3>1, <3>2, <3>3
  <2>3. CASE IsText(s) /\ Current(s)
    <3>1. view'.draft = {} /\ ~view'.sending
      BY <2>3, <1>12, EndsSets DEF Sent
    <3>2. \A r \in sends' : IsText(r) => ~Current(r)
      BY <2>1, <2>3
    <3> QED
      BY <2>1, <2>2, <2>3, <3>1, <3>2
  <2>4. CASE ~(IsText(s) /\ Current(s))
    <3>1. view' = view
      BY <2>4, <1>12, EndsSets DEF Sent
    <3> QED
      BY <2>1, <2>2, <2>4, <3>1
  <2> QED
    BY <2>3, <2>4
<1>13. ASSUME NEW s \in sends, SendFails(s) PROVE Kept'
  BY <1>13, EndsSets DEF SendFails, Fails, Forgets
<1>14. ASSUME NEW n \in Note, Asks(n) PROVE Kept'
  BY <1>14, AsksSets
<1>15. ASSUME NEW n \in Note, MicGiven(n) PROVE Kept'
  BY <1>15, GivenSets
<1>18. CASE ToldElsewhere
  BY <1>18 DEF ToldElsewhere
<1>19. ASSUME NEW n \in Note, Leaking(n) PROVE Kept'
  BY <1>19, LeakSets
<1>16. ASSUME NEW n \in Note, MicRefused(n) PROVE Kept'
  BY <1>16, RefusedSets
<1>17. ASSUME NEW n \in Note, Stopped(n) PROVE Kept'
  BY <1>17, StoppedSets DEF Sending
<1> QED
  BY <1>1, <1>2, <1>3, <1>4, <1>5, <1>6, <1>7, <1>8, <1>9, <1>10, <1>11, <1>12,
     <1>13, <1>14, <1>15, <1>16, <1>17, <1>18, <1>19
     DEF ChatNext, Leaking

(* Only a toast that was dismissed has a timer.                             *)
LEMMA ToastsKept ==
    ASSUME ChatTypeOK, Toasts, [ChatNext]_chatVars PROVE Toasts'
<1>0. Formed
  BY Types DEF Formed
<1> USE <1>0, Bounds DEF Toasts, Formed, ToastType, NewestToastShown
<1>1. CASE UNCHANGED chatVars
  BY <1>1 DEF chatVars
<1>2. CASE Dismiss
  BY <1>2 DEF Dismiss
<1>3. ASSUME NEW id \in toast.timers, RemoveToast(id) PROVE Toasts'
  BY <1>3 DEF RemoveToast, Removed
<1>4. ASSUME NEW c \in Contact, OpenChat(c) PROVE Toasts'
  BY <1>4 DEF OpenChat, Mounts, Fresh, Blame, Strays, If
<1>5. ASSUME NEW c \in Contact, onSecure(c) PROVE Toasts'
  BY <1>5 DEF onSecure, Mounts, Fresh, Blame, If
<1>6. CASE CloseChat
  BY <1>6 DEF CloseChat, Unmounts, Fresh, Blame, If, Forgets
<1>7. CASE ChannelCloses
  BY <1>7 DEF ChannelCloses
<1>8. CASE lockVault
  BY <1>8 DEF lockVault, Unmounts, Fresh, Blame, If, Forgets
<1>9. ASSUME NEW t \in Piece, Type(t) PROVE Toasts'
  BY <1>9, TypeSets DEF Type, Blame, If
<1>10. CASE doSendText
  BY <1>10, SendTextSets, ToldKeeps
<1>11. CASE Stop
  BY <1>11, StopSets
<1>12. ASSUME NEW s \in sends, Sent(s) PROVE Toasts'
  BY <1>12, EndsSets DEF Sent
<1>13. ASSUME NEW s \in sends, SendFails(s) PROVE Toasts'
  BY <1>13, ToldKeeps DEF SendFails, Fails
<1>14. ASSUME NEW n \in Note, Asks(n) PROVE Toasts'
  BY <1>14, AsksSets
<1>15. ASSUME NEW n \in Note, MicGiven(n) PROVE Toasts'
  BY <1>15, GivenSets
<1>18. CASE ToldElsewhere
  BY <1>18, ToldKeeps DEF ToldElsewhere
<1>19. ASSUME NEW n \in Note, Leaking(n) PROVE Toasts'
  BY <1>19, LeakSets, ToldKeeps
<1>16. ASSUME NEW n \in Note, MicRefused(n) PROVE Toasts'
  BY <1>16, ToldKeeps DEF MicRefused
<1>17. ASSUME NEW n \in Note, Stopped(n) PROVE Toasts'
  BY <1>17, StoppedSets, ToldKeeps
<1> QED
  BY <1>1, <1>2, <1>3, <1>4, <1>5, <1>6, <1>7, <1>8, <1>9, <1>10, <1>11, <1>12,
     <1>13, <1>14, <1>15, <1>16, <1>17, <1>18, <1>19
     DEF ChatNext, Leaking

(* Nothing is open at the start.                                            *)
LEMMA InitInv == ChatInit => IInv
<1> SUFFICES ASSUME ChatInit PROVE IInv
  OBVIOUS
<1> USE Bounds
<1>1. ChatTypeOK
  <2>1. view \in ViewType
    BY FreshType DEF ChatInit
  <2>2. toast \in ToastType
    BY DEF ChatInit, ToastType
  <2> QED
    BY <2>1, <2>2, Types DEF ChatInit, PlaceType, NoteType, ChunkType
<1>2. Placed /\ OnePlace /\ Typed /\ Straight /\ Kept
  BY DEF ChatInit, Placed, OnePlace, Typed, Straight, Kept, Unsent, Fresh,
     PlaceType, Recording, Recorders
<1>3. OneMic /\ RecorderShown
  BY DEF ChatInit, OneMic, RecorderShown, Recording, Recorders, Fresh
<1>4. Toasts
  BY DEF ChatInit, Toasts, NewestToastShown
<1> QED
  BY <1>1, <1>2, <1>3, <1>4 DEF IInv

(* Every step keeps every part.                                             *)
LEMMA NextInv == IInv /\ [ChatNext]_chatVars => IInv'
  BY TypeKept, PlacedKept, OnePlaceKept, TypedKept, StraightKept, OneMicKept,
     RecorderShownKept, KeptKept,
     ToastsKept DEF IInv

(* The strengthening says what the runs check.                              *)
LEMMA InvAgrees == IInv => ComposerAgrees /\ SentToItsChat
<1> SUFFICES ASSUME IInv PROVE ComposerAgrees /\ SentToItsChat
  OBVIOUS
<1>1. NotesWhole
  <2> SUFFICES ASSUME Only(Ways \ {"twice"}), NEW s \in sent, s.what \subseteq Note
               PROVE  Cardinality(s.what) = 1
    BY DEF NotesWhole
  <2>1. PICK n \in Note : s.what = {n}
    BY DEF IInv, OneMic
  <2> QED
    BY <2>1, FS_Singleton
<1>2. TextKept /\ MicShown
  BY DEF IInv, Kept, TextKept, RecorderShown, MicShown, Microphone
<1>3. SentToItsChat
  BY DEF IInv, Straight, SentToItsChat, Misdirected
<1> QED
  BY <1>1, <1>2, <1>3 DEF IInv, Toasts, ComposerAgrees

(* ComposerAgrees: the composer loses nothing and hides nothing, for any    *)
(* contacts, pieces and bounds, apart from the ways the property tolerates. *)
THEOREM ComposerAlwaysAgrees == ChatSpec => []ComposerAgrees
<1>1. ChatSpec => []IInv
  BY InitInv, NextInv, PTL DEF ChatSpec
<1> QED
  BY <1>1, InvAgrees, PTL

(* SentToItsChat: what was written or recorded in a chat goes to its        *)
(* contact, however chats and channels change while it is encrypted.        *)
THEOREM AlwaysSentToItsChat == ChatSpec => []SentToItsChat
<1>1. ChatSpec => []IInv
  BY InitInv, NextInv, PTL DEF ChatSpec
<1> QED
  BY <1>1, InvAgrees, PTL
=============================================================================
