---------------------------- MODULE SecureFrames ----------------------------
(***************************************************************************)
(* The encrypted traffic of two peers from the moment both have sent their *)
(* hello: the end of the handshake and the messaging half of PeerSession   *)
(* (src/services/peer-session.ts) over the frame functions of              *)
(* src/crypto/session.ts and src/crypto/files.ts.                          *)
(*                                                                         *)
(* Each peer has its session when it has verified the other's hello, which *)
(* the other cannot see: the side that is first may send at once, and what *)
(* reaches the other before its own session is dropped without a word.     *)
(*                                                                         *)
(* What makes it hard is that every encryption and decryption is awaited:  *)
(* WebCrypto runs it off the main thread and several of them finish in any *)
(* order, while the DataChannel delivers frames in the order of send().    *)
(* Each handler is therefore split where it awaits: what runs before the   *)
(* await is one action, what runs after it another.                        *)
(*                                                                         *)
(* The DataChannel is ordered and reliable ({ ordered: true }, DTLS/SCTP)  *)
(* and is external: a queue of frames per receiving peer, lost only when   *)
(* the channel closes.  Ciphertext is abstracted to the message it seals;  *)
(* both peers hold the key, so a genuine frame always authenticates.       *)
(***************************************************************************)
EXTENDS Naturals, Sequences

CONSTANTS Peer,     \* the two browsers
          Text,     \* the texts the users may send, each once
          File,     \* the attachments they may send, each once
          NoFile,   \* "incomingFile is null"
          Author,   \* who sends each of them
          Chunks,   \* the number of 16 KiB chunks of each attachment
          Overlap   \* may a user start a send before the previous one ended?

Msg == Text \cup File

ASSUME PeerAssumption == \E a, b \in Peer : a # b /\ Peer = {a, b}
ASSUME MsgAssumption ==
    /\ Text \cap File = {}
    /\ NoFile \notin Msg
    /\ Author \in [Msg -> Peer]
    /\ Chunks \in [File -> Nat \ {0}]
    /\ Overlap \in BOOLEAN

Other(p) == CHOOSE q \in Peer : q # p
Own(p) == {m \in Msg : Author[m] = p}

VARIABLES
    hello,        \* how far each peer got with the other's hello
    session,      \* [Peer -> BOOLEAN]: this.session is not null
    dc,           \* the DataChannel's readyState, "gone" once this.dc is null
    ui,           \* the store's connection.state
    stage,        \* how far sendText / sendAttachment got with each message
    seqOf,        \* the sequence number a message's frame was sealed with, or 0
    chunksSent,   \* the chunks of each attachment handed to the channel
    sendSeq,      \* SecureSession.sendSeq
    recvSeq,      \* SecureSession.recvSeq
    net,          \* [Peer -> Seq(Frame)]: what the channel has yet to deliver
    opening,      \* frames whose decryption is in flight
    incomingFile, \* the attachment being collected
    joining,      \* collected attachments whose decryption is in flight
    shown,        \* how often onIncoming handed each message to the store
    ticked,       \* outgoing messages whose record became delivered: true
    rejected,     \* history: genuine frames refused by the replay check
    early         \* history: texts sent before the receiver had its session

sendVars == <<stage, seqOf, chunksSent, sendSeq, early>>
recvVars == <<recvSeq, opening, incomingFile, joining, shown, rejected>>
linkVars == <<hello, session, dc>>
vars == <<linkVars, ui, sendVars, net, recvVars, ticked>>

(* "sent" and "failed" are what the store and the user are told: the call  *)
(* returned its message, or returned null or threw.                        *)
Settled == {"idle", "sent", "failed"}
Stage == Settled \cup {"encryptingFile", "encrypting", "sending"}
Sealed == {"m", "fs"}                \* the frames that carry a sequence number
UiState == {"connected", "secure", "disconnected", "offline", "error"}
Frame ==      [t : {"m"}, m : Text, seq : Nat, k : Nat]
         \cup [t : {"fs", "bin", "fe"}, m : File, seq : Nat, k : Nat]
         \cup [t : {"ack"}, m : Msg, seq : Nat, k : Nat]
SealedFrames == {f \in Frame : f.t \in Sealed}
Buffer == [file : File, chunks : Seq(File \X Nat)]
NoBuffer == [file |-> NoFile, chunks |-> << >>]

SealedFrame(m) ==
    [t |-> IF m \in Text THEN "m" ELSE "fs", m |-> m, seq |-> seqOf[m], k |-> 0]
Plain(t, m, k) == [t |-> t, m |-> m, seq |-> 0, k |-> k]
WholeFile(f) == [i \in 1..Chunks[f] |-> <<f, i>>]

(* Both hellos are on their way.  Before that no session can come about:    *)
(* verifying a hello takes the key that createHello makes for one's own.    *)
Init ==
    /\ hello = [p \in Peer |-> "sent"]
    /\ session = [p \in Peer |-> FALSE]
    /\ dc = [p \in Peer |-> "open"]
    /\ ui = [p \in Peer |-> "connected"]
    /\ stage = [m \in Msg |-> "idle"]
    /\ seqOf = [m \in Msg |-> 0]
    /\ chunksSent = [f \in File |-> 0]
    /\ sendSeq = [p \in Peer |-> 1]
    /\ recvSeq = [p \in Peer |-> 0]
    /\ net = [p \in Peer |-> << >>]
    /\ opening = [p \in Peer |-> {}]
    /\ incomingFile = [p \in Peer |-> NoBuffer]
    /\ joining = [p \in Peer |-> {}]
    /\ shown = [m \in Msg |-> 0]
    /\ ticked = {}
    /\ rejected = [p \in Peer |-> {}]
    /\ early = {}

-----------------------------------------------------------------------------
(* Closing.                                                                 *)

(* teardown, once per session.  What was already sent may still arrive.     *)
Teardown(p) ==
    /\ session' = IF dc[p] = "gone" THEN session ELSE [session EXCEPT ![p] = FALSE]
    /\ dc' = [dc EXCEPT ![p] = "gone"]
    /\ net' = [net EXCEPT ![p] = << >>]

(* cancelSession: close() tears the session down and the store goes         *)
(* offline.                                                                 *)
Cancel(p) ==
    /\ ui[p] # "offline"
    /\ Teardown(p)
    /\ ui' = [ui EXCEPT ![p] = "offline"]
    /\ UNCHANGED <<hello, sendVars, recvVars, ticked>>

(* dc.onclose: the peer closed, or the network failed.  The state becomes   *)
(* "disconnected", but nothing is torn down: the session object stays.      *)
ChannelClosed(p) ==
    /\ dc[p] = "open"
    /\ dc' = [dc EXCEPT ![p] = "closed"]
    /\ net' = [net EXCEPT ![p] = << >>]
    /\ ui' = [ui EXCEPT ![p] = "disconnected"]
    /\ UNCHANGED <<hello, session, sendVars, recvVars, ticked>>

-----------------------------------------------------------------------------
(* The end of the handshake.                                                *)

(* The peer's hello was sent first and the channel is ordered: nothing is   *)
(* delivered before it.                                                     *)
HelloArrives(p) ==
    /\ hello[p] = "sent" /\ dc[p] = "open"
    /\ hello' = [hello EXCEPT ![p] = "verifying"]
    /\ ui' = [ui EXCEPT ![p] = "connected"]
    /\ UNCHANGED <<session, dc, sendVars, net, recvVars, ticked>>

(* establishSession resolved: nobody asks whether the session was closed.   *)
Established(p) ==
    /\ hello[p] = "verifying"
    /\ hello' = [hello EXCEPT ![p] = "over"]
    /\ session' = [session EXCEPT ![p] = TRUE]
    /\ ui' = [ui EXCEPT ![p] = "secure"]
    /\ UNCHANGED <<dc, sendVars, net, recvVars, ticked>>

(* It failed, or a timer ran out first: "error" and teardown, which shows   *)
(* "disconnected" over it if there is still something to tear down.         *)
HandshakeFails(p) ==
    /\ hello[p] = "verifying"
    /\ hello' = [hello EXCEPT ![p] = "over"]
    /\ ui' = [ui EXCEPT ![p] = IF dc[p] = "gone" THEN "error" ELSE "disconnected"]
    /\ Teardown(p)
    /\ UNCHANGED <<sendVars, recvVars, ticked>>

HandshakeTimesOut(p) ==
    /\ ~session[p] /\ dc[p] # "gone"
    /\ ui' = [ui EXCEPT ![p] = "disconnected"]
    /\ Teardown(p)
    /\ UNCHANGED <<hello, sendVars, recvVars, ticked>>

-----------------------------------------------------------------------------
(* Sending.                                                                 *)

(* dc.send(): in order, and into the void once the far end is closed.       *)
Send(p, frames) ==
    net' = IF dc[Other(p)] = "open"
             THEN [net EXCEPT ![Other(p)] = @ \o frames]
             ELSE net

(* dc.send() throws once the channel is closed or this.dc is null; sendText *)
(* and sendAttachment find out only there.  Mutant: they do not.            *)
CanSendAlways(p) == TRUE
CanSend(p) == dc[p] = "open"

(* The user waits for the call in hand to settle unless Overlap.            *)
MayStart(p) ==
    /\ session[p] /\ CanSend(p)
    /\ Overlap \/ \A m \in Own(p) : stage[m] \in Settled

(* Mutant of TakeSeq: the number is read but never advanced.                *)
TakeSeqNotAdvanced(p, m) ==
    /\ seqOf' = [seqOf EXCEPT ![m] = sendSeq[p]]
    /\ UNCHANGED sendSeq

(* session.sendSeq++, before the encryption is awaited.                     *)
TakeSeq(p, m) ==
    /\ seqOf' = [seqOf EXCEPT ![m] = sendSeq[p]]
    /\ sendSeq' = [sendSeq EXCEPT ![p] = @ + 1]

StartText(m) ==
    /\ stage[m] = "idle"
    /\ MayStart(Author[m])
    /\ stage' = [stage EXCEPT ![m] = "encrypting"]
    /\ TakeSeq(Author[m], m)
    /\ UNCHANGED <<linkVars, ui, chunksSent, early, net, recvVars, ticked>>

StartFile(f) ==
    /\ stage[f] = "idle"
    /\ MayStart(Author[f])
    /\ stage' = [stage EXCEPT ![f] = "encryptingFile"]
    /\ UNCHANGED <<linkVars, ui, seqOf, chunksSent, sendSeq, early, net, recvVars, ticked>>

(* encryptFile resolved: encryptMetadata(this.session, ...) throws when the *)
(* session is gone by now.                                                  *)
FileEncrypted(f) ==
    /\ stage[f] = "encryptingFile"
    /\ IF session[Author[f]]
         THEN /\ stage' = [stage EXCEPT ![f] = "encrypting"]
              /\ TakeSeq(Author[f], f)
         ELSE /\ stage' = [stage EXCEPT ![f] = "failed"]
              /\ UNCHANGED <<seqOf, sendSeq>>
    /\ UNCHANGED <<linkVars, ui, chunksSent, early, net, recvVars, ticked>>

(* encryptFile rejected: the attachment is above 25 MB, or unreadable.       *)
FileRefused(f) ==
    /\ stage[f] = "encryptingFile"
    /\ stage' = [stage EXCEPT ![f] = "failed"]
    /\ UNCHANGED <<linkVars, ui, seqOf, chunksSent, sendSeq, early, net, recvVars, ticked>>

(* Mutant of TextEncrypted: the call fails after the frame has gone out.    *)
TextEncryptedThenThrows(m) ==
    /\ stage[m] = "encrypting"
    /\ stage' = [stage EXCEPT ![m] = "failed"]
    /\ Send(Author[m], <<SealedFrame(m), Plain("ack", m, 0)>>)
    /\ UNCHANGED <<linkVars, ui, seqOf, chunksSent, sendSeq, early, recvVars, ticked>>

(* encryptFrame resolved: the frame and, right behind it, an "ack" that     *)
(* names the sender's own message.                                          *)
TextEncrypted(m) ==
    /\ stage[m] = "encrypting"
    /\ IF CanSend(Author[m])
         THEN /\ stage' = [stage EXCEPT ![m] = "sent"]
              /\ Send(Author[m], <<SealedFrame(m), Plain("ack", m, 0)>>)
              /\ early' = IF session[Other(Author[m])] THEN early ELSE early \cup {m}
         ELSE /\ stage' = [stage EXCEPT ![m] = "failed"]
              /\ UNCHANGED <<net, early>>
    /\ UNCHANGED <<linkVars, ui, seqOf, chunksSent, sendSeq, recvVars, ticked>>

(* encryptMetadata resolved: the "fs" frame goes out.                       *)
MetaEncrypted(f) ==
    /\ stage[f] = "encrypting"
    /\ IF CanSend(Author[f])
         THEN /\ stage' = [stage EXCEPT ![f] = "sending"]
              /\ Send(Author[f], <<SealedFrame(f)>>)
         ELSE /\ stage' = [stage EXCEPT ![f] = "failed"]
              /\ UNCHANGED net
    /\ UNCHANGED <<linkVars, ui, seqOf, chunksSent, sendSeq, early, recvVars, ticked>>

(* drain() resolved: the next chunk, and after the last one "fe" and "ack"  *)
(* in the same turn.                                                        *)
SendChunk(f) ==
    LET k == chunksSent[f] + 1
        last == k = Chunks[f]
        chunk == Plain("bin", f, k)
    IN  /\ stage[f] = "sending"
        /\ IF CanSend(Author[f])
             THEN /\ chunksSent' = [chunksSent EXCEPT ![f] = k]
                  /\ stage' = [stage EXCEPT ![f] = IF last THEN "sent" ELSE "sending"]
                  /\ Send(Author[f],
                          IF last THEN <<chunk, Plain("fe", f, 0), Plain("ack", f, 0)>>
                                  ELSE <<chunk>>)
             ELSE /\ stage' = [stage EXCEPT ![f] = "failed"]
                  /\ UNCHANGED <<chunksSent, net>>
        /\ UNCHANGED <<linkVars, ui, seqOf, sendSeq, early, recvVars, ticked>>

-----------------------------------------------------------------------------
(* Receiving.  A DataChannel message is one task of the event loop.         *)

Delivered(p) ==
    /\ dc[p] = "open" /\ hello[p] # "sent"
    /\ net[p] # << >>
    /\ net' = [net EXCEPT ![p] = Tail(@)]

Arrives(p, kinds) == Delivered(p) /\ session[p] /\ Head(net[p]).t \in kinds

(* Before the handshake is over a frame is dropped, with no notice to       *)
(* anybody; a chunk, because no attachment is being collected.              *)
DropEarly(p) ==
    /\ Delivered(p) /\ ~session[p]
    /\ UNCHANGED <<linkVars, ui, sendVars, recvVars, ticked>>

(* The replay check of decryptFrame / decryptMetadata.  Mutant: only the    *)
(* successor will do, as if no decryption were ever in flight.              *)
AcceptsSuccessor(p, f) == f.seq = recvSeq[p] + 1
Accepts(p, f) == f.seq > recvSeq[p]

(* It is made before the decryption is awaited; a refused frame is dropped  *)
(* with a notice that also sets the connection state to "secure".           *)
ReceiveSealed(p) ==
    /\ Arrives(p, Sealed)
    /\ LET f == Head(net[p]) IN
         IF Accepts(p, f)
           THEN /\ opening' = [opening EXCEPT ![p] = @ \cup {f}]
                /\ UNCHANGED <<rejected, ui>>
           ELSE /\ rejected' = [rejected EXCEPT ![p] = @ \cup {f}]
                /\ ui' = [ui EXCEPT ![p] = "secure"]
                /\ UNCHANGED opening
    /\ UNCHANGED <<linkVars, sendVars, recvSeq, incomingFile, joining, shown, ticked>>

(* A chunk is kept only while an attachment is being collected.             *)
ReceiveChunk(p) ==
    /\ Arrives(p, {"bin"})
    /\ LET f == Head(net[p]) IN
         incomingFile' = IF incomingFile[p].file = NoFile
                           THEN incomingFile
                           ELSE [incomingFile EXCEPT
                                   ![p].chunks = Append(@, <<f.m, f.k>>)]
    /\ UNCHANGED <<linkVars, ui, sendVars, recvSeq, opening, joining, shown,
                   rejected, ticked>>

(* Mutant of Complete: an "fe" is taken for the end of whatever there is.   *)
CompleteAlways(p, f) == TRUE
Complete(p, f) == incomingFile[p].file = f.m

(* finishIncomingFile up to its await: an "fe" that names another file, or  *)
(* none being collected, discards the buffer without a word.                *)
ReceiveFileEnd(p) ==
    /\ Arrives(p, {"fe"})
    /\ incomingFile' = [incomingFile EXCEPT ![p] = NoBuffer]
    /\ joining' = IF Complete(p, Head(net[p]))
                    THEN [joining EXCEPT ![p] = @ \cup {incomingFile[p]}]
                    ELSE joining
    /\ UNCHANGED <<linkVars, ui, sendVars, recvSeq, opening, shown, rejected, ticked>>

(* onDeliveryAck: ticks the message only when it is one of the receiver's   *)
(* own undelivered records.  A record exists once the send has returned.    *)
ReceiveAck(p) ==
    /\ Arrives(p, {"ack"})
    /\ ticked' = ticked \cup {m \in Own(p) : m = Head(net[p]).m /\ stage[m] = "sent"}
    /\ UNCHANGED <<linkVars, ui, sendVars, recvVars>>

(* Mutant of FrameOpened: the sequence number is checked again after the    *)
(* decryption, and a text that was overtaken is dropped.                    *)
FrameOpenedIfNewest(p, f) ==
    /\ f \in opening[p]
    /\ opening' = [opening EXCEPT ![p] = @ \ {f}]
    /\ recvSeq' = [recvSeq EXCEPT ![p] = IF f.seq > @ THEN f.seq ELSE @]
    /\ shown' = IF f.t = "m" /\ f.seq > recvSeq[p]
                  THEN [shown EXCEPT ![f.m] = @ + 1] ELSE shown
    /\ incomingFile' = IF f.t # "m"
                         THEN [incomingFile EXCEPT ![p] = [file |-> f.m, chunks |-> << >>]]
                         ELSE incomingFile
    /\ UNCHANGED <<linkVars, ui, sendVars, net, joining, rejected, ticked>>

(* decryptFrame / decryptMetadata resolved: recvSeq is assigned with no     *)
(* second look, then the text is shown or a fresh attachment buffer opens.  *)
(* Nothing here asks whether the session was closed meanwhile.              *)
FrameOpened(p, f) ==
    /\ f \in opening[p]
    /\ opening' = [opening EXCEPT ![p] = @ \ {f}]
    /\ recvSeq' = [recvSeq EXCEPT ![p] = f.seq]
    /\ IF f.t = "m"
         THEN /\ shown' = [shown EXCEPT ![f.m] = @ + 1]
              /\ UNCHANGED incomingFile
         ELSE /\ incomingFile' = [incomingFile EXCEPT
                                    ![p] = [file |-> f.m, chunks |-> << >>]]
              /\ UNCHANGED shown
    /\ UNCHANGED <<linkVars, ui, sendVars, net, joining, rejected, ticked>>

(* decryptFile resolved: AES-GCM accepts the ciphertext only whole and in   *)
(* order.  The success path then reads this.session!.peerFp, so a session   *)
(* closed meanwhile takes the catch branch too: "discarded", state secure.  *)
FileJoined(p, b) ==
    /\ b \in joining[p]
    /\ joining' = [joining EXCEPT ![p] = @ \ {b}]
    /\ IF b.chunks = WholeFile(b.file) /\ session[p]
         THEN /\ shown' = [shown EXCEPT ![b.file] = @ + 1]
              /\ UNCHANGED ui
         ELSE /\ ui' = [ui EXCEPT ![p] = "secure"]
              /\ UNCHANGED shown
    /\ UNCHANGED <<linkVars, sendVars, net, recvSeq, opening, incomingFile,
                   rejected, ticked>>

-----------------------------------------------------------------------------
Crypto ==
    \/ \E f \in File : \/ FileEncrypted(f) \/ FileRefused(f)
                       \/ MetaEncrypted(f) \/ SendChunk(f)
    \/ \E m \in Text : TextEncrypted(m)
    \/ \E p \in Peer : \/ \E f \in opening[p] : FrameOpened(p, f)
                       \/ \E b \in joining[p] : FileJoined(p, b)

Receive(p) ==
    \/ ReceiveSealed(p) \/ ReceiveChunk(p) \/ ReceiveFileEnd(p) \/ ReceiveAck(p)
    \/ DropEarly(p)

Connection(p) ==
    \/ Cancel(p) \/ ChannelClosed(p)
    \/ HelloArrives(p) \/ Established(p) \/ HandshakeFails(p) \/ HandshakeTimesOut(p)

Next ==
    \/ \E m \in Text : StartText(m)
    \/ \E f \in File : StartFile(f)
    \/ Crypto
    \/ \E p \in Peer : Receive(p) \/ Connection(p)

Spec == Init /\ [][Next]_vars

(* The browser finishes every cryptographic operation it was handed and     *)
(* delivers queued messages; users and the network owe nothing.             *)
Fairness ==
    /\ \A m \in Text : WF_vars(TextEncrypted(m))
    /\ \A f \in File : WF_vars(FileEncrypted(f) \/ FileRefused(f)
                             \/ MetaEncrypted(f) \/ SendChunk(f))
    /\ \A p \in Peer : WF_vars(HelloArrives(p)) /\ WF_vars(Receive(p))
    /\ \A p \in Peer : WF_vars(Established(p) \/ HandshakeFails(p))
    /\ \A p \in Peer : WF_vars(\E f \in opening[p] : FrameOpened(p, f))
    /\ \A p \in Peer : WF_vars(\E b \in joining[p] : FileJoined(p, b))

FairSpec == Spec /\ Fairness

-----------------------------------------------------------------------------
(* Properties.                                                              *)

TypeOK ==
    /\ hello \in [Peer -> {"sent", "verifying", "over"}]
    /\ session \in [Peer -> BOOLEAN]
    /\ dc \in [Peer -> {"open", "closed", "gone"}]
    /\ ui \in [Peer -> UiState]
    /\ stage \in [Msg -> Stage]
    /\ seqOf \in [Msg -> Nat]
    /\ chunksSent \in [File -> Nat]
    /\ sendSeq \in [Peer -> Nat]
    /\ recvSeq \in [Peer -> Nat]
    /\ net \in [Peer -> Seq(Frame)]
    /\ opening \in [Peer -> SUBSET SealedFrames]
    /\ incomingFile \in [Peer -> Buffer \cup {NoBuffer}]
    /\ joining \in [Peer -> SUBSET Buffer]
    /\ shown \in [Msg -> Nat]
    /\ ticked \subseteq Msg
    /\ rejected \in [Peer -> SUBSET SealedFrames]
    /\ early \subseteq Text

(* frameAad says a sequence number is "unique per frame" (session.ts:224):  *)
(* no two frames of one sender are sealed under the same number, however    *)
(* many encryptions are in flight at once.                                  *)
SeqUnique ==
    \A p \in Peer : \A m, n \in Own(p) :
        m # n /\ seqOf[m] # 0 => seqOf[m] # seqOf[n]

(* The replay check of decryptFrame and decryptMetadata never refuses a     *)
(* frame the peer really sent, although it reads a recvSeq that decryptions *)
(* still in flight have yet to raise, and that one finishing late lowers.   *)
(* It holds while users wait for one send to end before the next (~Overlap).*)
NoGenuineFrameRejected == \A p \in Peer : rejected[p] = {}

(* Everything q has received, or will without a further send, is numbered   *)
(* below s.                                                                 *)
AllBelow(q, s) ==
    /\ recvSeq[q] < s
    /\ \A f \in opening[q] : f.seq < s
    /\ \A i \in DOMAIN net[q] : net[q][i].t \in Sealed => net[q][i].seq < s

(* Sealed frames reach q in rising order, above all q has taken in.         *)
QueueRises(q) ==
    /\ \A i, j \in DOMAIN net[q] :
          i < j /\ net[q][i].t \in Sealed /\ net[q][j].t \in Sealed
             => net[q][i].seq < net[q][j].seq
    /\ \A i \in DOMAIN net[q] :
          net[q][i].t \in Sealed =>
             /\ recvSeq[q] < net[q][i].seq
             /\ \A f \in opening[q] : f.seq < net[q][i].seq

(* Why the replay check is harmless while users wait: one send at a time is *)
(* being encrypted, and its number is above all the receiver can yet hold,  *)
(* whichever decryptions are in flight and in whatever order they end.      *)
DeliveryOrder ==
    \A p \in Peer :
        /\ \A m, n \in Own(p) :
              stage[m] \notin Settled /\ stage[n] \notin Settled => m = n
        /\ QueueRises(p)
        /\ AllBelow(Other(p), sendSeq[p])
        /\ \A m \in Own(p) :
              stage[m] = "encrypting" =>
                 AllBelow(Other(p), seqOf[m]) /\ seqOf[m] < sendSeq[p]

(* The one way to lose a text without trace while the receiver's channel is *)
(* open is to send it before the receiver had its session.  Any other text  *)
(* reported as sent is queued, being decrypted, shown, or was refused with  *)
(* a notice.                                                                *)
TextsAccountedFor ==
    \A m \in Text :
        LET q == Other(Author[m]) IN
        stage[m] = "sent" /\ m \notin early /\ dc[q] = "open" =>
            \/ \E i \in DOMAIN net[q] : net[q][i].t = "m" /\ net[q][i].m = m
            \/ \E f \in opening[q] \cup rejected[q] : f.t = "m" /\ f.m = m
            \/ shown[m] > 0

(* After a session is torn down, or its channel closed, no send that was    *)
(* still awaiting its encryption is reported as sent any more.              *)
NothingSentOnceClosed ==
    [][\A m \in Msg : dc[Author[m]] # "open" /\ stage'[m] = "sent"
                         => stage[m] = "sent"]_vars

(* The channel implements the mailbox: each message is shown at most once,  *)
(* and only after its sender was told the whole of it is sent.              *)
Promise == INSTANCE Mailbox WITH sent <- {m \in Msg : stage[m] = "sent"},
                                 delivered <- shown
MailboxSpec == Promise!Spec

(* Every text reported as sent reaches the peer's store unless the peer's   *)
(* channel closes first, or the peer had no session yet when it was sent.   *)
TextArrives ==
    \A m \in Text :
        stage[m] = "sent" ~> \/ shown[m] > 0 \/ m \in early
                            \/ dc[Other(Author[m])] # "open"

-----------------------------------------------------------------------------
(* What comments and documents of the repository claim and the code does    *)
(* not do: TLC finds a counterexample when one is named in a configuration. *)

(* SECURITY.md:92: "Attachment chunking round-trip": an attachment sent     *)
(* over a channel that stays open arrives.                                  *)
AttachmentArrives ==
    \A f \in File : stage[f] = "sent" ~> shown[f] > 0 \/ dc[Other(Author[f])] # "open"

(* types/index.ts:177: delivery is marked when "the peer actually confirmed *)
(* receipt": a text that was shown to the peer is ticked in the end, unless *)
(* a channel closes.                                                        *)
DeliveryConfirmed ==
    \A m \in Text :
        shown[m] > 0 ~> m \in ticked \/ \E p \in Peer : dc[p] # "open"
=============================================================================
