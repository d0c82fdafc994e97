# FAST GUNS: a TLA+ verification project

FAST GUNS is a browser messenger. Two devices meet through a short-lived
rendezvous code at a small relay, open a WebRTC DataChannel, authenticate each
other over it and then exchange encrypted texts and attachments. Everything a
device keeps lies encrypted in IndexedDB under a password-protected vault.

This directory models the parts of it where order, interleaving and failure
decide whether the program is right: the frames on the DataChannel, the way two
sessions come up and go down, the relay, the vault's life on one device, the
records in it, and the screens that start and outlive all of these.
Paths below are relative to `src/`, the repository's root.

## 1. Inventory

| Component | Source | State | Operations | Hard behaviour |
| --- | --- | --- | --- | --- |
| Secure messaging | `src/services/peer-session.ts` 328-582, `src/crypto/session.ts` 180-302, `src/crypto/files.ts` | `sendSeq`, `recvSeq`, `incomingFile`, `sentCiphertexts`, the channel's buffer | `sendText`, `sendAttachment`, `onDataChannelMessage`, `finishIncomingFile` | every handler awaits WebCrypto between reading and writing this state; the next frame is handled meanwhile |
| Peer session lifecycle | `src/services/peer-session.ts` 94-326, 440-477, 588-619; `src/services/signaling-client.ts` | `pc`, `dc`, `session`, `closed`, `pendingIce`, `ephemeralPriv`, `peerHelloRaw`, two timers, socket | `host`, `join`, `negotiate`, `onSignal`, `runHandshake`, `completeHandshake`, `handleClosed`, `teardown` | two peers, a relay, timers, and a user who cancels; methods that resume after a teardown |
| Signaling relay | `mini-services/signaling/index.ts` | `channels`, `socketToChannel`, a `boundCode` per connection | `channel:create`, `channel:join`, `signal`, `channel:leave`, `disconnect`, the sweep | two maps and a closure variable that must agree; expiry inside other requests |
| Vault lifecycle | `src/store/app-store.ts` 365-477, 690-784, `src/storage/vault-store.ts`, `src/hooks/use-auto-lock.ts`, `src/components/{onboarding,recovery-import}.tsx`, `src/components/vault/unlock.tsx` | phase, `vaultStatus`, `privateRefs`, the `storage` singleton, the vault record and identity on disk | `boot`, `createIdentityAndVault`, `unlockVault`, `lockVault`, `recoveryImport`, `inAppImport`, `wipeEverything` | a lock, a reload or another operation between any two awaits |
| Auto-lock | `src/hooks/use-auto-lock.ts` | `lastActivity`, `hiddenAt`, the interval | activity, visibility, `check`, `updateSettings` | the effect starts over when a setting changes; a throttled interval |
| Encrypted storage | `src/storage/encrypted-store.ts`, `src/storage/meta-raw.ts` | `dbPromise`, connections, records sealed under the DEK | `put`, `get`, `list`, `listByPrefix`, `deleteDatabase` | a deletion that is blocked, writes that land in a later database, lists read key by key |
| Connection state in the store | `src/store/app-store.ts` 181-305, 499-563, `src/components/chats.tsx` 174-527 | `connection`, `privateRefs.session` | `hostSession`, `joinSession`, `cancelSession`, session callbacks | callbacks of an old session act on a newer one |
| Conversation store | `src/store/app-store.ts` 186-345, 485-679 | contacts, conversations, messages in memory and on disk | `sendText`, `onIncoming`, `onSecure`, `deleteContact`, `clearConversation`, ... | snapshots of the state taken before an await and written back after it |
| Backup files | `src/store/app-store.ts` 690-760, `src/crypto/backup.ts` | files the user keeps | `exportBackup`, `inAppImport`, `recoveryImport` | no storage between an import's wipe and its `initStorage`; record after record, under a session's writes |
| Security log | `src/storage/vault-store.ts` 193-209 | at most 500 records | `appendSecurityEvent` | concurrent trims |
| WANTED board | `src/storage/vault-store.ts` 236-263, `src/components/wanted.tsx` | posters and their media, object URLs | put, list, restamp, delete, play | several storage calls per poster; handlers that end after their board is gone |
| Screens | `src/components/{app-view,shell,landing,onboarding,contacts,settings,security}.tsx`, `vault/unlock.tsx` | `phase`, `overlay`, dialogs, forms | navigation and the operations it starts | an operation ends on another screen than the one it was started on |
| Chat screen and toasts | `src/components/chat.tsx`, `src/hooks/use-toast.ts` | draft, recorder, `chunksRef`, one toast | type, send, record | awaited sends and `getUserMedia` under a `ChatView` that changes contact or goes away |
| Identity and primitives | `src/crypto/{identity,primitives}.ts` | none | WebCrypto calls | assumed correct where they are used |
| Service worker, vendored widgets | `public/sw.js`, `src/components/ui` | none of the program's | | not modelled |

What makes each component correct:

* *Secure messaging.* A genuine frame is never refused; a sequence number never
  seals two frames; a message reported as sent arrives, at most once, or the
  channel went down; nothing is reported as sent on a closed channel.
* *Peer session.* Only a completed handshake with the expected identity is ever
  secure; candidates are not lost; a rendezvous is decided; a torn-down session
  stays down; the other side of a teardown notices.
* *Relay.* Two sockets at most meet under a code; a joiner hears its creator
  only; the maps agree; members are told of the end; a channel ends in time.
* *Vault.* What is on disk can be opened with its password at every point where
  the page might be reloaded; a lock clears memory; a wipe leaves nothing; no
  operation hangs; an idle or hidden vault is locked in time.
* *Connection state.* What is shown is the current session's; nothing of an
  earlier one stays alive; two sessions are never secure at once.
* *Conversations.* Memory and disk agree once nothing is in flight; a deleted
  contact leaves nothing; verifications and messages are not lost by accident.
* *Backups and log.* A file holds what was there and gives it back; nothing is
  deleted without a reason; the log keeps its newest events and stays bounded.
* *Board.* A poster on disk has its media and media have their poster; every
  object URL is revoked; what is deleted stays deleted.
* *Screens.* The screen fits the vault; an overlay finds its contact; whoever
  waits is answered; a contact marked verified was compared.
* *Chat.* Nothing goes to another contact; no text is lost by a failed send; an
  open microphone is shown; what is told last stays until it is dismissed.

## 2. The modules

| Module | Models | Theorems in |
| --- | --- | --- |
| `SecureFrames` | the frame traffic of a channel, from the moment both hellos were sent | `MessagingProofs` |
| `Mailbox` | what messaging promises (abstract): sent, then shown at most once | |
| `MCSecureFrames` | TLC's instance of `SecureFrames`: chunk counts | |
| `PeerSession` | one rendezvous of two peers, from `host()` / `join()` to secure, to the end | `ConnectionProofs` |
| `SignalingRelay` | the relay | `ConnectionProofs` |
| `Rendezvous` | what a rendezvous code promises (abstract) | |
| `VaultLifecycle` | the vault's life on one device | `VaultLifecycleProofs` |
| `AutoLock` | the timers that lock it | `VaultLifecycleProofs` |
| `SessionManager` | sessions of one device one after another, and what is shown of them | `SessionManagerProofs` |
| `ConversationStore` | contacts, conversations and messages, in memory and on disk | `ConversationStoreProofs` |
| `Backups` | exports, imports, the security log and attachments, over the same records | `BackupsProofs` |
| `WantedBoard` | posters, their media, and the boards that show them | `WantedBoardProofs` |
| `Screens` | phases, overlays, dialogs, and the operations they start | `ScreensProofs` |
| `Composer` | writing, recording and sending in a chat; the toast | `MessagingProofs` |
| `MCConversationStore`, `MCBackups`, `MCWantedBoard`, `MCScreens`, `MCComposer` | TLC's instances: symmetry, and which record belongs to whom | |

Three proof modules take two components together: `MessagingProofs` extends
`SecureFrames` and `Composer`, the two ends of a message, `ConnectionProofs` extends
`PeerSession` and `SignalingRelay`, `VaultLifecycleProofs` extends `VaultLifecycle`
and `AutoLock`. The second component of each pair therefore has names of its own for
what every module has: `ChatInit`, `ChatNext`, `ChatSpec` of `Composer`,
`RelayInit`, `RelayNext`, `RelaySpec`, `RelayFairSpec` of `SignalingRelay`,
`LockInit`, `LockNext`, `LockSpec` of `AutoLock`.

How they fit together. `PeerSession` brings up what `SecureFrames` uses;
`SessionManager` keeps of a session only what can outlive it, and adds the other
sessions of the device. `VaultLifecycle` is about keys and the order of writes of
the operations on the vault; `ConversationStore` and `Backups` are about the
records under one key, and in `Screens` the same operations only start and end,
over the screens. `Composer` takes a secure channel and an open chat as given and
lets both change at any time.

What a module does not follow may mostly happen at any moment: a channel closes, a
vault is locked, a session reports something. Three modules take in the other side
only in part, and their properties are about that part. `ConversationStore` has
locks, unlocks and reloads but neither an import nor a wipe, and an unlock reads
contacts and conversations in one step; it is `Backups` that has imports, and there
a load is one step, a lock does not come during an import (that is the subject of
`VaultLifecycle`), and only `deleteContact` and `clearConversation` are there of the
operations on a contact. `WantedBoard` has wipes, as an event of its own
(`Replaced`), and an unlock or an import only as a board that is mounted.

The modules from `SessionManager` on carry a history variable `amiss`. In this
code some races do have bad ends. Each such race is a named *way* (the module's
header lists them), recorded when it is taken, and each property says which
ways it tolerates: `Only({"cut"}) => P` reads "P, after anything else and
also after a reload with writes in flight". A property that is stated under few
ways is not a promise the code keeps in general; it says that nothing else
breaks it. `disturbed` and `Fragile` of `VaultLifecycle` are the same idea.

### SecureFrames

The state is one record of session and channel per peer and a sequence of frames
per direction. It begins where both peers have sent their hello and neither has a
session: `HelloArrives` and `Established` (or `HandshakeFails`,
`HandshakeTimesOut`) end the handshake of each peer on its own, so that the one that
is secure first may send to one that is not. What arrives there is dropped without a
word (`DropEarly`, `peer-session.ts:343`); the history variable `early` names the
texts that were sent to a peer without a session.

A send is cut at its awaits: `StartText` takes the sequence number (`TakeSeq`,
`sendSeq++` in `encryptFrame`), `TextEncrypted` puts the frame on the channel or
finds it closed. An attachment has more stretches: `StartFile` ... `FileEncrypted`
(or `FileRefused`, above 25 MB) ... `MetaEncrypted` ... one `SendChunk` per chunk.
On the other side `Arrives` hands the next event of the channel to
`onDataChannelMessage`: a sealed frame passes or fails `seq <= recvSeq` (`Accepts`)
at once and is then *being decrypted*; `FrameOpened` is the continuation, in any
order with respect to other decryptions, and assigns `recvSeq`. Binary chunks carry
no id and go to whatever `incomingFile` is (`ReceiveChunk`). `Cancel` is `close()`,
`ChannelClosed` the far end's `dc.onclose`.

`Overlap` says whether a user may start a send while another is unfinished. The
composer awaits a text before it takes the next (`chat.tsx` 84-103 has a
`sending` guard), and nothing guards `doSendAttachment`. `Overlap = FALSE` is the
careful user, `TRUE` everything the code lets happen.

`MailboxSpec` is the refinement: with `sent` = what the sender's store holds and
`shown` = what the receiver's store holds, every step is a step of `Mailbox` or a
stutter.

### PeerSession

The state has one record `ps[r]` per peer with the fields of the class (and one
`call` / `neg` field that says in which await a method is), the connection state
the store shows (`ui`), the relay's channel, the queue of relay events per socket
(`sig`) and the hello in the DataChannel. Each method is one action per stretch
between awaits: `negotiate` is `PeerJoined`, `SendOffer`, `SignalAcked`;
`onSignal(offer)` is `OfferArrives`, `OfferApplied`, `SendAnswer`, `SignalAcked`;
the handshake is `ChannelOpens`, `HelloMade`, `HelloArrives`,
`HandshakeCompleted`. None of them looks at `closed` again unless the code does.
WebRTC is external: a closed `RTCPeerConnection` never settles its promises, and
the channel opens when both sides have both descriptions and a candidate.
`invite` is chosen at the start: whether the identity the responder expects is
the host's.

### SignalingRelay

Node runs one handler at a time, so one action is one handler. Every `create` and
`join` sweeps first, as the code does. `Signal` takes any code that the sender
names: the handler (`index.ts` 153-172) asks neither whether the sender is a member
nor what its `boundCode` is, and relays to the creator what does not come from it.
`FreshCodes` says whether `generateChannelCode` ever repeats a code; the relay
itself does not enforce it, and `Rendezvous` (each code is good for one meeting) is
implemented only if it does not.

### VaultLifecycle

`disk` holds the vault record's key, the identity record with the key it is
sealed under, and the set of keys of all other records that `loadAllData` lists.
`refs` is the storage singleton, `privateRefs` and whether decrypted records are
in memory. `task[o]` says in which await operation `o` is, and what it captured.
The vault store's functions (`initStorage`, `saveVaultRecord`, `saveIdentity`,
...) keep their names and are one step each. `deleteDatabase` resolves although
it is blocked: `deleting` stays set until the browser has closed the connections
(`DeletionEnds`), and every open waits for it unless `dbPromise` holds a
connection (`handle`). `LockVault` is a button or the auto-lock timer and may
come at any moment the vault counts as unlocked. `Callback` and `WriteLands` are
the writes nobody awaits: they encrypt under the key they started with and open
whatever database is there afterwards. `Reload` ends the page anywhere; a blocked
deletion is then carried out or, if the browser died, not. The import dialog
exists in the `app` phase only, where `app-view.tsx` mounts it.

### AutoLock

Time is counted in units while the vault is open; `TimePasses` may not pass the
moment the interval is due by more than `MaxLate`. `Check` is the interval's
body, `activity`, `Hide` and `Show` the listeners. `Restarts` is the effect's
clean-up and set-up, which forgets both ages; it happens at an unlock and
whenever a setting changes, and settings change only after their record was
written (`updateSettings`, then `SettingsSet`); several saves may be under way.

### SessionManager

`sess[s]` holds, of the `s`-th session, the call to the relay it awaits, its
socket, its peer connection and the stage of its handshake; `current` is
`privateRefs.session`, `conn` the one connection state and the session that set
it. `Begins` is the synchronous part of `hostSession` / `joinSession`, offered by
the invite pane and by `CodePane`, `PastePane` and `ScanPane`. `CallFails` is the
store's `catch`, which sets `privateRefs.session` to null whichever session is
there.

A teardown stops nothing that is awaited. `Outlives` says what goes on: a negotiation
(`cut`, until its await throws: `NegotiationBreaks`), the making of the hello
(`HelloMade`, which shows "connected" for a closed session: `greeted`), the handshake
(`Secure`, `late`), and the decryptions of a session that was secure (`FrameFails`,
which shows "secure": `dropped`). `crossed` is the stage of a session that was torn
down because the peer's hello came before its own: it verifies that hello once its own
is made. With a call that fails or succeeds after `close()` (`outlived`) these are the
ways in which the code shows a session that is not the store's; each property
tolerates those that break it.

### ConversationStore

`mem` is the zustand store, `disk` the same records in IndexedDB. A callback
(`onSecure`, `onIncoming`) or a finished send (`Keep`, `Sent`) changes `mem` and
adds its writes to `pending`; `Lands` stores any of them, in any order. An
operation on a contact is a task: `Begin` takes the snapshot of the store, its
awaits are its places (`putContact`, `deleteContactRecord`, `findConvo`,
`deleteConvoRecord`, `listMessageKeys`, `deleteMessages`), and `PutBack` and `Finish`
write back what was computed from the snapshot. `findConvo` is the line that reads
the identity after the first await (`app-store.ts:648`): after a lock it throws, and
the deletion ends halfway (`cut`).

`lockVault` empties the store and drops the identity under whatever is running;
`unlockVault` brings the identity back and starts a load, which ends with
`loadAllData`; `Reload` loses what is pending. A load shows of every conversation
record it read the newest `MaxListed` messages (300 in `listMessages`): messages are
not ordered in this module, so `Newest` is any choice that is complete up to that
number. Which are the newest is the subject of `NewestShown` in `Backups`.
Each module's header lists its ways; here two are named for messages: `unheard` is one
stored for a peer without a conversation, `unlisted` one stored under a conversation
that was cleared, whose record, by which a load finds its messages, is gone.

### Backups

The records on disk are pairs of a store and a key, with the ciphertexts of
attachments and the log. `exportBackup` lists a store and reads key by key
(`ListKeys`, `GetRecord`); `during` keeps what was there all through it and what
ever was. `inAppImport` opens the file before it touches anything, then wipes
(`dropStorage`, `deleteDatabase`), is without storage until `initStorage`, and
restores record after record (`Restore`), in the order `NextRecords` gives; each
write may be refused. `appendSecurityEvent` puts, lists and deletes the surplus,
for every caller on its own. `Loaded` takes the newest `Limit` messages of a
conversation, as `listMessages` does; a message is stamped later than all that were
made in its conversation, that is, the device's clock is never set back.

`onIncoming` appends the message whatever is in memory and shows it if its contact
and conversation are there (`astray` if they are not). `deleteContact` and
`clearConversation` are tasks that hold the snapshot of the screen: `deleteRecord`,
`findConvo` (which throws after a lock: `cut`), `listMessageKeys`, `deleteMessage`
key by key, then the log, and `Finish` puts the snapshot back without the contact,
or without the messages (`stale` if that undoes anything). `getAttachmentUrl` is cut
at its read and its decryption, under chats that open and close. The identity and
the vault record of an import are in `VaultLifecycle`. One export at a time is a
bound of the model; the screen's `busy` flag sees to it until the screen is left.

### WantedBoard

A handler is a task with a place: `Save` seals the media one after another
(`FirstSeal`, `NextSeal`) and then writes the record; `cycleStatus` writes the
record it was rendered with; `handleDeleted` deletes the record and then the media,
of which any may be left (`deleteMedia`: a refused deletion is swallowed,
`orphaned`); a mounted board is listed with `ReadList`, which takes the first
`MaxListed` keys (500; `beyond` if there are more), and `Listed`, or with
`ListRefused`, whose `catch` shows an empty board (`unlisted`); `Refused` is any
other read or write that fails; `Open` reads and decrypts a medium for a card.
`board` is the board that is mounted, by number, so that a handler of an earlier one
changes disk and `registry` but nothing on the screen. `Replaced` is the wipe of an
import or of DELETE ALL DATA under handlers that go on. `live` counts object URLs
that were made and not revoked.

### Screens

`phase`, `nav` (the overlay and its contact), the state of the mounted overlay
and of the forms, and `tasks`: the operations under way, each with whether it is
still the mounted form's (`mine`) and with the snapshot it took. `Shows` gives
the rule React follows: an overlay of the same name keeps its state, one of
another name starts afresh. Every control is an action guarded by what the screen
shows (`At`, `AtTabs`, `Free`), every end of an operation an action that may come
at any screen. The tab is not kept, since with no overlay open each is one press
away.

### Composer

`view` is the mounted `ChatView` with its draft and recorder, `sends` the calls of
`sendText` and `sendAttachment` that are awaiting, `notes` the recordings: asked
for, live, stopping, leaked, done. `MicRefused` is a `getUserMedia` that fails; in
`NoRecorder` and `NotStarted` it has succeeded, and `new MediaRecorder` or `start()`
throws: the same `catch` tells of it and stops no track, so that the microphone stays
open (`leaked`). `peer` is whose channel is secure and `open` whose chat
is shown; they are two variables in the code as well. The toast is one record
with the timers that will remove it; successes and other screens tell things on it too
(`ToldElsewhere`), each in place of the last.

## 3. The runs

| Run | Question | Instance | Size |
| --- | --- | --- | --- |
| `frames_waiting` | Do order, acceptance and arrival hold for careful users? | texts m1, m2 and an attachment of two chunks from one peer, text m3 from the other, `Overlap = FALSE` | 345 thousand states |
| `frames_overlap` | What holds however sends overlap? | one text and two attachments (of two chunks and of one) from one peer, `Overlap = TRUE` | 740 thousand |
| `rendezvous` | Is every rendezvous decided, and safely? | two peers, one candidate each | 236 thousand |
| `relay` | Do the relay's maps stay consistent, and who hears whom? | four sockets, two codes | 107 thousand |
| `vault` | Does the vault survive locks and reloads anywhere? | two keys, two reloads, one operation at a time | 80 thousand |
| `autolock` | Does the vault lock in time? | a minute of 4 units, one or two minutes, a delay of 3, a period of 2, one unit late | 54 thousand |
| `sessions` | Does an earlier session leave the current one alone? | two sessions, one lock | 156 thousand |
| `conversations` | Do memory and disk agree? | two peers, two messages, two contact ids, two operations together, three writes in flight, one unlock, one message loaded, one way taken | 1.4 million |
| `backups` | Do backups round-trip, and is nothing deleted without a reason? | two contacts, three messages, one attachment, `Limit` and `LogLimit` 1, three operations, two under way when one starts, three writes in flight, one way taken | 6.3 million |
| `board` | Do posters and media stay together? | a poster with two media and one with none, two boards, two taps, two handlers when the user taps, one poster listed, one way taken | 2.0 million |
| `screens` | Does the screen fit the vault, whatever ends when? | two contacts, two operations under way | 2.3 million |
| `composer` | Does what is written go where it was written, and nowhere else? | two contacts, two pieces, two notes, two views, two toasts, one way taken | 4.8 million |

Every passing run explores its instance completely. `CHECK_DEADLOCK FALSE` stands
where users may stop or a bound is used up: sessions end, sockets close for good,
messages run out.

Why the bounds are enough. Frame hazards need two frames in flight in one direction
and one behind them, and a text, another and an attachment's metadata in one
direction reach every order of two decryptions with a third frame behind them;
attachments interact pairwise, through one `incomingFile`. A rendezvous has two
peers by design; one candidate can be early, in time or late. At the relay a code
has at most two members, so a third and a fourth socket are the outsiders, and two
codes suffice for a stale `boundCode` and a channel of somebody else. For the vault,
two keys are a vault and the one that replaces it, and two reloads a crash in an
operation and one in the operation that repairs it. Sessions act on one another
through `privateRefs.session` and `connection`, each of one value, so an old and a
new one show it. The same holds of a record: two writes of it, or a write and an
operation, or two operations with one write between them. The log and the message
window depend on what is above and what is below a limit, so a limit of one with two
or three entries has both sides of it. A toast, a recording or a `ChatView` is at
odds with one other. `MaxAmiss = 1` takes each way alone; the properties tolerate
ways one by one. By hand `Backups` was also run with two operations and four
messages (7.3 million states), and, with two contacts on disk and two operations,
for one way (5.3 million) and for two (10.6 million). With a third session the
liveness check takes longer than a regular run should.

### Properties, and what would break them

* `NoGenuineFrameRejected`, `DeliveryOrder`: the replay check never hits a frame
  the peer sent. Not obvious, because `recvSeq` is assigned after an await and can go
  *down*; it holds because frames arrive in rising order, so even the highest
  number ever assigned is below everything still to come.
* `TextsAccountedFor`, `TextArrives`: a text reported as sent is in the channel,
  being decrypted, in the peer's store, or the channel has closed, or it was sent
  before the peer had a session (`early`): the code loses those (section 5), and, the
  two properties say, no others.
* `SeqUnique`, `MailboxSpec`, `NothingSentOnceClosed`: what remains true when
  sends overlap.
* `NoCandidateLost`: a candidate that comes before, while or after the description is
  applied reaches `addIceCandidate`. `SecureIsEarned`: an unexpected identity
  is never secure, in whatever order hellos and teardowns come
  (`MismatchNeverSecure`), and a secure session needs both sides' hellos
  (`SecureNeedsBothHellos`).
* `RendezvousDecides`, `PeerTeardownNoticed`: nobody waits for ever.
* `MapsAgree`, `EndIsAnnounced`, `SignalsStayInChannel`, `OnlyMembersEndChannel`,
  `OldChannelsEnd`, `RendezvousSpec`: the relay's bookkeeping over three pieces
  of state and four sockets. `SignalsStayInChannel` is about whoever signals, under
  whatever code: what a joiner receives comes from the creator that was woken for it.
  A creator has no such promise (section 5).
* `VaultOpens`, `VaultAgrees` (with `ShownIdentityIsStored`), `WipeErases`: stated
  for every state that was not reached through one of the named moments
  (`Fragile`, a lock before an operation's last record, two operations at once).
  They say that the code breaks the vault there and nowhere else.
* `OperationsEnd`: a blocked deletion delays the next open and never deadlocks it,
  because `dbPromise` is dropped before the deletion is asked for.
* `LocksInTime`: `IdleLocks` needs the interval in time; `HiddenLocks` also that
  the effect did not start over on a hidden page.
* `SessionsAgree`, `OneSecureSession`, `RendezvousAnswered`: a socket that is up
  belongs to the session a lock would close; what is shown is that session's; its
  peer's keys are there when it is shown as secure; a pane is answered.
* `StoreAgrees`: contacts, messages and conversations each agree under the ways
  they are robust to, one contact per peer, and whatever is shown is stored or about
  to be. Messages agree up to the number a load takes. `DeletedLeavesNothing`,
  `RecordsKept`: deletion is complete, and the only thing that deletes.
* `BackupsRoundTrip`: `ExportsAll` (everything that was there throughout, nothing
  that never was), `RecordsWhole` (a message on disk has its conversation and
  contact at every point of an import), `ImportReplaces`. `RecordsAgree`: the newest
  messages are the ones shown, URLs can be revoked, the log is bounded.
  `DeletedForAReason`: concurrent trims never delete an event that is not surplus, and a
  record goes only with its own contact or conversation, a contact never with its
  conversation, or by an import whose file was opened.
* `MediaMatchPosters`, `BoardAgrees`, `DeletedStaysDeleted`: the order "media, then
  record" and "record, then media" survives reloads and refused writes, except the
  refused deletion of a medium; only a status written for a poster being deleted, a
  late list or a wipe brings one back.
* `ScreenAgrees`: phase and vault (`PhaseAgrees`), what a lock leaves
  (`LockedShowsNothing`), overlays and their contacts, waiting forms
  (`WaitersAreAnswered`), and the security page, which says that it "never shows a
  status the code has not earned" (`ClaimsAreEarned`). `VerifiedWasCompared`: no
  ticked box is carried over to another contact.
* `ComposerAgrees`, `SentToItsChat`: text, microphone, voice notes, the newest toast,
  and the addressee, over a `ChatView` that changes under its own callbacks.

### Fairness

Liveness assumes only what the platform gives: WebCrypto, socket.io and IndexedDB
settle what was started, the DataChannel delivers what is in it while it is
open, timers fire, the relay's `setInterval` runs, and the browser closes
connections nobody refers to. It is weak fairness of those actions one by one. In
`SessionManager` these are the end of a call (the client's own 12 and 15 second
timers), the connect timer of a joiner, and the end of a handshake's
cryptography. Users, candidates, cancels, locks, reloads and the network's
willingness to connect two peers owe nothing.

## 4. What is proved

Eight modules hold theorems that TLAPS checks for every value of the constants: any
number of sockets, codes, texts, contacts, records, posters, sessions, reloads,
operations in flight. Every safety property that a run checks, invariant or action
property, is the statement of one of them, and so are both refinements. Each safety
theorem has the same shape. An inductive invariant is stated as a conjunction of named
parts; one lemma gives it to the initial states, one lemma per handler, per group of
handlers or per part carries it through the steps, a lemma puts these together
along `Next`, and a last one derives the property. The invariants of the other modules
(`LifeInv`, `ManagerInv`, `BoardInv`, `StoreInv`, `VaultInv`, the two `IInv`) were
run through TLC first, over the instances of section 3 or ones like them, and both TLC
and the proofs made them stronger; the parts of the one of `BackupsProofs` were written
from what the proofs of the properties asked for, and TLC found the whole of it to hold
in the 6,270,401 states of the instance of `backups`.

| Module | Theorem | Property | Assuming |
| --- | --- | --- | --- |
| `MessagingProofs` | `TypeCorrect` | `TypeOK` | |
| | `SequenceNumbersUnique` | `SeqUnique` | |
| | `OrderWhileUsersWait` | `DeliveryOrder` | `~Overlap` |
| | `ReplayCheckHarmless` | `NoGenuineFrameRejected` | `~Overlap` |
| | `ClosedSendsFail` | `NothingSentOnceClosed` | |
| | `SentTextsAccountedFor` | `TextsAccountedFor` | |
| | `ChannelIsMailbox` | `MailboxSpec` (refinement) | |
| | `ComposerAlwaysAgrees` | `ComposerAgrees` | |
| | `AlwaysSentToItsChat` | `SentToItsChat` | |
| `ConnectionProofs` | `TypeCorrect` | `RelayTypeOK` | |
| | `MapsAlwaysAgree` | `MapsAgree` | |
| | `EndAlwaysAnnounced` | `EndIsAnnounced` | |
| | `SignalsNeverLeak` | `SignalsStayInChannel` | |
| | `OnlyMembersEnd` | `OnlyMembersEndChannel` | `FreshCodes` |
| | `RelayIsRendezvous` | `RendezvousSpec` (refinement) | `FreshCodes` |
| | `SecureMustBeEarned` | `SecureIsEarned` | |
| | `CandidatesAreKept` | `NoCandidateLost` | |
| `SessionManagerProofs` | `SessionsAlwaysAgree` | `SessionsAgree` | |
| | `NeverTwoSecure` | `OneSecureSession` | |
| `WantedBoardProofs` | `BoardAlwaysAgrees` | `BoardAgrees` | |
| | `MediaAlwaysMatch` | `MediaMatchPosters` | |
| | `DeletedNeverReturns` | `DeletedStaysDeleted` | |
| `ConversationStoreProofs` | `StoreAlwaysAgrees` | `StoreAgrees` | |
| | `DeletionLeavesNothing` | `DeletedLeavesNothing` | |
| | `RecordsAlwaysKept` | `RecordsKept` | |
| `VaultLifecycleProofs` | `VaultAlwaysOpens` | `VaultOpens` | |
| | `VaultAlwaysAgrees` | `VaultAgrees` | |
| | `WipeAlwaysErases` | `WipeErases` | |
| | `AlwaysLocksInTime` | `LocksInTime` | |
| `ScreensProofs` | `ScreenAlwaysAgrees` | `ScreenAgrees` | |
| | `VerifiedAlwaysCompared` | `VerifiedWasCompared` | |
| `BackupsProofs` | `RecordsAlwaysAgree` | `RecordsAgree` | |
| | `AlwaysRoundTrip` | `BackupsRoundTrip` | |
| | `AlwaysDeletedForAReason` | `DeletedForAReason` | |

The two assumptions of the last column are constants of the models, and both of
their values are real: `~Overlap` is the user who waits for a send to end,
`FreshCodes` a code generator that did not repeat itself. Without the first, the
order and the replay check do fail (section 5); without the second a stale
`boundCode` may name somebody else's channel, which nothing in the relay rules out.
Otherwise the theorems rest on the assumptions the modules name: null is not a
socket (`RelayAssumption`), no contact is null and there are finitely many
(`ScreensAssumption`), the numbered messages are finitely many and belong to
contacts, and what is on disk or in a file at the start has the conversations and
contacts it needs (`BackupsAssumption`), and the like. `VaultLifecycle` says that
`NoKey`, `Imported` and `Closed` differ pairwise, not that a set of them has three
elements: the same thing, in the form the provers can use.

### The arguments

*SecureFrames.* `NoGenuineFrameRejected` is not inductive: it says nothing of
frames that are not sent yet. Its strengthening is `DeliveryOrder` with
`SeqBehind`: per direction, `recvSeq` and every frame being decrypted lie below
everything in the channel, the channel's sealed frames rise, and all of these lie below
the number of the send in progress, which is below `sendSeq`. `~Overlap` is what
makes "the send in progress" one send. The mailbox needs another invariant,
`DeliveredOnce`, which holds whether sends overlap or not: the frame of a text is in
one place only while the text has not been shown (`TextOnce`), so is the first chunk
of an attachment (`FirstChunkOnce`), and no chunk is anywhere that was not sent
(`ChunksWereSent`). To the mailbox every step then posts one message, delivers
one, or does nothing. `TextsAccountedFor` is inductive text by text, from the
frame `TextEncrypted` puts on the wire to what `FrameOpened` makes of it (`Traced`);
`DropEarly` can hit only texts of `early`, because a session, once there, stays until
its channel is gone.

*SignalingRelay.* `MapsAgree` fails to be inductive because `leave` goes by
`boundCode` and not by `socketToChannel`; `RelayInv` adds that a member's
`boundCode` is its channel (anybody else's may be stale). Every handler is then one
of two effects on the maps: some channels are destroyed (`DestroyStep`), after
which, perhaps, a socket that was in none enters one (`EnterStep`). `BoundInv` is
for fresh codes: a stale `boundCode` names a code that is used up, so a `leave` ends
nobody else's channel. `SignalsStayInChannel` does not need fresh codes, nor
anything of `boundCode`: a signal goes by the channel that is there, its joiner is
sent to by the creator only, and `Woken` says that a creator with a joiner was woken
for it. The relay refines `Rendezvous` by mapping a code to who waits under it, who
meets there, and whether it is over.

*PeerSession.* The continuations of a session that was torn down go on, so that a
secure peer has both hellos behind it rests on what such a session can no longer do.
`LifeInv` says it: it never gets a remote description again, a hello is made once per
channel, and "peer-joined" finds the host untouched. For `NoCandidateLost` the
candidates are counted over the queue of the relay, `pendingIce` and those added;
the sum stays right only while both peers are in the channel, from the join on.

*SessionManager.* What is shown rests on what is left of the sessions that are
no longer the store's. `OthersLeft`: a session the store let go was closed, or its call
failed before anything had begun, and a closed one has neither socket nor connection
unless its call outlived `close()`. `AllOrderly`: while a call is awaited nothing has
been negotiated, and only a closed session is at a stage that `close()` has
overtaken.

*WantedBoard.* `BoardInv` says for every handler that is awaiting storage what it
has done so far and what it will do. Its core is `Exclusive`: unless a status was
written for a poster being deleted, the list came late or the database was wiped,
handlers of one poster that overlap do the same - a save ends before its poster can
be tapped, and a deletion hides the poster from every board that could tap it.

*ConversationStore.* A lock empties memory while writes and operations go on, so what
memory shows cannot carry the invariant. `StoreInv(h)` therefore speaks of a story `h`,
the memory that the disk, the writes and the operations account for: memory itself
while the vault is open, and what it was, or what a load would find, while it is not.
`Told`, that there is such a story, is the inductive invariant. `Story` names for every
contact, message and conversation on which `h` and disk differ the write in flight or
the operation that accounts for it. It has three parts, because the properties tolerate
different ways: `TimelyInv` holds until something was stale or resurrected, `WholeInv`
until a message was unheard or unlisted or something was cut short, `CalmInv` until
anything went wrong. `VaultInv` says what memory has to do with the story, and that
while a load is awaited nothing else is going on that it could miss. The core is
`Apart` and `OneTask`: in `Timely` states a peer has one operation
and no write that the operation could undo or that could undo it. TLC refused the first
version of it: an operation past its write, with the contact already deleted from memory
by nobody else, has to be the *only* account of the difference.

*VaultLifecycle.* `VaultInv` is the types, `Tied` (the import dialog is the app's,
and a forged identity onboarding's) and, until something was disturbed, `Calm`: one
operation runs at a time, and for each operation and each of its places it is said
which key the storage singleton, `privateRefs`, the vault record and the identity
record have by then (`CreateOK`, `UnlockOK`, `RecoveryOK`, `ImportOK`, `WipeOK`).
`AppOpen`, that the app once entered has its vault open and shows its identity, is
what makes `inAppImport` seal the imported identity under the key of the record it
writes back.

*AutoLock.* That an age is below its limit plus a period follows from what the interval
saw when it last ran. `InTime` and `Known` say so: each age exceeds its limit by
less than `sinceCheck`, and a hidden page is known to be hidden unless the
effect started over. `RestartsKeeps` covers the three steps that start the effect
over, the rest is one step per action.

*Composer.* What was typed or recorded for a chat reaches it because it is in one
place at a time and carries on record whose chat that was. `OnePlace`: a piece is in
the composer, in one text under way, or in what went, and a text under way from the
mounted `ChatView` is still in its composer. `Typed` and `Straight`: each of these
agrees with `meant`, and a send with the chat it was started in, apart from the ways
that `amiss` records. `OneMic` says that, until somebody pressed twice or left, the
recording under way is the visible one, so that a stop collects its own chunks;
`RecorderShown`, that the chat shows the recorder that runs, so that an open
microphone it does not show is one that the `catch` left.

*Screens.* An operation may end at any screen; what it may do there depends on whether
it is still that screen's. `Owned` says so (an unlock that is `mine` ends on the unlock
screen, and the later steps of the onboarding have an open vault), `Placed` that each part
of a screen exists in its phase only, and `Phases` is `PhaseAgrees` with the two
phases before the application. `Ticked` is what makes `VerifiedWasCompared`
inductive: a ticked box is the box of the contact on the screen, and an operation
that verifies holds a contact that was compared.

*Backups.* `Inv` is the types, `AllStaged` (which operation can be at which place, and
what it holds there), `OnlyOne` export and import, and a part for each property.

* `ExportKept`: whatever was there all along has been read, is among the keys to read, or
  belongs to a store that is still ahead; what was read was there at some time. It is
  over the order of the stores (`From`, `After`), not over a count of what is left.
* `ImportKept`: between its wipe and its last record an import finds only its own
  records on disk, and what it no longer has to write is there.
* `WholeKept`: until a write met a deletion, a message went astray or something was cut
  short, what a deletion or a clearing has deleted so far is not there
  (`DeletersClean`), which is why no record is left without what it needs when it ends;
  a record that comes to be has what it needs, one that goes belongs to a contact being
  deleted or to a conversation being cleared (`RecordsMove`); and an export that is not
  `torn` has read exactly what is on disk.
* `NewestKept`: while no import fills the disk, nothing on disk *or on its way there* and
  newer than what is shown of a conversation is missing, unless a message went astray or
  a snapshot was put back over it. It needs that every message of
  a record, a file or an operation has been made (`AllKnown`), since the next message is
  newer than all that were made in its conversation.
* `UrlsKept`: one live URL per registered attachment.
* `LogBound`: that the log exceeds its limit by at most the trimmings under way is
  not inductive, since each of these deletes what *it* found surplus. `LogWithin`
  says it for every set of trimmings taken away: the log is within the limit plus the
  others, or is so once one of those has deleted its keys. `LogKept` is what
  `DeletedForAReason` rests on: an event that is to be trimmed has `LogLimit` newer
  ones, and none of these goes before it.

Most of the lemmas of this module are of one kind: how a step can change one thing
(`SeenChanges`, `FilesChange`, `DeletersChange`, ...), with one case per action, after
which the part is proved for the few actions that do.

### Only model-checked

* Liveness, everywhere: `TextArrives`, `RendezvousDecides`, `PeerTeardownNoticed`,
  `OldChannelsEnd`, `OperationsEnd`, `RendezvousAnswered`. Fairness and
  `ENABLED` are out of the provers' reach here.
* That the constants' bounds (`MaxLate`, `MaxOps` and the like) do not hide behaviour is
  no question for the theorems that hold for all of them; it remains one for what TLC
  checks alone.

## 5. Disagreements between the code and what it says

Each of these formulas is in its module and states what a comment or a document
promises; the code does not keep it. They are not part of a run. Named as an
invariant or a property in a configuration of its module, each gives a
counterexample.

1. `SecureFrames!AttachmentArrives`: chunks that arrive while their metadata frame is
   still being decrypted find `incomingFile` null and are dropped
   (`peer-session.ts:388`).
2. `SecureFrames!DeliveryConfirmed`: the ack for a message is sent by its own sender
   (`peer-session.ts:503`), and the receiver looks for the id among its own.
3. `PeerSession!EarlyHelloUsed`: a hello that arrives while `createHello` is awaited
   fails the handshake (`peer-session.ts:485`).
4. `PeerSession!ClosedStaysClosed`: `completeHandshake` does not look at `closed` after
   its awaits (`peer-session.ts:466`).
5. `VaultLifecycle!RightPasswordOpens`: `inAppImport` reads `privateRefs.dek` after the
   wipe; a lock in between makes it null, and the vault is left without an identity
   (`app-store.ts:746`).
6. `VaultLifecycle!LockedMemoryEmpty`: `loadAllData` fills a store that was locked
   meanwhile (`app-store.ts:164`).
7. `VaultLifecycle!RecoveryIsHeard`: no dialog listens on the unlock screen
   (`unlock.tsx:151`, `app-view.tsx:146`).
8. `Composer!OfflineSendingFails`: "if the peer is offline, sending fails honestly"
   (`SECURITY.md:66`), but `sendText` goes to the store's one session, whichever
   chat is open (`app-store.ts:568`): the message is encrypted for the peer that is
   connected and shown in that peer's conversation.

Seen while modelling, and part of the models as ways or as plain behaviour:

* *Frames and sessions.* The side that is secure first may send at once; what
  reaches the other before its own session is there is dropped without a notice, and
  stays "sent" (`peer-session.ts:343`). `recvSeq` is called the highest accepted
  number (`session.ts:74`) and may go down (`session.ts:267`). Two sends in flight
  may reach the channel in the other order, and the later number is then refused as
  a replay (`session.ts:238`, README: "ordered/reliable"). A failed decryption after
  a close shows "secure" again (`peer-session.ts:382`, 433), and a hello that is
  made after it "connected" (320). The loss of the relay is reported as a disconnect
  of a session that lives on (`peer-session.ts:590`), and a failed acknowledgement
  of the relay tears down a session that is secure already (225). A cancel while the
  socket connects leaves the rendezvous running (`signaling-client.ts:67`), and its
  `catch` then forgets a newer session (`app-store.ts:519`). The relay accepts a
  code again after its channel is gone (`index.ts:104`, against 188-189), and relays
  to a creator whatever names its code, from any socket (`index.ts` 153-172).
* *Vault and records.* Leaving the onboarding at its backup step and creating a
  second vault keeps log records under the first key, on which `loadAllData`
  throws from then on (`app-store.ts:383`). A write in flight during a wipe lands in
  the next database (`encrypted-store.ts:100`). A snapshot put back by
  `deleteContact` or `markContactVerified` drops contacts and messages that arrived
  during its awaits from memory (`app-store.ts:654`). A lock during the first await of
  `deleteContact` ends it there: the contact is gone, its conversation and messages stay
  on disk (`app-store.ts:648`). What `onSecure` adds to a conversation that was
  cleared is stored without a conversation record and not loaded again
  (`app-store.ts:668`).
* *Backups.* "Backups round-trip" (`README.md:168`) holds of contacts,
  conversations and messages. A file holds neither attachment ciphertexts nor
  posters, and an import wipes both. What a session receives between the wipe and
  `initStorage` is shown and never stored (`vault-store.ts:46`). After an import that
  failed half-way, memory still shows contacts that are no longer on disk, and
  messages for them are stored without a contact. So is a message of a contact that is
  not in memory (`app-store.ts:262`).
* *Board.* A refused deletion of a medium is swallowed and leaves its ciphertext
  (`vault-store.ts:260`). Of more than 500 posters some are not listed
  (`vault-store.ts:251`), and a list that is refused shows an empty board
  (`wanted.tsx:70`), not an error.
* *Chat.* Leaving `ChatView`, or a lock, while a recording is live leaves the
  microphone open until the page goes (`chat.tsx:139`); two presses before
  `getUserMedia` answers leave a recorder that no button stops; and when the
  recorder cannot be made or started after the microphone was granted, its tracks
  are not stopped (`chat.tsx:150`). Text typed while a send is awaited is wiped with
  what was sent (`chat.tsx:90`). A draft stays in the composer when `onSecure` turns
  a mounted `ChatView` to another contact.
* *Screens.* An operation on a contact, an import or `loadAllData` that ends after
  a lock shows contacts over a locked vault until the next one; a list of
  contacts taken before a lock or an import replaces a newer one (`contacts.tsx:360`
  and the store's operations).
* *Auto-lock.* A setting that changes while the page is hidden makes the hook
  forget that it is hidden (`use-auto-lock.ts:56`), so that only idleness locks it.

## 6. Not modelled

* Cryptography itself: keys, nonces and signatures are what the code assumes of
  them. WebRTC, socket.io and IndexedDB are modelled from how the code uses them.
* Several tabs over one database; reads of the database that fail, a corrupted
  database. Reads and writes fail in `WantedBoard`, writes in imports, and nowhere else.
* The identity alert (`onIdentityMismatch` and its banner): that a mismatch is
  refused is modelled, that it is announced is not.
* Renaming a contact to what, the profile's name, storage statistics, the fields of
  a poster, a choice of file: data that no property tells apart.
* Input validation, rate of requests and the health endpoint of the relay.
* Layout, wording, animation, the vendored widgets (`src/components/ui`), static
  pages, the service worker's asset cache; the Prisma schema and the example
  server, which the application never calls.
* Changes of contacts and conversations other than `deleteContact` and
  `clearConversation` in `Backups`; imports and wipes in `ConversationStore`.
* In `VaultLifecycle`, operations are each in flight at most once, and statistics
  (`storageStats`) that open the database are left out. In `Screens`, two operations
  that are alike are not started together.

## 7. Plan

Done, in order: `SecureFrames` with `Mailbox`; `PeerSession`; `SignalingRelay` with
`Rendezvous`; `VaultLifecycle`; `ConversationStore`; `WantedBoard`;
`SessionManager`; `Screens`; `AutoLock`; `Composer`; `Backups`. Proved: both refinements
and every invariant and action property that a run checks.

Left, and why:

1. Liveness stays with TLC: fairness and `ENABLED` are beyond the provers used here.
2. The identity alert in `PeerSession` and the delivered flag (`updateMessage`) in
   `ConversationStore`. As the code stands nothing ever sets the flag (2 of section 5).
3. Pure algorithms against reference definitions: `toBase32`, `sliceChunks`,
   `conversationIdForPair`. Their data is strings and bytes, which no property here
   tells apart; what they compute for all inputs would need induction over data.
4. A model in which `ConversationStore` and `Backups` share one disk: what a verification
   or a new name, of which only the first knows, comes to in an import, which only the
   second has.
