# A verification development of StreamSSL

StreamSSL is a small pair of Windows programs, `scli` and `ssrv`, that talk
TLS over TCP by means of Schannel. This directory holds TLA+ modules that model
its socket, record, handshake and listener code, configurations that check them
with TLC, and proofs that TLAPS checks. The code is the reference: every
definition is translated from the source, and `PROJECT.json` says from which
lines ("map").

To check a module: `tlc -workers 2 -config MCListener.cfg MCListener`; to check
the proofs: `tlapm ListenerProofs.tla`, and so for each module named `...Proofs`.

## 1. Inventory of the system

| Part | Source | State it keeps | Operations |
|---|---|---|---|
| `CActiveSock`, client socket | `tools/scli/ActiveSock.cpp` | one `OVERLAPPED` and `RecvInitiated`, two deadlines, three events | `Connect`, `RecvPartial`, `RecvMsg`, `SendPartial`, `SendMsg`, timeouts, `Close` |
| `CPassiveSock`, server socket | `tools/ssrv/PassiveSock.cpp` | the same, with one timeout | `Recv`, `ReceiveBytes`, `Send`, `SendBytes`, `SetTimeoutSeconds`, `Disconnect` |
| `CSSLClient` | `tools/scli/SSLClient.cpp` | `readBuffer`, `readPtr`, `readBufferBytes`, cached plaintext, context, credentials, `m_LastError` | `Initialize` (handshake), `RecvPartial`, `SendPartial`, `Close` |
| `CSSLServer` | `tools/ssrv/SSLServer.cpp` | the same without cached plaintext; a credential and its name in statics | `Initialize` (handshake), `Recv`, `Send`, `Disconnect` |
| `CTransport` | `tools/ssrv/Transport.cpp` | owns a socket and a `CSSLServer` | construction runs the handshake |
| `CListener` | `tools/ssrv/Listener.cpp` | listening sockets and their events, stop event, listener thread, worker count | `Initialize`, `BeginListening`, `Listen`, `Worker`, `EndListening` |
| Programs | `StreamClient.cpp`, `StreamServer.cpp` | none | hello, reply, goodbye; certificate callbacks |
| Handles | `Handle.h`, `SecurityHandle.*`, `EventWrapper.h` | ownership of a system handle | move, `set`, `get`, `Close` |
| Client hello | `libs/Utilities/SSLHelper.cpp` | the bytes received and a position | `CanDecode`, `GetSNI` |
| Certificates | `SSLHelper.cpp`, `CreateCertificate.cpp` | the system's certificate stores, one key container | host names, `CertFindServerByName`, `CertFindClient`, `CertFindFromIssuerList`, `CreateCertificate` |
| Utilities | `Utilities.cpp` | none | logging, formatting |

**How they interact.** The listener thread accepts a connection, constructs a
`CTransport` and runs the whole handshake in that constructor; a worker thread
then calls the program's lambda, which calls `CSSLServer::Send` and `Recv`, which
call `CPassiveSock`. Every server socket waits on the listener's stop event
besides its own. All handshakes share the statics `g_ServerCreds` and
`g_ServerName`. On the client one thread calls `CSSLClient`, which calls
`CActiveSock`. The kernel is the other actor everywhere: it completes overlapped
operations, sets events, and writes to buffers after the call that posted them
has returned.

**What is hard.** (a) A receive that times out is left outstanding and picked up
by the next call, while buffer positions computed earlier must still be right.
(b) TCP cuts and joins records, so a record is assembled, decrypted in place and
its remainder kept, in a buffer that is used up from front to back. (c) Events are
shared between operations and with the stop event. (d) Deadlines are signed
times converted to unsigned milliseconds. (e) One event stands for any number of
connections waiting. (f) A failure in the middle of a handshake leaves a static
half changed. (g) A message is encrypted in a buffer an earlier send may still be read
from. (h) Both programs send before they receive. (i) Creating a certificate changes
the machine's store and key container step by step, and each step can fail. `PROJECT.json` "hazards" has the full list with lines.

**What makes each part correct.** Sockets: one receive at a time, no byte returned
twice or lost but by a loop that fails half way, no more reported than sent, bounded
waits, an end on stop. Receiving: the caller's bytes are the peer's, in order and
complete. Handshakes: the right certificate, no leaked or dead credential, the server's
certificate examined when Schannel hands it out, no mutual waiting, application data
behind the handshake kept, each handle
live while it is used and released at the end. Sending: the records of the session on
the wire, whole and in order. Certificates: the name the client asked for, the best
certificate for it, none created twice, no context left open by the search but the one
it returns (which its caller then never frees, `SSLServer.cpp:422-444`). Listener:
no connection forgotten, one owner for each, nothing started after the end.

## 2. Modules

```
ByteStream   <---- refined by ---- ClientRecv   ServerRecv        (TLS records)
                                        \         /
                                        RecvBuffer
Winsock <- OverlappedSock <- PassiveSock, ActiveSock              (sockets)
Handshake <- ServerHandshake, ClientHandshake -> Handle           (negotiation)
SecureSend                                                        (sending)
ClientHello, HostName <- CertSelect                               (certificates)
Listener                                                          (threads)
Conversation <- StreamSession                                     (both programs)

ClientRecvProofs, ServerRecvProofs, SecureSendProofs,             (proofs)
ClientHandshakeProofs, ServerHandshakeProofs, CertSelectProofs
                        each extend the module of their name
SocketProofs            extends ActiveSock, has PassiveSock as Passive!
ListenerProofs          extends Listener and Conversation, has StreamSession as Session!
```

* **`ByteStream`** is the abstract specification: bytes written, bytes delivered,
  the latter always a prefix of the former. Byte number `i` is represented by `i`.
* **`RecvBuffer`** is what the two receiving sides share: the peer's records, TCP,
  the one overlapped receive (`io`, with the address and room it was posted
  with), the security context that decrypts records in order, and `readBuffer`,
  whose cells hold the number of the ciphertext byte stored there. A pointer into
  the buffer is an index. `DecryptMessage` is modelled by what it does: it is
  given some cells and either they are the bytes that come next on the connection
  (whole record, part of one, or close notify) or the session fails.
* **`ClientRecv`** is `CSSLClient::RecvPartial`, one action for each stretch between
  two points where the kernel can get in between: the cached plaintext, the look at
  the buffered bytes, the turn of the `while` loop up to the socket call, and what
  follows the socket call. `RecvTimeout` returns with the receive outstanding.
* **`ServerRecv`** is `CSSLServer::Recv`, which never moves the buffer down and
  refuses a record longer than the caller's buffer. It has of `CPassiveSock::Recv` what
  decides whether a complete receive is taken: `RecvEndTime` has passed or not (`late`; no
  receive renews it, only `SetTimeoutSeconds`, and behind it the socket does not look at
  the event), and the event, which `Send` clears (`read_event`).
* **`Winsock`** is external: events, one receive and one send, the clock in seconds,
  and the `DWORD` that a negative number of seconds wraps in (`WaitSeconds`).
  `WSAGetOverlappedResult` with `bWait` is taken to wait until the operation it is
  asked about is complete, also when another completion has set the event.
* **`OverlappedSock`** holds the members of a socket object, the progress of a call and
  what becomes of an abandoned send. The bytes a loop has moved (`moved`) count as
  returned only when the call returns them; when a later turn fails the call returns
  `SOCKET_ERROR`, and they are `dropped` (`PassiveSock.cpp:127-128`,
  `ActiveSock.cpp:240-241`). **`PassiveSock`** and **`ActiveSock`** are
  the calls. A call is entered, starts its operation (pending, complete at once, or
  failed), waits, and gives its result or goes round the loop of
  `ReceiveBytes`/`RecvMsg`/`SendBytes`/`SendMsg`. The index that
  `WaitForMultipleObjects` returns is in the guards.
* **`Handshake`** is what both negotiation loops share: flights of the peer of
  `FlightSize` bytes, arriving in pieces, and Schannel consuming them (external).
  **`ServerHandshake`** goes on from connection to connection, with the cached
  credential, the name in the client hello, and each failure where the code leaves
  the loop. **`ClientHandshake`** has `fDoRead`, the request for credentials, the
  check of the server's certificate, with the query that fails and is only logged
  (`certUnread`, `SSLClient.cpp:600-606`), `Close` and `Disconnect`, and a server that may
  stop doing anything (`silent`). Its two handles are
  those of **`Handle`**, whose operators say what closing and moving do; `closed` counts
  how often each object of the system was closed.
* **`SecureSend`** is `CSSLClient::SendPartial` and `CSSLServer::Send`, one instance for
  each (`side`): the limit on the length, the copy, the encryption in place, and the
  socket call, which `CActiveSock::SendMsg` repeats and `CPassiveSock::Send` does not.
  The kernel (external) takes one byte at a time from `writeBuffer` *as it is then*, and
  may complete a send with a part of its bytes or with none, which ends the loop of
  `SendMsg`; a call may give up and leave its send behind. Ciphertext bytes are numbered in
  the order the session made them.
* **`Conversation`** is the state of one connection between the two programs and what is
  promised of it. **`StreamSession`** composes the programs over whole messages: the client's `main`
  after `Initialize`, the worker's lambda, TCP with room for `Room` messages ahead of a
  reader, the key that stops the server, and the deletion of the transport in the order
  of its destructor. What a send or receive of one message is, is taken from
  `SecureSend`, `ClientRecv` and `ServerRecv`.
* **`ClientHello`** is `CSSLHelper`: `CanDecode` and `GetSNI` over the bytes, by the same
  additions of lengths as the code: `Round` is a turn of its loops, `Rounds` where each
  turn comes to. The encoding of a hello and the name it asks for (`Asks`) are the
  reference it is compared with. **`HostName`** is `HostNameMatches` with the `CString`
  and Windows functions it calls, the pattern as what it means: where in the name each
  of its characters ends; `Covers` is what is meant by `HostNameMatches`, label by label.
  **`CertSelect`** has the two searches with their certificate contexts, the choice by
  issuers, and `CreateCertificate` step by step, each of which may fail. One request
  follows another over the same store.
* **`Listener`** has the main thread, the listener thread and the workers; `FD_ACCEPT`
  is posted once until `accept` answers it, and again by `accept` when more wait.

The `MC...` modules give the constants; each `.cfg` is one configuration.
Definitions with "Mutant:" before them are variants of the one that follows:
plausible bugs, each of which makes a property fail, so that the property is known
to say something.

## 3. What the runs check

| Run (`.cfg`) | Shows |
|---|---|
| `MCClientRecv` | `BufferAligned`: the buffered bytes are those that come next. `PendingTarget`: an outstanding receive writes right behind them, inside the buffer. `FullMeansTooLong`: the error for a full buffer is only for a record longer than the buffer. `ImplementsByteStream`. `AllDelivered`: everything written arrives, unless the connection is aborted or a record is too long |
| `MCServerRecv` | the same for the server up to a refused record (`AlignedUntilLost`) and nothing behind one (`ImplementsByteStream`), and `AllReceived`: what was written arrives, unless the connection is aborted, a record was refused, the buffer is used up, the deadline passes or `Send` has cleared the event of a complete receive |
| `MCPassiveSock`, `MCActiveSock` | `BytesReturnedOnce`: every byte received is returned by one call, is with the loop under way or waits for the next call, but for those a loop had when a later turn failed; `NotOverReported`; for the client `OneReceive`, for the server `RecvWaitBounded` and `StopReturns`: after the stop event every call returns |
| `MCListener` | `NoLostConnection`, `NoLateWorker`; `EverySocketServed`, `StopEnds` |
| `MCServerHandshake` | `OneCredential`, `ExtraKept`, `HandshakeEnds` with every failure; `NamedCredential`: a handshake that goes on with a live credential has that of the name its client asked for |
| `MCClientHandshake` | `CertificateSeen`: no connection without a look at the server's certificate, unless Schannel does not hand out the one it has; `ServerTurn` (no mutual waiting); `HandshakeEnds`, unless the server falls silent; `HandlesLive`: Schannel is given no closed handle; `HandlesReleased`: in the end nothing is left open |
| `MCSecureSend` | `WireGenuine`: the wire carries the session's records byte by byte, as long as nobody sends again after a failure; `NothingMissing` after calls that succeeded in full; `SendReturns` |
| `MCStreamSession` | `WholeConversation`: all three messages arrive when nothing was given up; `FreedIdle`: the transport's buffers are freed with no operation on them unless the worker gave up on one; `BothEnd` |
| `MCCertSelect` | `NameFound`: however a hello arrives, the search is for its first host name, once it is whole; `BestChosen`: the certificate covers that name, and one signed by somebody else goes before a self-signed one; `NoSecondCertificate` for a name, also when the creation of the first was reported as failed; `ContextsBalanced`: each way through the server's search frees what it opened, but for the certificate it returns and one a failed creation leaves; `RequiredGiven`: the client returns a certificate it has the key for, from an issuer the server named if there is one |

Two more runs each check one statement that a comment in the code makes and the code
does not keep; `PROJECT.json` "findings" quotes the comment and the lines:
`MCServerRecvRoom` (the buffer runs out of room) and `MCServerHandshakeStale` (a freed
credential stays cached).

Further configurations do the same for other disagreements. They are kept beside the
runs, and each is violated when checked:

| Configuration | Property | What the code says and does |
|---|---|---|
| `MCPassiveSockClaims` | `SendWaitBounded` | `PassiveSock.cpp:205` says `SendBytes` "sends all the data or returns a timeout"; it sets `RecvEndTime` instead of `SendEndTime` (209), and a send after `SendEndTime` waits for some 49 days (187-189) |
| `MCPassiveSockClaims` | `CompletionSeen` | `PassiveSock.cpp:53` says of a retry "maybe it completed in the meantime"; a `Send` in between clears the event of the receive (181) |
| `MCPassiveSockClaims` | `RetryTakes` | the same comment; behind `RecvEndTime`, which `Recv` never renews, a retry does not look at the receive (`PassiveSock.cpp:84`) |
| `MCListenerWorkers` | `WorkersAwaited` | `Listener.cpp:238` says "wait for all the worker threads to terminate"; nothing increments the count the loop at 241 waits for |
| `MCActiveSockClaims` | `RecvWaitBounded` | `ActiveSock.cpp:144-145` says `RecvPartial` times out; after a partial read the deadline stays (line 215), and once it has passed the next receive waits for 49 days (197) |
| `MCActiveSockClaims` | `RetryOutstanding` | `ActiveSock.cpp:154` takes `RecvInitiated` for "the previous read timed out"; it is also left set when `WSARecv` failed at once (171) |
| `MCActiveSockClaims` | `SendCompletionSeen` | `ActiveSock.cpp:330` says "The write event" of the index of the stop event: a send that completes while waited for is reported as an error |
| `MCServerHandshakeRefused` | `RefusalReported` | `Transport.cpp:47-49` expects `SEC_E_CERT_UNKNOWN` for a refused client certificate; `SSLServer.cpp:567` leaves the error at 0 |
| `MCClientHandshakeClaims` | `CertificateAlwaysSeen` | `SSLClient.cpp:421` says "We'll check the certificate ourselves"; a query for the certificate that fails is logged (600-606), and the loop goes on and connects |
| `MCClientHandshakeClaims` | `AnonymousAttempt` | `SSLClient.cpp:727-729` promises an anonymous attempt when no credential is found; the loop is left (746) |
| `MCClientHandshakeClaims` | `CloseNotifySent` | `SSLClient.cpp:836` sends the close notify from a buffer that was set to `NULL` (823-832) |
| `MCClientHandshakeClaims` | `ClosedOnce` | `m_hContext.Close()` (`SSLClient.cpp:632`, 773) leaves the handle its value (`SecurityHandle.cpp:10-13`), and the destructor closes the same context again |
| `MCSecureSendPart` | `NoPartReported` | `SSLServer.cpp:253` says the message is sent; a part the socket moved is reported as the whole length (317-332) |
| `MCStreamSessionFreed` | `FreedIdleAlways` | `Transport.cpp:60` deletes the `CSSLServer` with its buffers before the socket (61) whose outstanding operations use them |
| `MCCertSelectKeys` | `KeysKept` | `CreateCertificate.cpp:156` says "The key we made earlier"; the next creation, failed or not, replaces the key in the one container (17, 59) |

A configuration with several of these properties stops at the first violation; `tlc
-continue` reports the others.

Each module also has a type invariant, and some have invariants that the runs' own
imply or that a theorem states (`Accounted` and `NeverFailed` of `ClientRecv`,
`NothingBehindAGap` of `ServerRecv`, `OneOwner` of `Listener`, `OneReceive` of
`PassiveSock`, `ExtraKept` of the client's handshake). They hold at the same bounds, add
them to the `INVARIANTS` line of the configuration to see it, and section 4 proves them.

### Bounds, and why they are enough

* Receiving, client: three records of 1, 2, 4 or 6 bytes on the wire (`Overhead` 1,
  `Sizes` 0, 1, 3, 5) and a buffer of 5. A record can arrive in several pieces, two
  records and a piece of the third fit the buffer together, every offset of `readPtr`
  occurs, and the tail of the buffer is used up with a part of a record before it,
  which is the case that moves data down. An empty record, a caller's buffer smaller
  than a record, and a record longer than the buffer are included. The proofs have no
  bounds. Server: records of 1, 2 or 4 bytes, where the buffer is used up from front
  to back; `MCServerRecvRoom` uses a buffer of 8, the code's ratio of two records to
  a buffer. `Window` bounds how far the peer runs ahead; in all runs it is no limit.
* Sockets: a clock of three seconds with a timeout of one, so that a deadline can be
  ahead, reached and past; two bytes in each direction and messages of up to two, so
  that a loop can go round; two abandoned sends at a time. The wrap of the `DWORD` is
  at 20 seconds, more than anything the clock reaches.
* Listener: two sockets (one per address family) and three clients, so that one
  event can stand for two connections while another socket has one. Clients come
  back, so three are as good as many.
* Sending: messages of nothing, one and two bytes, and one longer than the limit of two,
  a record of up to three bytes in a buffer of that size, and six bytes of ciphertext in
  all, two records and more, so that a message can be encrypted over one that is still
  being read, and each send can be cut at every byte.
* Both programs: room for one message ahead of a reader, the least there can be; more
  room only removes waiting.
* Certificates: stores of up to two of six certificates (signed or self-signed, with one
  name, several or none, wildcards, without a key), names of one to three labels with
  capitals and stars, six hellos with the name first, last, second in its list, or not
  there, and lengths that need both of their bytes (`Byte` is 16, the random one byte);
  two requests, so that the second finds what the first has made.
* Handshakes: two or three flights, each arriving in up to three or four pieces, two
  or three bytes of application data behind them; two names and three handles on the
  server, so that a handle can be freed, kept and replaced.

Deadlock is checked except where a configuration says otherwise: there the modelled
system may come to rest (the peer has sent its records, the threads have ended, the
program is over).

### Fairness

* `ClientRecv`: a completed receive is reported (the kernel), the
  thread of a caller that keeps calling runs (weak fairness), and a call that finds
  the receive complete again and again takes it (strong fairness on `RecvBytes` and
  `RecvError`: a timeout can disable them each time, but a retry renews the deadline,
  `ActiveSock.cpp:158`, and is woken at once when the receive is complete). Nothing is
  assumed of the peer or of TCP.
* `ServerRecv`: the kernel reports and the thread runs, weak fairness only. The server's
  socket renews its deadline in no receive, so that a retry may find the receive complete
  again and again and not take it; `AllReceived` says so (`late`, `CompletionMissed`).
* `PassiveSock`: the calling thread runs and the kernel completes sends. Not that
  bytes ever arrive, nor that the clock reaches a deadline: the stop event is enough.
* `Listener`: the threads run. A handshake and a lambda are one step, justified by
  `StopReturns` and `HandshakeEnds`. Nobody has to connect or press the key.
  `EverySocketServed` carries its own condition: the sockets before this one become
  quiet.
* `SecureSend`: the thread runs, the kernel sends (the peer reads), and a caller learns
  of an aborted connection. A deadline is not relied on.
* `StreamSession`: the threads run, TCP delivers, a send on a dead connection fails and
  the server's receive times out (`RecvWaitBounded`). The deadlines of sends and of the
  client are not relied on: once passed they are 49 days away. The client ends because
  the server does, unless the network fails (`cut`).
* `CertSelect`: safety only, none.
* `ServerHandshake`: the loop's thread runs; a receive returns with bytes, or fails at its
  deadline (`RecvWaitBounded`; `PassiveSock.cpp:84` refuses to wait past it). A send
  completes.
* `ClientHandshake`: the loop's thread runs while the server is not `silent`: a server
  that is there answers, or closes at its own deadline. The client's deadline is not
  relied on: `scli` sets it once, before it connects (`StreamClient.cpp:132`), and once it
  has passed a receive waits some 49 days.

## 4. What is proved

All of it for every value of the constants: any sizes of buffers, records and messages,
any number of sockets, connections, flights, stores and requests. The bounds of the
runs play no part, but for those that are in the guards (`MaxBytes`, `MaxNow`,
`MaxStrays`, `MaxRequests`), which may be any number.

| Module | Theorem | Statement |
|---|---|---|
| `ClientRecvProofs` | `Invariant`, `TypeCorrect` | `IInv`, `TypeOK` always hold |
| | `Aligned`, `PendingOnTarget`, `AllAccounted`, `SessionKept` | `BufferAligned`, `PendingTarget`, `Accounted`, `NeverFailed` always hold |
| | `FullOnlyWhenTooLong` | `Spec => []FullMeansTooLong` |
| | `NeverInexplicablyFull` | `RecordFits` (a record fits the buffer) implies `NeverFull` always holds |
| | `Implementation` | `Spec => ImplementsByteStream` |
| `ServerRecvProofs` | `Invariant`, `TypeCorrect` | the same |
| | `InStepUntilLost`, `NoGap` | `AlignedUntilLost`, `NothingBehindAGap` always hold |
| | `Implementation` | `Spec => ImplementsByteStream` |
| `SocketProofs` | `Invariant`, `TypeCorrect`, `OneReceiveAtATime`, `ReturnedOnce`, `NoOverReport` | for the client's socket: `IInv`, `TypeOK`, `OneReceive`, `BytesReturnedOnce`, `NotOverReported` |
| | `PassiveInvariant`, `PassiveOneReceive`, `PassiveReturnedOnce`, `PassiveNoOverReport` | the same for the server's |
| | `PassiveRecvBounded` | a receive of the server waits no longer than its timeout: `RecvWaitBounded` |
| `SecureSendProofs` | `Invariant`, `TypeCorrect`, `RecordsInOrder`, `RecordsWhole` | `IInv`, `TypeOK`, `WireGenuine`, `NothingMissing` |
| `ServerHandshakeProofs` | `Invariant`, `TypeCorrect`, `OneLiveCredential`, `CredentialOfTheName`, `ExtraBytesKept` | `IInv`, `TypeOK`, `OneCredential`, `NamedCredential`, `ExtraKept` |
| `ClientHandshakeProofs` | `Invariant`, `TypeCorrect`, `CertificateExamined`, `NoMutualWait`, `ExtraBytesKept` | `IInv`, `TypeOK`, `CertificateSeen`, `ServerTurn`, `ExtraKept` |
| | `LiveHandles`, `ReleasedHandles` | `HandlesLive`, `HandlesReleased` |
| `ListenerProofs` | `Invariant`, `TypeCorrect`, `WakeUpNotLost`, `OneThreadEach` | `IInv`, `TypeOK`, `NoLostConnection`, `OneOwner` |
| | `WorkersBeforeTheEnd` | `Spec => NoLateWorker`, an action property |
| | `SessionInvariant`, `SessionTypeCorrect`, `ConversationWhole`, `BuffersFreedIdle` | of `StreamSession`: `SessionIInv`, `TypeOK`, `WholeConversation`, `FreedIdle` |
| `CertSelectProofs` | `Invariant`, `TypeCorrect`, `EveryContextFreed`, `UsableCertificate`, `OneCertificatePerName` | `IInv`, `TypeOK`, `ContextsBalanced`, `RequiredGiven`, `NoSecondCertificate` |
| | `FirstSuitable` | `BestMatch`: of the certificates `HostNameMatches` accepts, the first signed by somebody else or, without one, the first |
| | `HostNames` | for all names, `HostNameMatches(host, dns)` exactly when `Covers(dns, host)` |
| | `HostNameOfHello` | for every hello, `GetSNI(Encoded(h)) = Asks(h)` |
| | `NamesKept`, `FirstHostName`, `BestCertificate` | `NamesInv`, `NameFound`, `BestChosen` |

Every safety invariant and action property that a run of section 3 expects to hold is
among these.

**Assumptions.** Those of the modules, which TLC evaluates on every run: sizes and bounds
are naturals, a record has a header, the buffer is not empty, a caller gives room for at
least one byte, what a record needs beyond its text fits `MaxExtraSize`, the `DWORD` wraps
beyond what the clock reaches, there is at least one listening socket, there are
certificate stores that are sequences of certificates whose names are sequences of
characters, with those of `CreateCertificate`'s own making as it could have made them, one
for a name (`StoresAssumption`), the requests are hellos, with any number of extensions
and names of any length (`RequestsAssumption`), and a byte of a length takes two values at
least (`HelloAssumption`).

### The inductive invariants

None of the properties is inductive alone. Each proof module starts with the conjunction
that is (`IInv`); TLC has checked its parts as invariants of the module's run. Then come
lemmas on the operators of the model, one lemma for each action, or for the actions that
do the same to the invariant, the lemma for `Next`, and the theorems.

* **Client receive.** `BufferAligned` says that the cells at `readPtr` hold the bytes that
  follow the last record decrypted, counting those a completed receive has just written.
  To keep it when the kernel writes, the receive must have been posted right behind the
  buffered bytes (`PendingTarget`), and that stays true over timeouts only because nothing
  moves the buffer while a receive is outstanding: an outstanding receive implies that the
  bytes at `readPtr` are less than a record, so that a retry looks at them, finds the
  record incomplete and picks the receive up (`Waiting`). The same conjunct gives
  `FullMeansTooLong`: a call that reads has less than a record, so a full buffer is less
  than a record. That needs the numbers of records to make sense (`SentRecords`) and a
  receive to have bytes only when complete (`IoBytes`). `Implementation` shows that the
  initial states map to initial states, that writing a record is `Write`, that delivering
  is `Read`, and that every other step stutters.
* **Server receive.** The same invariant (`InStep`) holds until a record is refused
  because the caller's buffer is too small. Then the bytes at `readPtr` are cleartext
  already, and no call gets past them: `DecryptMessage` refuses them, so nothing is read,
  received or returned any more (`OutOfStep`). `IInv` is the disjunction: in step with the
  connection, or out of step for good.
* **Sockets.** What has been reported as sent is bounded by what the kernel has accepted
  only together with what the loop of the call has moved (`Told`) and the send under way
  is about to report (`ReportedAccepted`), which needs that the kernel works on a send
  exactly while a call waits for it (`SendsAttended`). `BytesReturnedOnce` is the same
  account of what the receives have taken (`Taken`); no byte is with a loop between two
  calls (`IdleEmpty`). The client and the server share these (`Common`). The server's
  receive is never reported early because its event is not set while it is pending
  (`EventClear`); its wait is bounded because the deadline is never further away than the
  timeout (`DeadlineNear`). Of the client neither is true, which is why its bound is a
  claim it does not keep.
* **Sending.** As long as nobody sends again after a failure, there is at most one send
  with the kernel (`OneSend`); it is the rest of the record the call is busy with
  (`CallState`), also when the call has given up, and the cells it has yet to read hold
  the numbers the wire waits for (`RestInBuffer`), which is how a send completed late
  still carries the right bytes. `SendsInBuffer` holds in broken sessions too.
* **Listener.** A connection is not overlooked because a socket with a backlog has an
  `FD_ACCEPT` that waits for `accept`, and its event is set, or has just been cleared by
  the listener, which accepts on that very socket next (`WakeUpKept`). `OneQueue` is
  `OneOwner` socket by socket, `ThreadStates` the order the threads start and end in.
* **Both programs.** As long as nothing was given up and the network holds, what a side
  has received, what is on its way and what the kernel has of it are together what the
  other's program has sent so far (`Undisturbed`); the client leaves only when the
  server has ended and everything was read. `NothingBehind` is that a worker leaves a call
  with no operation of the kernel left, unless it gives up.
* **Handshakes.** Bytes received are bytes consumed and bytes in the buffer, with a
  different account before and after each call of Schannel (`BytesKept`); Schannel has
  all flights exactly when it has said so (`LoopStatus`). The client: the certificate has
  been looked at, or its query has failed, in the turn of the loop that has the last flight
  (`CheckedInTime`), and how often each object was closed follows from the place in the
  code and the handle (`CredsState`, `ContextState`). The server: a credential that was not freed is the cached
  one (`CachedOnly`), and from the selection on it is that of the name in the hello
  (`NamedFromHello`), which was selected before Schannel saw the hello (`HelloFirst`).
* **Certificates.** In front of the search nothing suitable was signed by somebody else,
  and the one saved is the first suitable (`SearchKept`); a certificate is created only
  when nothing was suitable (`NoneSuitable`). `NoSecondCertificate` follows because a
  certificate made for a name is suitable for it (`MadeHere`). Which contexts are open
  follows from the step (`Progress`, `ContextsCounted`).
* **Names.** These are separate (`NamesInv`), for they need nothing of the search: what has
  arrived is a part of the hello, the name searched for is that of the hello once it is
  whole (`NameFound`), and the names in the store are sequences of characters, which
  `BestCertificate` needs to turn `BestMatch` into `BestChosen` by `HostNames`.

### Bytes and characters

`HostNameOfHello` and `HostNames` are about what loops compute for every input. The library's
induction theorems are out of reach of the installed provers; the least of a set of numbers
(`LeastNumber`) takes their place.

* Of the numbers for which something fails, take the least: what holds of the number before
  it is the contradiction. In this way the walk of `GetSNI` over extensions
  (`ReachesExtension`) and over the names in a list (`ReachesName`) gets to each of them
  (`WalksExtensions`, `WalksNames`), so to the first host name or to the end of the hello,
  where it stays; as each turn takes it a byte further at least, as many turns as there are
  bytes are enough.
* Where an extension or a name is in the bytes is said by the sum of the lengths in front
  of it. That a part of a flattened sequence is found at that sum (`Holds`, `PartsHeld`) is
  the same kind of argument about `FlattenSeq`.
* A pattern is a function from its characters to where in the name they end. The label
  `HostNameMatches` allows is two characters at most, so that the lemmas on patterns
  (`MatchNone`, `MatchOne`, `MatchTwo`, `StarFits`) need no more. `Fits` takes a run of
  stars, not one star: with one, the reference was narrower than the pattern for two stars
  in a row, which match an empty label; the attempt to prove `HostNames` showed it.

### Only model-checked

* Liveness and fairness: `AllDelivered`, `AllReceived`, `StopReturns`, `EverySocketServed`,
  `StopEnds`, `SendReturns`, `HandshakeEnds`, `BothEnd`. The installed provers reach
  neither fairness nor `ENABLED`.
* The configurations of section 3 that are violated.

## 5. What is not modelled

* Encryption, hashes and the contents of messages: Schannel is taken to work.
* `Connect`, `ShutDown`, binding and closing sockets: single system calls.
* The lifetimes of the auto-deleted thread object (`Listener.cpp:156`) and of the
  `OVERLAPPED` on the stack of `Send`, and what the kernel writes to freed memory:
  `FreedIdle` says when it could, not what then happens.
* `CertTrusted` and `ShowCertInfo`: one call of Windows, and printing. The handshakes take
  the verdict as an input. Schannel has the server's certificate once the first flight
  is consumed (`CertKnown`).
* Two errors of the receiving calls that cannot occur: a `DecryptMessage` that succeeds
  without a data buffer (`SSLClient.cpp:257-261`, `SSLServer.cpp:201-205`), and plaintext
  left over of a record that does not fit the 32000 bytes of `plainText`
  (`SSLClient.cpp:277-283`; a record has 16384 at most).
* The question mark, which `PathMatchSpecEx` takes for any character (`SSLHelper.cpp:66`)
  and which no host name has: it is not among the characters of `HostName`.
* A client hello that is cut into several records or not laid out as TLS prescribes, a
  certificate store that others change during a search or that becomes unreadable midway
  (`SSLHelper.cpp:271-276`), and a failed call of Windows that leaves `GetLastError()` at 0.
* The preload arguments of the two `Initialize` (no caller uses them),
  `CSSLServer::Disconnect` and `CTransport::Recv` and `Send` (no caller), `EventWrapper`,
  logging, build files.

## 6. Plan

Done: the modules above, in the order receive, sockets, listener, handshakes, sending,
both programs, handles and certificates, and the proofs of section 4, which cover
every component that is modelled. Further work would be on what section 5 leaves out: a
client hello in several records, and the calls no caller makes today, once one does.
