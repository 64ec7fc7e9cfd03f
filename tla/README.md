# TLA+ models of the FlyFF login server

The repository is a certifier ("login") server: one process, one thread, one
loop, over epoll on Linux and over select on Windows. Clients connect, are sent
a protocol id, and send packets; a client that does not authenticate in time is
to be disconnected. This directory models the server in TLA+, checks the models
with TLC and proves their safety properties with TLAPS.

All source paths below are relative to the repository (`src/Network/...`); in
`PROJECT.json` they carry the prefix of the checkout (`src/src/Network/...`).

## 1. The system

| Part | State it keeps | Operations | Interacts with |
|---|---|---|---|
| Event loop, `CNetworkServer` (`src/Network`) | `m_sock`, `m_clients` (descriptor -> object), `m_efd`, `m_events`, `m_buf` | `Start`, `Process` (hang-up, accept loop, read loop), `Close` | the kernel; calls `AllocateClient`, `FreeClient`, `OnClient...` of the certifier |
| Session and pool, `CertifyClient`, `CCertifyServer` (`src/Certifier`) | per object: `Socket`, `bDisconnect`, reason, `ProtocolId`, `tmStartTime`, `bAuthenticated`, `buffer`, `next`; per server: `m_pFreeList`, `m_nNextId`, `m_bIsDestroy` | `AllocateClient`, `FreeClient`, `Init`, `Uninit`, destructors | called by the event loop |
| Packet loop, `OnClientData` | the session's `buffer` | one round per packet; calls a handler | `CAr`, the handlers, `Disconnect` |
| Authentication check, `CCertifyServer::Process` | `tmNextCheckClients` | marks sessions | `m_clients`, the clock of `main` |
| Handlers and replies, `OnCertify`, `SendPacket` | none of their own | parse, decrypt, reply | `CAr`, cipher, `send` |
| Byte archive, `CAr` (`src/Memory`) | block, position, length, capacity | `Read`, `Write`, `Reserve`, `Remove`, `Insert`, `SetOffset`, `Reset`, `Flush` | `malloc`, `realloc`, `memcpy` |
| Configuration (`src/Config`) | map of settings | `Load`, `CreateDefault`, `GetValue` | files |
| `main` (`src/main.cpp`) | - | arguments, configuration, the server loop | all of the above |
| Console (`src/Core`) | `initialized`; the terminal's settings, stdin's buffer | `_kbhit`, `_getch`, `RestoreTermIOS` | called by `main`; the terminal outlives the process |
| Cipher, `CRijndael` (`src/Cryptography`) | key schedule, `m_chain` | `MakeKey`, `Encrypt`, `Decrypt` | `OnCertify` |
| Windows event loop (`NetworkServer.cpp` 251-306) | as the event loop, without `m_efd`, `m_events` | accepts one connection, then one `select` and one `recv` per session | as the event loop; compiled on Windows only |

What is hard in it:

- *Edge-triggered events.* A descriptor is reported once; whoever does not read
  or accept until EAGAIN never hears of the rest.
- *Batches.* `epoll_wait` returns a snapshot. While it is worked off, sessions
  end and descriptors are handed out again.
- *Pooled objects.* What `Init` does not reset acts in the next session.
- *A byte stream.* Packets arrive cut anywhere and several at a time.
- *Peers* close and reset at any moment, also before they are accepted.
- *Two clocks.* `main` reads the clock before the batch, `Init` during it.
- *Limits.* No descriptor left; `accept` or `epoll_ctl` fails; ids of 32 bits; a
  buffer that grows by moving.
- *Replies* go out to a peer that may be slow or gone, through a socket that on
  Linux blocks at first and then never, and on Windows always.
- *One cipher* with one chain serves every session.
- *Start-up* fails at any call; a configuration file may be another process's.
- *Two platforms*, two loops over the same sessions: what one does with a
  marked session the other does not.
- *The archive under the packet loop*: reads are bounded by the block and not by
  the text, so a handler may read what is not its packet's.
- *The terminal* keeps its settings when the process is killed, and the C
  library reads ahead.

What makes each part correct:

| Part | Properties |
|---|---|
| Event loop | `m_clients` and the descriptors agree, no stale event, no lost edge, everyone accepted, also after `accept` failed, everything read; the listening socket is closed once |
| Session and pool | an object serves one session at a time and none is lost; numbers are consecutive; nothing is inherited |
| Windows loop | the iterator never stands at an entry that is gone and passes over none; a marked session ends and is not read on; nobody is forgotten because `accept` failed |
| Packet loop | what is handled is what was sent, however it was cut; the loop returns; the next packet is found behind the last whatever the handler read |
| Authentication check | overdue sessions, and only those, are marked and then end |
| Handler, replies | the fields of a certify packet are read as sent; replies are whole, in order, one for each certify packet; on Linux a send never holds up the thread |
| Archive | no access outside the block; a text with a position |
| Configuration, start-up | a file means what its lines say; the port comes from the right place; what `--makecfg` writes to its end is read back |
| Console | ESC is heard among whatever other keys; the terminal is left with echo |
| Cipher | the modes are those the header describes; decryption undoes encryption; the block cipher is the published one |

`PROJECT.json` lists these hazards line by line.

## 2. Modules

    Sessions <-- implements -- LoginServer -- EXTENDS --> Kernel, Framing
                                   |            <-- LoginServerProofs, MCLoginServer
                                   |                   <-- SessionProofs, StreamProofs
                             WindowsServer
                                   |
                                 Builds         <-- WindowsServerProofs (on StreamProofs), MCBuilds

    ByteArchive  <-- implements -- PacketLoop -- EXTENDS --> CAr, Framing
    PacketRounds <-- implements --     |        <-- PacketLoopProofs, MCPacketLoop
                 <-- implements, each unmarked session -- LoginServer

    Startup -- EXTENDS --> Configuration, Console    <-- StartupProofs, MCStartup
    Replies <-- RepliesProofs, MCReplies
    RijndaelBlock <-- INSTANCE -- MCRijndael -- EXTENDS --> Rijndael <-- RijndaelProofs

(An arrow to the left without a word is EXTENDS.) `Startup` ends where
`LoginServer` begins: its `pc = "loop"` is `LoginServer`'s `Init`, a listening
socket registered with epoll; a key, which is a choice in every round there, is
`Console`'s here, and `server.Process`, which `LoginServer` is about, is a step
that ends or is `Caught`. `LoginServer` takes the packet loop in rounds over a sequence
of bytes; `PacketLoop` shows that the calls on the archive add up to these
rounds. `Replies` takes from `LoginServer` that packets are found in a session's
stream, and has in its place the certify packets of each session that have come
in.

- **Kernel**: the world outside the repository, from how `NetworkServer.cpp`
  uses it. Peers connect, send their script in pieces of any size, close and
  reset; the listen queue; the descriptor table (`accept` hands out the lowest
  free one); the epoll set and `ready`, the descriptors whose edge has not been
  reported; the clock. `Batches` is `epoll_wait`: up to `MAX_EVENTS` ready
  descriptors in any order. All its definitions are external.
- **Framing**: the packet format as `OnClientData` reads it. Fields are one
  byte wide; a byte remembers who sent it and where in his stream, which the
  code never sees and the properties use. The code of a packet without a body
  lies behind what was received: `CodeField` is then any value.
- **LoginServer**: the process from the moment it listens to its exit. `pc` is
  where the thread is; an action is the code between two points at which the
  kernel can change or be observed (the `time`, `epoll_wait`, `accept` and
  `read` calls, a round of the packet loop, a round of `Close`).

  | Code | Actions |
  |---|---|
  | `main` 111-127 | `ReadClock`, `NoKey`, `EscapeKey` |
  | `CNetworkServer::Process` 148-170 | `EpollWait`, `HangUp` |
  | 171-203, `AllocateClient`, `Init` | `AcceptClient`, `AcceptEnds`, `AcceptFails`, `AcceptAbandoned` |
  | 204-249, `FreeClient` | `ReadData`, `ReadDrained`, `ReadEnds` |
  | `OnClientData` | `ParseShort`, `ParseRefused`, `ParseIncomplete`, `ParsePacket` |
  | `CCertifyServer::Process` | `CheckClients` |
  | `Close`, destructors | `CloseClient`, `CloseServer`, `Destroy` |

  `AcceptEnds` is EAGAIN. Any other failure comes with connections waiting:
  there is no descriptor left, or, with `AcceptMayFail`, one of the other
  reasons of `accept` (ENFILE, ENOBUFS, ENOMEM, EINTR, a network error). `pc =
  "failed"` is then where the code prints its message; `AcceptAbandoned` leaves
  the accept loop with the edge consumed, whatever the reason was.
  `ParseIncomplete` is the round of the packet loop that finds a header without
  its whole body: it changes nothing and is repeated, as in the code. `handled`
  (bytes of the packets handled in a session), `clean` (the session began with
  an empty buffer) and the field `of` of an event are history: no guard of the
  server reads them.
- **WindowsServer**: the other branch of `#ifdef __linux`, a second next-state
  relation over the same state. `select` says what is there and not what has
  changed, so `ready` plays no part and no edge can be lost. `events` is the
  iterator over `m_clients`: the one entry it stands at, none at the end.
  `MoveOn` is `++it` as well as `it = m_clients.erase( it )`.

  | Code (`NetworkServer.cpp`) | Actions |
  |---|---|
  | 253-271, the listening socket | `AcceptNobody`, `AcceptOne`, `AcceptInvalid`, `InvalidReported` |
  | 274-287, a marked session | `EndMarked` |
  | 288-304, any other | `SelectNothing`, `Recv`, `RecvFails`, `DataTaken` |

- **Builds**: both programs side by side, `build` saying which one runs, with
  what is true of one platform only.
- **Sessions**: what the network layer promises. Connections are admitted in
  order of arrival, each once, with consecutive numbers; a session keeps its
  number; nothing is admitted after shutdown, which leaves no session behind.
  `ImplementsSessions` maps the listen queue, the open connections and the
  `ProtocolId` of their objects onto it.
- **CAr**: `CAr` with offsets for pointers and its block as a function of
  cells; `block` says whether the block is the object's own array, on the heap
  or the caller's. Where `memcpy` is given overlapping regions (`Remove`,
  `Insert`) it copies in any order the C library might choose.
- **ByteArchive**: the archive as a text with a position. `ImplementsArchive`
  (in `PacketLoop`) shows that capacities, moves and pointers never show through, with two
  exceptions that are part of the abstract specification: reading beyond the
  text may deliver anything, and after an overlapping copy only part of the
  text is promised.
- **PacketRounds**: the packet loop as `LoginServer` takes it, of one session:
  data arrives, the session is marked, a packet is handled and removed.
  `PacketLoop` implements it with the calls on the archive, and `LoginServer`
  once for each session: `Rounds(f)` is this module with the state of the session
  of descriptor `f`, and `SessionRounds` says that no session that is not marked
  notices the others.
- **PacketLoop**: `OnClientData` call by call on the archive, and `OnCertify`'s
  three reads with `ReadString`'s length check. `caller` divides the archives:
  those of `OnClientData`, and those of anyone, who calls whatever `CAr` offers;
  `ImplementsRounds` is about the former, `ImplementsArchive` about the latter.
  A read may go beyond the text and, within the block, returns what is there.
  `RemoveHandled` is `CAr::Remove`, whose regions overlap when the packet is less
  than half of what was received. `upwards` says whether the build's `memcpy`
  then starts with the first byte; if not, the rest is copied in any order.
  `PacketRounds` has the same variable: behind an overlapping `Remove` the next
  packet is found where `memcpy` copies upwards, and otherwise only the length of
  the rest and its last bytes, as many as were removed, are what they should be.
  C promises neither; glibc on x86-64 copies upwards. `LoginServer` is the model
  of such a build (`Rounds(f)` has `upwards <- TRUE`), so everything it says of
  bytes is said of one.
- **RijndaelBlock**: the block cipher byte for byte: tables, key schedule,
  `EncryptBlock` and `DecryptBlock`, the routines for 16-byte blocks and the
  general ones. The literal tables of the code are given by the field
  arithmetic they were computed with. No run reads the literals: their equality with
  these definitions, entry by entry, was established by a script outside TLC, and a
  later change of one would go unseen. `Published` compares it with the cipher
  as its authors describe it, in separate steps.
- **Rijndael**: cipher objects and the calls `MakeKey`, `ResetChain`, `Encrypt`
  and `Decrypt` in three modes, over any block cipher; one action is one round
  of a loop over blocks. `done` is history: the blocks an object has worked off
  since its chain was set. The server's object never encrypts and never changes
  its key, which is how `OnCertify` and `GetInstance` use it.
- **Configuration**: the settings and the parser. A text is a sequence of
  tokens (a run of letters, a run of digits, any other character), and a round
  of the parser's loop is an action. The loop that removes trailing blanks is
  bounded by the wrong one of two arrays: `layout` is where the build puts
  them. `Means` says, line by line, what a file sets.
- **Console**: the terminal and stdin as `ConsoleUtilities.cpp` uses them: two
  settings, the line being edited, the keys that can be read, those the C
  library has read ahead, and whether stdin has a buffer at all.
- **Startup**: `main` up to the server loop and after it: arguments, `Load`,
  `CreateDefault`, the constructor's settings, `Start` call by call, `Close`,
  the destructor, and of the loop the question for a key. Files and the terminal
  outlive a process and the next finds them.

  | Code | Actions |
  |---|---|
  | `main` 23-79 | `PortArgument`, `ConfigArgument`, `MakeConfig`, `BadArgument` |
  | `Load`, `ParseConfiguration` | `Load`, `LoadFails`, `Parse`, `ParseFails` |
  | `main` 87-104, constructor | `GetPort`, `Construct` |
  | `CNetworkServer::Start` | `CreateSocket`, `BindListen`, `GetFlags`, `SetFlags`, `EpollCreate`, `EpollAdd` |
  | `main` 111-127 | `LoopRound`, `Caught`, `OtherKey`, `Shutdown` |
  | `main` 132-139 | `Restore`, `Destroy` |
  | none: a signal, somebody at the keyboard | `Killed`, `Typing` |

- **Replies**: `OnClientConnected` and `OnCertify` with the replies they send.
  An action is one `send` call: it takes as much as the socket has room for, or
  fails with EAGAIN (`SendWouldBlock`), ECONNRESET (`SendReset`) or EPIPE
  (`SendBrokenPipe`, after which the process is gone). The Linux accept loop makes
  a socket non-blocking only after it has sent the protocol id: until then a send
  without room waits. `build` says for which platform the program is compiled:
  the Windows loop leaves accepted sockets blocking (line 186 is under `#ifdef
  __linux`), and there is no SIGPIPE there (`SendAborted`). `out` and `got` are
  the send buffer and what the peer has read.
- **LoginServerProofs**, **SessionProofs**, **StreamProofs**,
  **WindowsServerProofs**, **PacketLoopProofs** (with those about `CAr`),
  **RepliesProofs**, **RijndaelProofs**, **StartupProofs**: theorems and proofs
  (section 5).
- **MCLoginServer**, **MCBuilds**, **MCPacketLoop**, **MCRijndael**,
  **MCStartup**, **MCReplies**: constants for TLC.

Operators marked `mutant` stand next to the definition they change as a
plausible bug would; no specification uses them. They show that the property
named in `PROJECT.json` can fail.

## 3. Runs

| Run | Instance | Question |
|---|---|---|
| `life` | 3 connections, 2 descriptors, no data; `accept` and `epoll_ctl` may fail; ids mod 3; clock up to 3, timeout 1 | `ClientTable`, `PoolDiscipline`, `PoolBound`, `NoStaleEvent`, `NoEarlyTimeout`, `ShutdownComplete`, `ImplementsSessions` |
| `data` | 2 connections, 2 descriptors, five scripts, reads of 2 bytes | `TypeOK`, `NoLostEdge`, `ByteStream`, `NoCrossTalk`, `SessionRounds` |
| `timeout` | either build; 2 connections on 1 descriptor, `accept` may fail, clock up to 1, timeout 0 | `StreamOnce`, `OverdueMarked`, `OverdueEnds`, `QueueServed`, `MarkedLeftAlone` |
| `live` | either build; 2 connections, 2 descriptors, reads of 1 byte; `accept` may fail | `EveryoneAccepted`, `QueueRecovers`, `EverythingRead`, `EndNoticed`, `ImplementsSessions` |
| `archive` | array of 3 bytes, capacity doubles up to 3 times; anyone's texts up to 4 bytes, streams up to 14 | `InBounds`, `HeapIsKnown`, `CertifyAsSent`, `ImplementsArchive`, `ImplementsRounds` |
| `cipher` | a peer's and the server's object, 2 keys, blocks of 1 bit, 3 blocks between resets; the block cipher at full width for 3 key and 3 block lengths | `ModesAsDescribed`, `RoundTrip`, `BlocksAsPublished` |
| `startup` | 2 processes, 13 command lines, files of up to 2 of 11 lines, a default file cut anywhere, 2 keys waiting | `FileUnderstood`, `PortFromArguments`, `PortFromFile`, `DefaultAsAnnounced`, `SocketClosedOnce`, `EchoRestored`, `EscapeHeard` |
| `replies` | either build; 2 sessions, 2 and 1 certify packets, send buffers of 5 cells for replies of 4 | `RepliesInOrder`, `PasswordAsSent`, `SendReturns` |
| `linger`, `zero`, `partial`, `inherit` | smallest instances | one statement each that the code does not keep (section 4) |

*Bounds.* Three connections over two descriptors are the least that let a
descriptor and an object be used again while another session is open; with two
connections per batch plus the listening socket every order of hang-up, accept
and read within a batch occurs. `MAX_EVENTS` is 2 in `life` (a batch can be
full) and 3 elsewhere. The scripts of `data` are a packet, two packets at once,
an unknown code, a wrong prefix and a packet without a body, sent in all
pieces; with `MAX_BUFFER` 2 a packet takes several reads. Pool objects are one
more than `PoolBound` allows, or as many where only liveness is asked. `MaxTime`
is enough in `life` for a session to become overdue, end and be followed by
another on its object; in `timeout`, where a session is overdue after one tick,
a second one follows on the one descriptor. There and in `live` the script is a
packet without a body, which is never cut behind its header: the thread is caught
only where the bytes a session inherits end in the header of another packet, and
the liveness properties speak of every other behaviour. Scripts are finite: a peer
that sends without end, and keeps the thread in one read loop, is not in the model.

Streams of `archive` are two packets, of seven kinds (with and without body,
certify with fields as sent, cut short or too long, an unknown code, a wrong
prefix), or three pings, in all pieces: an array of 3 bytes is outgrown twice,
with overlapping and disjoint removals. Two packets are the least where what a
handler read of the one could move the other. Anyone's archives need four bytes
to grow, insert and remove with overlap.

The cipher needs no wide blocks: what the modes do is the same for any, and a
bit with a permutation for each key tells every wrong chain from the right one;
three blocks reach a second block of a second call. `BlocksAsPublished` has one
key and block of each length with every byte different, and the answers of
FIPS-197, appendix C. Lines of `startup` are one of each kind the parser tells
apart, and two of them are the least that can repeat a key. To begin with there is one file
(`Disk`), of any two lines under the name that is read by default and of one under
another; the server writes the second. A write is cut at every token and, by
`CutTo`, within words and numbers; which beginning of a number is left is one of
those `CutTo` has, as the properties only ask what it reads as. A line sets port 0,
for which the kernel chooses one of `Ephemeral`. A send buffer that
holds one reply and a cell more lets a reply be cut, divided or refused. Two
processes are one that writes a file and one that loads it, or one that is killed
and one that finds its terminal. Keys are typed to the last process only, from
the moment it creates its socket, and two wait at most: what an earlier process
did to the terminal is in its settings, and two keys are what a buffered read
could take together. A signal comes in the server loop, the only place where a
process stays.

*Deadlock* is checked everywhere but in `replies`, where a broken pipe ends the
process. A process that has exited stutters (`Exited`, `Ended`).

*Symmetry* under permutations of connections and of objects is used in `life`,
`data` and `inherit`, where only safety is checked; the specification names no
connection or object, and the one `CHOOSE` is over descriptors.

*Fairness.* Liveness assumes `WF_vars(Server)` (`WF_buildVars(BuildServer)` for
either build, `WF_vars(Process)` in `Startup`): the single thread goes on as
long as it can. Nothing is assumed of peers, the clock or the keyboard. The
server may be shut down at any round: then connections end. `epoll_wait` is
given room for every descriptor in `live`, so that the order it reports them in
needs no fairness; `EveryoneAccepted` supposes that `accept` does not fail,
since on Linux a failure ends the accept loop with the edge consumed: those that
wait are forgotten until someone else connects. `QueueRecovers` says that they are
found then: whoever is in the queue while the listening socket is reported, or
about to be, is accepted, unless `accept` fails again. (On Windows the connection
is still there in the next round: `QueueServed` supposes that failures come to an
end, no more.) The liveness properties have the exception `Spinning`, the
packet loop that does not end; `EscapeHeard` has the same one, since a call of
`server.Process` may be `Caught`, which is no part of what is fair.

`SendReturns` assumes the same, `WF_vars(Server)` of `Replies`: that the thread
goes on where a send can return at all, and nothing of peers. On Windows a send to
a peer that does not read waits, and the property says that nothing else holds the
thread (`HeldUp`). That a send returns is taken for granted in `LoginServer` and
`WindowsServer`, where an answer is part of a step: on Windows the liveness
properties are about peers that read what they are sent.

*Differences between the builds* that the properties name: on Linux a marked
session is read on and the packet its buffer begins with handled again after
every read, so `ByteStream` excepts marked sessions and `StreamOnce`, without the
exception, is about Windows, and so is `MarkedLeftAlone`, by which a marked session
is neither read nor handled; `OverdueEnds` is what `linger` refutes on Linux; on
Windows `RecvFails` marks a session and leaves its reason as it is, so that a
reason from an earlier session may stand there, and `NoEarlyTimeout`, which reads
it, is Linux's.

## 4. Findings

| Run | What is said | What the code does |
|---|---|---|
| `linger` | `CertifyServer.h` 21: the client "will be disconnected" | the Linux loop never looks at `bDisconnect`; only the Windows branch does |
| `zero` | `Configuration.cpp` 101: "0 means indefinitely" | with 0 a session is marked after one second |
| `partial` | `CertifyServer.cpp` 157: "read entire packet" | a header whose body has not arrived keeps the only thread in the loop for ever |
| `inherit` | `CertifyServer.cpp` 26: per-session code belongs in `Uninit` | `Uninit` and `Init` leave `buffer` as it is, and the next session handles its bytes |

## 5. Proofs

TLAPS proves, for every value of the constants (connections, descriptors,
objects, scripts, sizes; ciphers and keys):

- `LoginServerProofs`: `TypeCorrect` (`[]TypeOK`), `TableCorrect`
  (`[]ClientTable`), `EventsCorrect` (`[]NoStaleEvent`), `PoolCorrect`
  (`[]PoolDiscipline`).
  `TypeOK` alone is not inductive: `FreeClient` pushes the object `m_clients`
  has for the event's descriptor, and that is an object only because every
  event still to be handled is about an open connection. That in turn needs
  the descriptors of a batch to differ, `m_clients` to agree with the
  descriptor table, and the listen queue to hold no connection twice. `IInv`
  joins these (`KernelTypeOK`, `TypeOK`, `ClientTable`, `PoolDiscipline`,
  `BacklogOK`, `EventsOK`, `NoStaleEvent`); there is one lemma per action,
  resting on `EndSessionKeeps`, `AllocateClientFresh`, `EventFinished` and
  `StructureKept`.
- `SessionProofs`, each from `IInv` and one more invariant. `Step` says what a step
  of either platform's loop is to the sessions: all stay in their place, with
  bytes of one of them moved at most and some marked (`Staying`), one ends (`Ends`),
  one is admitted (`Admits`), or the step is of shutdown or of the world.
  `LinuxSteps` shows that there are no others, and the invariants that need no
  more are shown to be kept by any `Step`.
  - `ShutdownCorrect` (`[]ShutdownComplete`). `Close` may find the loop anywhere;
    `CloseInv` says what is already gone at each of its points, so that at the
    last no client and no queue is left and the listening socket is closed. `Close`
    does not close `m_efd`, nor does any other code: in `Startup` it is open until
    the process ends.
  - `NobodyTimedOutEarly` (`[]NoEarlyTimeout`). A reason stays in a pooled object
    and `Init` may read a later second than the one `main` passes on. `ClockInv`
    orders the clocks and says that an object in use which is marked for its time
    was marked in this session.
  - `EdgesCorrect` (`[]NoLostEdge`). `EdgeInv` says for each point of the loop
    which descriptor the loop still owes a read or an accept until EAGAIN
    (`Owed`); every other one with something to report is ready or in the batch.
    The listening socket is promised this where `accept` does not fail.
  - `PoolBounded` (`[]PoolBound`), a counting argument: `AllocateClient` makes
    an object only when the free list is empty, that is when every object has a
    descriptor of its own, and one is free.
  - `ServerImplementsSessions` (`Spec => ImplementsSessions`). Under the mapping
    a step of the loop admits the head of the queue, ends a session, shuts down
    or stutters; `QueueInv` keeps the queue and the open connections apart and
    their `ProtocolId` at the number of the admission.
- `StreamProofs`: `NoBytesAcross` (`[]NoCrossTalk`), from `OriginInv`, by which
  whatever lies in a buffer comes from a session its object has served
  (`Known`), which is not an open one of another object; and `StreamCorrect`
  (`[]ByteStream`), from `StreamInv`, by which what was handled, what lies in the
  buffer and what the kernel holds make up what was sent. `SessionsInRounds`
  (`Spec => SessionRounds`) is a refinement for each session at once: bytes taken
  or a packet handled for one is `Receive` or `Handle` of its own `PacketRounds`
  (`RoundReceives`, `RoundHandles`), and nothing to another, since `Apart` gives it
  another object and another connection; what ends or begins meanwhile is not its
  own (`OthersKept`).
- `WindowsServerProofs`: `WinTableCorrect` (`[](ClientTable /\ NoStaleEvent)`) and
  `WinPoolCorrect` (`[]PoolDiscipline`) for the other build. `WinIInv` adds to
  `IInv` that the iterator stands at one entry or at the end. The shared actions
  keep `IInv` by the lemmas of `LoginServerProofs`; `AcceptKeeps` and
  `EndSessionKeeps` are stated there for both. `WinStreamCorrect` (`[]StreamOnce`,
  for `BuildSpec`) uses what `StreamProofs` says of each step that moves bytes
  (`TakesFlows`, `HandlesFlows`, `EndSessionFlows`, `AcceptFlows`, `WorldFlows`);
  the exception for marked sessions is not needed because none is in the packet
  loop, the last conjunct of `WinStreamInv`. `MarkedLeft` (`BuildSpec =>
  MarkedLeftAlone`) follows from the same conjunct: only a session that is not
  marked moves bytes (`OnlyUnmarkedMoves`).

  `WindowsSteps` shows that what the loop over `m_clients` does is a `Step` too,
  and `BuildSteps` that there are no others in either build. So what was proved of
  any `Step` holds on both platforms, by one argument: `EitherShutsDown`
  (`[]ShutdownComplete`), `EitherPoolBounded` (`[]PoolBound`), `EitherNoBytesAcross`
  (`[]NoCrossTalk`), `EitherInRounds` (`SessionRounds`), and
  `EitherImplementsSessions`: the two loops are one network layer to the
  sessions. `NoEarlyTimeout`, `NoLostEdge` and `ByteStream` remain Linux's: the
  first is not true on Windows (section 3), the second is about edges, and the
  last follows there from `StreamOnce`.
- `PacketLoopProofs`, for every array size, stream, cut and header size:
  - `StaysInBounds` (`[]InBounds`) and `FreesOwnBlocks` (`[]HeapIsKnown`), for
    `CAr`'s own specification and whatever `memcpy` does.
  - `LoopStaysInBounds` (`[]InBounds`, for `LoopSpec`) and `LoopImplementsRounds`
    (`LoopSpec => ImplementsRounds`). `RoundInv` is what each call of a round
    knows of the text (the prefix is right, `size` is its size field, the whole
    packet is there, the code read is one that `CodeField` allows); it holds of
    nobody else's archive. `WriteAppends` and `RemoveCuts` are the facts about
    the archive the rounds rest on; the latter says what a `Remove` leaves with
    either value of `upwards`, by `CopyEdge`.
  - `AnyoneImplementsArchive` (`LoopSpec => ImplementsArchive`): one lemma for
    each call (`ReadRefines`, `WriteRefines`, `ReserveRefines`, `RemoveRefines`,
    `InsertRefines`). `CopyEdge` says how much of an overlapping `memcpy` is
    right in either order, which is the part of the text that `ByteArchive`
    promises.
  - `CertifyReadsAsSent` (`[]CertifyAsSent`). `FieldsInv` says where the position
    is and what has been read before each of the three reads (`Progress`); the
    packet stays as it is while the handler runs, and each read is within it, so
    `FieldRead` finds its cells and no others.
- `RijndaelProofs`: `ModesCorrect` (`[]ModesAsDescribed`) and `RoundTripCorrect`
  (`[]RoundTrip`). The modes are about blocks already worked off; what a round
  needs is that the chain is what the mode of the next block asks for, so `IInv`
  adds `ChainIsPrevious` to `TypeOK` and `ModesAsDescribed`. `RoundTrip` is a
  consequence, by `EncryptInjective` and `PreviousUnique`: equal keys, chains
  and cipher texts leave one plain text.

- `RepliesProofs`, for every number of sessions and replies and every room in
  their sockets:
  - `PasswordCorrect` (`[]PasswordAsSent`). `MailInv` says that what has come in
    is, in order, what the peer has encrypted and `OnCertify` has not decrypted;
    `DecryptedEncrypted`, that decryption undoes encryption when both begin with
    the same chain, whatever the length. `OnCertify` resets the chain of the one
    cipher first, which is why nothing of another session shows.
  - `RepliesCorrect` (`[]RepliesInOrder`). `FlowInv` adds, for each session, that
    what its peer has read and what is under way is what it was told (`Told`: the
    protocol id, then a refusal for each packet), with as much of the packet in
    `SendPacket`'s hands as is sent; after a reply was cut, that what was told
    before is still the beginning. There is one lemma for each kind of step
    (`SendFlow`, `GiveUpFlow`, `ConnectedFlow`, `CertifyFlow`, `ReadsFlow`,
    `ResetFlow`).
- `StartupProofs`, for every command line, every disk and number of processes:
  - `ClosedOnce` (`[]SocketClosedOnce`), from `SocketInv`: the listening socket is open
    exactly between its creation and `Close`, and `m_sock` says so, wherever
    `Start` failed.
  - `EchoGivenBack` (`[]EchoRestored`), from `ConsoleInv`: the console is
    untouched until the loop and given back on the one way out of it with
    status 0.
  - `ArgumentPort` (`[]PortFromArguments`), from `ScanInv` and `BoundInv`: `i` is
    odd, the port is that of the last `-p` behind `i`, so the file's is not taken
    once there is one, and it is a legal port, which `PortRange` (more than
    65535) leaves as it is.
  - `FilesUnderstood` (`[]FileUnderstood`): the parser works on a text and the
    property speaks of lines. `ContentsLaid` says where each line is in the text;
    `Understood`, that the parser is in some line, of which it has seen blanks
    only, or behind it, and that the settings are what the lines before it mean
    (`MeansTo`). `SettingRead` and `CommentPassed` follow a round through one
    line, `SettingLearned` says what it adds, and `SettingUnique` that a line
    cannot be taken in two ways, so that what the parser finds from the left is
    what the rule `Sets`, which looks for an equals sign anywhere, says. The
    condition on trailing blanks is used in one place (`SettingRead`): where
    the build does not remove them. `ParseInv` carries this through the parse,
    and to the settings afterwards.
  - `FilePort` (`[]PortFromFile`): `PortInv` says that without a `-p` behind `i`
    no port is set until the file is parsed, and then the file's; what the file
    says is `ParseInv`'s.
  - `DefaultRuns` (`[]DefaultAsAnnounced`): a file in `made` is the default one,
    written to its end (`MadeInv`), and that one is `Plain`, so that `ParseInv`
    gives each key the value on its line (`DefaultMeans`). Of a file that was cut
    nothing is promised; `CutFile` says that it is a file of lines like any other,
    so that what is proved of the parser and the port is true of it too.

Some of these rest on what a recursive function is for every argument: a file's
text, `Encrypted`, the concatenation of replies. The library's induction theorems
cannot be used here, since no prover can instantiate their operator parameter.
Its theorem that the naturals are well-ordered (`NatLessThanWellFounded`) speaks
of sets: `Least` and `Induction`, at the head of `RepliesProofs` and of
`StartupProofs`, follow from it, and the functions are shown to exist before they
are used (`EncryptedExists`, `FlatExists`, `TextExists`).

Assumptions are those of the modules: `KernelAssumption`, `FramingAssumption`,
`ServerAssumption`, `ArchiveAssumption`, `LoopAssumption` (the array holds more
than a header), `CipherAssumption` (a block cipher and an exclusive or that can
be undone; `BlocksAsPublished` checks the former for the real one),
`TextAssumption`, `StartupAssumption` (a line of a file has no end of line in it
and no NUL, which would end the text early), `DefaultAssumption` (the names and
numbers `CreateDefault` writes are letters and digits and differ in any case), and
`RepliesAssumption` (a cipher that can be undone; a new socket has room for a
packet, so that the protocol id never waits on Linux). TLC evaluates them in every run. `PoolBounded`, `EitherPoolBounded` and
`EdgesCorrect` also assume that there are finitely many descriptors, the last also
that there are finitely many connections, as a statement with a cardinality or a
batch in some order has to.
`LoopImplementsRounds` assumes nothing of `memcpy`: what a build owes that does not
copy upwards is in `PacketRounds`. The theorems of `StreamProofs` and
`WindowsServerProofs` about bytes are about builds that do.

Only model-checked: `BlocksAsPublished`, which computes test vectors with the
tables of the block cipher and bitwise operators, and the liveness properties
(`OverdueMarked`, `OverdueEnds`, `QueueServed`, `EveryoneAccepted`,
`QueueRecovers`, `EverythingRead`, `EndNoticed`, `EscapeHeard`, `SendReturns`), since TLAPS has no
rules for fairness. Every other property of a passing run is a theorem.

## 6. Not modelled, and the plan

Not modelled, and why:

- `GetIPAddress` and the log: text that no code reads back. `ResolveAddress` and
  the helpers for logging are not called by the server.
- On an accepted socket `fcntl` is taken to succeed; on the listening socket both
  of its calls may fail.
- The sizes of the parser's buffers and of `GetValue`'s: a run of letters or
  digits is one token.
- `CAr::SetIsStoring` and `WriteString`, and cipher calls whose two buffers are
  one: no caller in the repository.
- Handlers without a body; the build files; `WSAStartup`.

Three hazards of `PROJECT.json` have no property, because nothing in the
repository says what should happen: a reply to a peer that has reset its connection
may end the process by SIGPIPE (`Replies` has the step); a default file that a write
left cut may load with other settings (`Startup` has every cut); and numbers of
sessions repeat after 2^32 (`Sessions` and `LoginServer` wrap them, and no code looks
a session up by its number).

`SendPacket` builds its packet in an archive of its own: two writes for prefix
and size, one for the contents, `SetOffset`, and a write over the size. `Framed`
says what these calls do to a text, by the rules of `ByteArchive`, which every
`CAr` is proved to keep; the calls are not steps of `Replies`, where nothing can
come between them.

What stays out is for TLC alone (section 5) or would be a fault that the code does
not handle: nothing the server keeps outlives a crash except the configuration
file and the terminal's settings, and both are in `Startup`.
