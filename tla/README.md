# A verification development for GHOST

GHOST is a VPN that hides an IP tunnel inside one HTTP/2 request. This
directory holds TLA+ modules that model its session layer, the TLC
configurations that check them on small instances, and TLAPS proofs for all
instances. It is kept beside the Go code: when a handler named in the `map` of
`PROJECT.json` changes, its action has to be read again.

1. [Inventory](#1-inventory)
2. [Plan](#2-plan)
3. [The modules](#3-the-modules)
4. [What each run checks](#4-what-each-run-checks)
5. [Fairness](#5-fairness)
6. [What is proved](#6-what-is-proved)
7. [Where the code and its comments disagree](#7-where-the-code-and-its-comments-disagree)
8. [What is not modelled](#8-what-is-not-modelled)

To check: `tlc -workers 2 -config X.cfg MCX.tla` for a run (NMPlugin, Keepalive and
Tunnel have no MC module and are checked themselves), `tlapm X_proofs.tla` for a
proof.

## 1. Inventory

The path of a packet from the client's TUN device to the server's:

    TUN reader -> queue -> writer -> mux.Stream -> mux.Conn/Encoder
      -> shaper.CoalescingConn -> crypto.FrameCipher -> HTTP/2 stream -> TLS ->
      HTTP handler (bridge) -> io.Pipe -> FrameCipher -> mux.Conn.readLoop
      -> mux.Stream -> tun.TunRouter.Bridge -> TUN

The way back is the same with the roles exchanged: `TunRouter.readLoop`
dispatches to the channel of a session, whose goroutine writes to the stream.

| component | source | state | operations | interacts with |
|---|---|---|---|---|
| write coalescer | `internal/shaper/coalesce.go` | batch, timer, closed, under one mutex | Write, timerFlush, coverLoop, Close | called by every goroutine that writes a mux frame; holds its mutex during the transport write |
| frame cipher, session keys | `internal/crypto/frame_cipher.go`, `internal/auth/session.go` | send and receive nonce counters, read buffer | Write, Read, Close, Encrypt, Decrypt | below the coalescer, above the HTTP/2 stream |
| multiplexer | `internal/mux/` | stream table, per-stream message queue and flags, done, ping times | OpenStream, dispatch, Read, Write, Close, pingLoop | its peer, by frames; `onStream` callback |
| TUN router | `internal/tun/router.go` | routes (address to channel), the channels | readLoop, register, unregister, Bridge | mux streams, the TUN device |
| server sessions | `cmd/ghost-server/main.go`, `internal/camouflage/h2_server.go` | activeSessions under sessionsMu; two pipes, a monitor and an HTTP handler per session | onAuth, closeSession, monitor, bridge | mux, coalescer, TUN router |
| client sessions | `cmd/ghost-client/main.go` | activeSession (atomic pointer), session objects, sessionStart | establish, rotation loop, watchdog, close, TUN writer, stream readers | the server's onAuth, by its login; mux, coalescer |
| receiving half | `internal/crypto/frame_cipher.go`, `internal/mux/codec.go` | receive nonce, rest of an opened frame, mux frame being read | FrameCipher.Read, Decoder.ReadFrame | the peer's coalescer, by the order of the sealed frames; mux.readLoop |
| keepalive | `internal/mux/conn.go`, `internal/shaper/shaper.go` | two tickers, the times of the last PING and PONG | pingLoop, keepaliveLoop, the read loop's echo | the coalescer's mutex; Close of Conn |
| handshake and camouflage | `internal/auth/noise.go`, `internal/camouflage/`, `internal/fallback/` | one Noise state per request, what the handler has read of the body | TunnelHandler, Handshake, router, fallback | client and server sessions; the site behind the fallback |
| replay window | `internal/auth/replay.go` | head, bitmap | Mark, Head, Reset | nothing in protocol v1: the stream transport has implicit nonces |
| padding of the shaper | `internal/shaper/shaper.go`, `asymmetry.go`, `burst.go`, `distribution.go` | byte counters, burst schedule | Start, Stop, paddingLoop | mux; nobody feeds the counters |
| configuration, profiles | `internal/config/`, `internal/profile/` | none after start | Load, defaults | read once |
| transport, TUN device | `internal/transport/`, `internal/tun/device.go` | none of their own | wrap TLS, system calls | at the edges |
| NetworkManager plugin | `nm-plugin/` | service state, child process, temporary configuration, cancel function of the watcher | Connect, Disconnect, cleanup, watchTunAndReport | D-Bus, ghost-client as a process |
| tools, GTK editor, tests | `cmd/ghost-tools/`, `nm-plugin-gtk/`, `test/` | none | key generation, a dialog, scripts | - |

What is hard, and what makes each part correct:

- **Coalescer and cipher.** Writers, timers, the cover loop and Close all flush
  one buffer; a timer that was stopped too late runs all the same and clears
  `c.timer` under a newer one; the cipher takes the nonce before it takes its own
  write lock, and the receiver counts nonces. Correct when frames leave in order,
  whole and once, none is stranded, nonces are in order on the wire, no batch is
  refused, and padded packets are padded.
- **Multiplexer.** Stream.Write checks the closed flag, unlocks, and sends; Close
  marks, wakes the reader and sends STREAM_CLOSE last; both ends close; the Conn
  may end meanwhile. Correct when a reader gets the peer's bytes in order and the
  EOF after them, once and finally, when every Close reaches the other reader and
  the table forgets the stream.
- **TUN router.** One goroutine serves all clients: it must not wait for one of
  them. It sends on a channel after giving up the lock. A session learns its
  address from its first packet; the Bridge of a kicked session may still be
  running when its successor registers the same address. Correct when packets
  reach the owner of their address and nobody else, in order, when a session loses
  its route to a session of the same address only, and when every Bridge ends.
- **Server sessions.** A login kicks the client's session before, under the one
  mutex of all logins, and the kick waits for the coalescer of the session it
  ends. The handler of a session returns with the first of its two copies, while
  the other may write the response. Correct when a client has one live session, which is the one in the map,
  when the kicked one is cut off, and when every login and every handler ends.
- **Client sessions.** The rotation loop and the watchdog both establish sessions
  and swap the pointer, and each login makes the server end the session before,
  so that they set each other off. The server's own ping timeout closes its mux and
  no connection: the client does not see that. Correct when the session in use is open and
  every other one is closed, and when the client and its packets come back after
  a fault.
- **Replay window.** Shifts at the width of the word, nonces exactly as far behind
  as the window is wide.
- **Request and tunnel.** The handler must decide between tunnel and fallback on a
  body that goes on with tunnel data: it may read no byte too many, and must give
  back what it has read. A sealed frame holds several mux frames and a Read takes
  eight bytes of it. Correct when the site behind the fallback sees the request as
  it came, when both ends count the same nonces, when what a Decoder returns is
  what the peer's mux sent, and when no session stays half open.
- **Keepalive.** Two loops ping over one Conn, the answers look the same, and PINGs
  and answers go through the mutex that bulk data holds. Correct when a live
  transport is not given up, a dead one is, and a broken one ends Conn and its two
  loops, although a write to it may return nil. The shaper's loop is another matter:
  the server stops it only in a kick.
- **NetworkManager plugin.** The waiter and the watcher of an old connection act on
  the fields of a new one. Correct when every client process is known or on its
  way out, no configuration file is left behind, every Disconnect ends in Stopped,
  every start ends, and a client that dies is noticed.

`PROJECT.json` lists these hazards one by one, each at its line.

## 2. Plan

Order, by what the users of the VPN depend on most:

1. Coalescer over the cipher, with the frame queue it implements (done, proved).
2. Replay window, with the set it implements (done, proved).
3. TunRouter (done, proved except liveness).
4. Mux, over the FIFO that 1 promises (done, proved except liveness).
5. ServerSessions (done, proved except liveness).
6. ClientSessions (done, proved except liveness).
7. NMPlugin: state, process, watcher and waiter goroutines (done, proved except
   liveness).
8. Tunnel: the request with its two Noise messages, the handler's decision between
   tunnel and fallback, and the receiving halves of cipher and codec on both ends
   (done, proved except liveness).
9. Keepalive: pings, pongs and deadlines in time, on both ends (done, proved).

Composition. The modules meet at stated promises rather than in one product
state space: Mux has a FIFO wire, which is what FrameQueue promises and Coalescer
is shown to implement; TunRouter lets a session arrive only when the client's
session before has ended, which is OneLivePerClient of ServerSessions;
ClientSessions has a server that keeps the last login and drops the one before,
and whose mux may give a session up, which is what ServerSessions does as long as it
does not crash; ServerSessions and ClientSessions have a flush
that holds the mutex during the transport write, which is Coalescer's Locked.
Tunnel has both ends of a connection in one state space and takes from Coalescer
that sealed frames enter the wire in the order of their nonces (NonceOrder), so
that a session seals and sends in one step; what its Decoders return, in order and
whole, is Mux's wire. Keepalive says when pingLoop closes the Conn, which Mux lets
happen at any time.

Abstract specifications: FrameQueue (for Coalescer), SeenSet (for ReplayWindow)
and ByteChannels (for Mux). Worth stating next: the FIFO with loss at its end that
Tunnel gives to Mux in each direction, as a module of its own that both use; at
present DecodedPrefix says it of Tunnel and `wire` of Mux is it.

## 3. The modules

| module | models | state and code |
|---|---|---|
| `FrameQueue` | what the sending half of a session promises | accepted and sent frames, the transport |
| `Coalescer` | `coalesce.go`, sending half of `frame_cipher.go` | `buf`, `timer`, `closed` are the fields; `io[a]` is what goroutine a does inside `inner.Write`, split at the point where the cipher has taken its nonce (Seal) and the transport takes the frame (Deliver) or refuses it (Refuse). A timer is armed, then fired and waiting for the mutex: `Stop` is too late for it |
| `SeenSet` | what a replay check promises | the set of accepted nonces |
| `ReplayWindow` | `replay.go` | `head`, `hasAny` and `bitmap`, a set of bit positions; one action per branch of Mark |
| `TunRouter` | `TunRouter` of `router.go` | `routes` is the map; `queue` and `closes` are the channels; `reader` is what readLoop holds between its unlock and its send; `bridge`, `down`, `up`, `errc` are the three goroutines of each Bridge. `unregister` is two actions, UnregisterTakes under the lock and UnregisterCloses after it |
| `ByteChannels` | what the multiplexer promises of each direction of a stream | messages sent and arrived, bytes read, where the writer closed; the channels the reader's side has given up, and those at their end |
| `Mux` | `conn.go`, `stream.go`, two ends | `table` is `streams`; `stream` holds `readMsgs`, `readOff`, `readErr`, `closed` and the calls that are half done; `wire` is the FIFO between the ends; `loop` and `conn` are readLoop and `done` |
| `ServerSessions` | `onAuth`, `closeSession`, the monitor; `bridge` of `h2_server.go` | `mu` is sessionsMu, `active` the map, `auth` where each onAuth is, `coalMu` who holds the coalescer's mutex in a write to pipe2, `down` and `up` the copy goroutines; a write of `down` after the handler's return may panic, and Crashed stops everything |
| `ClientSessions` | `main.go` of the client | `active` is the pointer; `phase` goes from establish() to the end of close(); `loop` is the rotation loop and the watchdog; `live` are the sessions the server has in its map, `lapsed` those its mux gave up while the connection stays; `held` are the sessions whose coalescer mutex is held by a write that stalls; `writer` is the TUN writer with its three tries |
| `NMPlugin` | `plugin.go` | `state`, `proc`, `cfgTmp`, `cancelWatch` are the fields; each Connect makes an activation with its process (`process`), its configuration file, its `watcher`, and, when it is disconnected, its `waiters`. What runs under `p.mu` is one action, what runs outside is split where another goroutine can come between: the watcher's last look at its context (NotCancelled) and its report (Reports), its timeout, its cleanup and its signal (Expires, GivesUp, EmitsFailure), a process that ends and the waiter that sees it. `overlap` and `late` record that NetworkManager called during a stop and that a watcher acted after it was cancelled: what NoOrphan and NoLeakedConfig say without them is false |
| `Keepalive` | pingLoop, readLoop of `conn.go`, keepaliveLoop of `shaper.go`, two ends | time in units of 10 s; `sentAge` and `pongAge` are the ages of pingSentUnix and lastPongUnix, `pingIn` and `pingDue` a ticker with its one buffered tick; `full`, `hung` and `broken` are what a transport can do, and `shut` the coalescers that are closed: a write to a broken transport may report nil (WriteResult), since it goes to the batch and timerFlush drops the error. Tick is taken when nothing Urgent is left, that is, when every goroutine that can go on has |
| `Tunnel` | Handshake and establish of the client, Router, TunnelHandler, fallback, Session, FrameCipher.Read, Decoder | `client` and `server` are where each end is; `wire` has the units of the body and of the response; `taken` is what the handler holds for its MultiReader, `seen` what the fallback has read of it; `keys`, `nonce`, `readBuf` are Session and FrameCipher, `partial` the frame ReadFrame is in. A ReadFull waits for its units or for the end; Cut ends both directions, with a loss at the end of each |

The modules named `MC...` give the constants of the runs; those named
`..._proofs` hold the theorems. The operators whose names have a suffix
(`TimerFlush_KeepsTimer`) are plausible mistakes in the code, used to see that each
property can fail; no specification uses them.

Some decisions of abstraction:

- In `Tunnel` a unit is a byte, or as many bytes as are always read together: two
  for a length prefix of the handshake, two for the eight bytes of a mux header
  (its length is read off the first, and a ReadFull may end between them), two for
  a sealed frame, which Decrypt opens whole. A wrong key or nonce, or anything
  that was not sealed, does not open.
- In `NMPlugin` a client process reads its configuration, makes its device and ends
  when it likes; one that is sent SIGTERM ends. A device of the right name counts,
  whichever process has made it, as in the code.

- A frame has a size and no content; a TUN packet has a number and a destination;
  a DATA frame has its number on its stream. The properties are about order,
  loss, duplication and ownership, which these are enough to tell apart.
- Sizes are units of about 260 bytes: a small frame is 1, a TUN packet 5, flushes
  are at 5, padding to 4 or 5 and the least limit of the cipher that TUN packets
  allow is 9. They keep the order of the code's constants and its edges.
- `dev.Read` that fails ends readLoop: ReadPacket is then not taken.
- In `ClientSessions` a session is a slot that is used again when nothing refers to
  its old session, so that the watchdog may reconnect for ever in a finite model.
  Which free slot is taken does not matter.
- The connection that fails while it is dialled, the server's refusal and a
  fallback page are all a connection that is dead.

## 4. What each run checks

| run | instance | shows |
|---|---|---|
| `coalescer` | 2 writers, 2 timers, 3 writes, 1 cover flush | see below |
| `replay_window` | window of 4 bits, nonces 0..9 | ImplementsSeenSet |
| `tun_router` | 2 sessions of one client, 2 addresses, 2 packets down, 1 up, channels of 1 | NoDoubleClose, InOrderOnce, RouteOrHeir, BridgeEnds, WriterExits, ReaderMovesOn |
| `mux` | one stream, 2 frames each way, writes of 1 or 2 frames, messages of 2 bytes | BytesInOrder, EOFAfterData, TableMatches, ImplementsChannels, CloseReaches |
| `server_sessions` | 2 sessions of one client | OneLivePerClient, LiveIsActive, KickedIsCut, EntriesGo, AuthCompletes, KickedReturns |
| `client_sessions` | 3 slots, 1 rotation, 1 fault, reconnects without bound | OneReady, OldIsClosed, Recovers, WriterFollows |
| `nm_plugin` | 2 Connects, 2 Disconnects | NoOrphan, NoLeakedConfig, DisconnectEnds, StartingEnds, DeadIsNoticed |
| `keepalive` | interval of 3 units, timeout of 1, delay of at most 1, 6 frames on the wire, the server sends in bulk | KeepsLive, DetectsDead, NoEchoStorm, ConnEnds |
| `tunnel` | handshake buffer of 3 units, messages of 2, 2 mux frames each way with payloads of 0 or 2, requests and pages of up to 6 units | FallbackSeesAll, DecodedPrefix, FramesArrive, Settles |
| `tun_router_panic`, `server_sessions_panic`, `client_sessions_hitless` | the least instance each | a disagreement, section 7 |

Type invariants are theorems (section 6) and take no run; Keepalive states none.

*coalescer.* NothingStranded: while data waits and nobody flushes, a timer is on
its way, although a stale one may have cleared `c.timer`. NonceOrder: sealed
frames reach the wire in the order of their nonces. PrefixSent:
what has left is a prefix of what was accepted, so that no batch is dropped.
PaddedFlush: a padded packet misses its target by a header at most.
ImplementsQueue: the same as a refinement, with liveness. Two writers and two
timers give every pair of goroutines that can compete for the mutex; the third
write starts a timer after an earlier one was stopped too late.

*tun_router.* The two sessions are a client's old and new one, whose Bridges overlap;
the new one's first packet bears the old one's address or another, so that both may
have registered one address, in either order, or two. With channels of one packet the
second packet finds a full channel. RouteOrHeir: a session that has registered has its
route, unless another session registered the same address and has the route or took it
along when it left. That the session in use keeps its route is false of a reconnect
(section 7). WriterExits exempts a session whose address another one has registered,
for then the channel may never be closed.

*mux.* A write of two frames may be cut by a Close of either side; a message of two
bytes may be read in two parts; the Conn of either side may end by a ping timeout
and the transport may lose the end of what is on the way. ImplementsChannels: what
one side reads of a stream is an ordered channel of the bytes the other writes. A
Write that overlaps a Close may put frames behind STREAM_CLOSE; they never arrive.
The end of a channel is final, and is where the writer closed it unless the
reader's own side has closed the stream or its Conn has ended.

*server_sessions.* Two sessions are one kick, with the monitors, pings and the
handler of both. More sessions are chains of kicks, which sessionsMu makes one
after the other; the safety properties are proved for any number. AuthCompletes,
EntriesGo and KickedReturns name what stops them in the code and allow nothing else:
the process has panicked (Crashed), or a client that never reads holds up its own kick
(Blocked) or its own handler. They assume nothing of clients.

*client_sessions.* Three slots are the session in use, the one the rotation
establishes and the one the watchdog establishes at the same time; one rotation
and one fault are enough for the two loops to kick each other's session, for
establish() to fail after the kick, for a stall to hold the mutex, and for the server
to give up a session the client keeps. No stall has to end: OldIsClosed, Recovers and
WriterFollows say each which connection it is whose endless stall excuses them, and
Recovers counts a lapsed session as served, since the client cannot tell
(`ClientSessionsLapsed.cfg`).

*nm_plugin.* Two Connects are an old connection and a new one: the old waiter, the
old watcher and the old process meet the new activation in every order. The
invariants are proved for any number. NoOrphan: a client that runs and was not told
to end is the one the next Disconnect stops, unless calls overlapped a stop or a
watcher came too late; NoLeakedConfig: no configuration, which holds the private
key, stays on disk. DisconnectEnds: every Disconnect ends in Stopped. StartingEnds:
Starting ends although the client may hang or end unseen. DeadIsNoticed: Started
ends when no client is left. The three hold also when calls overlap.

*keepalive.* An interval of 3 and a timeout of 1 are 30 s and 10 s, the code's
values. Time is in the model: KeepsLive, DetectsDead and ConnEnds are safety
properties with their deadlines. Both loops of both sides tick, with every phase
between the two sides, every delay up to the bound, and a transport that fills,
hangs in one direction or in both, or breaks at any moment. Ages are capped where
a longer age changes nothing, and six frames on the wire are more than the two
loops and the echoes of both sides can have there (NoEchoStorm).

*tunnel.* The buffer is one unit larger than a message, so that an announced length
may be right, too small, larger than the message and larger than the buffer. A
visitor's request and the site's page have every length up to both prefix and
message and two units more, with every announced length, on the tunnel's path or
another. Two frames each way travel in one sealed frame or in two, and their
payloads are empty or longer than what is left of a buffer; the cut comes at every
unit of either direction.

Bounds are constants of the modules (MaxWrites, MaxCovers, MaxDown, MaxUp,
MaxOpen, MaxData, MaxChunks, MaxRotations, MaxFaults, MaxConnects,
MaxDisconnects, MaxDelay, MaxWire, MaxFrames, MaxWeb) and stand in the guards of
the actions they bound. Runs switch off the deadlock check because the system may
rest: nobody has to write, connect or rotate, and a closed connection stays so.
Only the replay window and the keepalive never rest, and are checked for deadlock:
in Keepalive a deadlock would be a state in which time cannot pass.

## 5. Fairness

A goroutine that can run does run: weak fairness of its next step. A goroutine that
waits for a mutex gets it: `sync.Mutex` hands the lock to a waiter after 1 ms
(starvation mode), hence strong fairness of the steps that wait for one (TimerFlush,
AuthLocks, MonitorRuns, CloseCoalescer, the steps of close(), the TUN writer).
Nobody outside is obliged to anything: no client has to connect, send, read or
leave, no application has to open or close a stream, no rotation has to start.

A blocked transport write has to return in Coalescer only, by its `FairSpec`. In
ServerSessions and ClientSessions nothing obliges a client to read or a stall to end:
the code does not ensure it by itself, TCP does, after some fifteen minutes. What it
costs is in the statements of the properties, and `ServerSessionsStuck.cfg` and
`ClientSessionsStuck.cfg` show it. In TunRouter a stream.Write may
fail at any time, block as long as the stream lives, and returns when the stream has
ended.

In NMPlugin the goroutines of the plugin go on, and a process that has been sent
SIGTERM ends; NetworkManager and a running client are
obliged to nothing. In Tunnel what has arrived is read by the handler, by the
client and by both receiving halves, and the site behind the fallback answers each
request it gets, also one whose body goes on; nobody has to send a request, a
frame, or to leave. Keepalive states no fairness: its Tick waits for what is
Urgent, and its properties are about the time that has passed.

## 6. What is proved

All theorems hold for every value of the constants under the named assumptions of
the modules, and tlapm checks them to the last leaf.

| theorem | statement |
|---|---|
| `Coalescer_proofs`: TypeCorrect, TimersKeepData, NoncesInOrder | `Spec => []TypeOK`, `[]NothingStranded`, `[]NonceOrder` |
| NoBatchRefused, FramesInOrder, CoalescerImplementsQueue | with MTUSized frames: `[]NeverRefused`, `[]PrefixSent`, and that Coalescer implements `FrameQueue!Spec` |
| FlushesPadded | when one padding frame can hold the least target: `[]PaddedFlush` |
| `Connection_proofs`: WindowCorrect, NoReplay, WindowImplementsSeenSet | the bitmap is exact, `[]AtMostOnce`, and that ReplayWindow implements SeenSet |
| KeepaliveTypes, ConnAlwaysEnds | `[]TypeOK`; with StoreLags = FALSE: `[]ConnEnds` |
| EchoesBounded, LiveKept, HangsDetected | with a Timely transport: `[]NoEchoStorm`, `[]KeepsLive`, and with Probes also `[]DetectsDead` |
| `TunRouter_proofs`: TypeCorrect, RoutesLive, ClosedOnce, PacketsInOrder | `[]TypeOK`, `[]NoStaleRoute`, `[]NoDoubleClose`, `[]InOrderOnce` |
| RouteLostToHeir | a registered session has its route or an heir of the same address took it (`[]RouteOrHeir`) |
| `ServerSessions_proofs`: TypeCorrect, LiveFound, OneLive, KickCuts | `[]TypeOK`, `[]LiveIsActive`, `[]OneLivePerClient`, `[]KickedIsCut` |
| `ClientSessions_proofs`: TypeCorrect, OneOpenSession | `[]TypeOK`, `[]OneReady` |
| `Mux_proofs`: TypeCorrect, ReadsInOrder, EOFLast, TableExact, EOFFinal | `[]TypeOK`, `[]BytesInOrder`, `[]EOFAfterData`, `[]TableMatches`, `EOFIsFinal` |
| MuxImplementsChannels | `ImplementsChannels`: Mux implements `ByteChannels!Spec` |
| `NMPlugin_proofs`: TypeCorrect, NoClientLost, NoConfigLeaks | `[]TypeOK`, `[]NoOrphan`, `[]NoLeakedConfig` |
| `Tunnel_proofs`: TypeCorrect, AllSeen, FramesDecoded | `[]TypeOK`, `[]FallbackSeesAll`, `[]DecodedPrefix` |

The arguments:

- *Coalescer.* None of the properties is inductive by itself. `IInv` adds that one
  goroutine at a time is inside inner.Write and that the batch is empty then
  (Mutex), that `c.timer` never names a timer that has run (TimerRef), that after
  Close only Close writes (AfterClose), and that while the transport works the
  nonce is the number of sealed frames on the wire, or one more while one is under
  way (NonceCount). `DataInv` adds Pending: what is accepted is what is sent, then
  what is in the write under way, then what is in the batch. It needs MTUSized: a
  frame together with an unflushed batch fits the cipher. That is true of what the
  TUN device gives (buffers of MTU+100 bytes) and false of the frames `frame.go`
  allows. The refinement maps `accepted`, `sent` and `transport` to themselves;
  Deliver is Deliver, InnerClose is Shut, everything else stutters. PaddedFlush follows
  from what each write under way holds (Padded) when MinPaddedSize is at most
  MaxPayload, what one padding frame can hold; the code has 1100 and 65535 bytes.
- *ReplayWindow.* `IInv` is WindowExact with the types; the bits are the offsets from
  head, and the shift moves each accepted nonce to its new offset.
- *Keepalive.* Two hypotheses describe the environment. Timely: a round trip takes less
  than an interval (the code's is 30 s), the transport holds the few frames that two
  loops and their echoes have in it, one side at most sends in bulk, and pingLoop
  does not pause between SendPing and the store. Probes: PingTimeout is less than an
  interval; the code has 10 s and 30 s. The last two parts of Timely cannot be left
  out: `KeepaliveMutual.cfg` and `KeepaliveLags.cfg` (section 7) have them otherwise.
  The code guarantees neither, so that LiveKept holds for what satisfies them and for
  nothing more. ConnAlwaysEnds needs only the very last: it is the read that fails, not
  a write, that closes Conn of each side (Ending). For the other three,
  Flow bounds the PINGs outstanding: a PING counts from its write to its answer's
  arrival, on the wire, in the readLoop that answers it and as a PONG on the wire
  back (Out), and there are at most as many as the side has ticks taken in this
  interval (Spare); the time a frame has left and the time since its sender's tick
  make MaxDelay at most, MaxDelay more for its answer (OnTime), so that none is
  outstanding at the next tick (Quiet). Hence EchoesBounded. LiveKept adds that while
  nothing hangs an unanswered PING is outstanding (Alive). HangsDetected says in which
  phase each pingLoop is after a hang (Dead): it has not ticked yet, it sends a PING,
  it waits, knowing that no answer can come any more (Deaf), or the time is over; the
  age of the hang is bounded in each. Flow fails once a readLoop is stuck
  with its answer in a transport that is full and hangs; from then on Held bounds the
  PINGs of its peer, two of the interval before the hang and two after, so that the
  peer's pingLoop is not held up and comes to its deadline.
  ReplayWindow and Keepalive share nothing but a connection; their proofs share a
  module.
- *TunRouter.* An address's route leads to a session that has registered it and not
  unregistered: a session takes itself, or a successor, out of the map under the
  lock, and only what was taken out is closed, which bounds the closings of each
  channel by one although a Bridge may close another's channel. Packet numbers
  grow along the reader's hand, the channel, the writer's hand and the stream. Which
  session has the route of an address is another invariant: one that has registered and
  not unregistered has the route, or some other session of that address has it, or has
  taken it out as it left (RouteOrHeir). The code promises no more, and
  `TunRouterStale.cfg` shows the route lost to a predecessor.
- *ServerSessions.* The lock invariant says that one onAuth is between its lock and
  its unlock; while it is, the map entry of its client does not change except by a
  monitor that removes it. A live session is in the map, and the one in the map is
  the one the next login closes.
- *ClientSessions.* Each loop owns the slot it establishes (Owned), so that Swap
  makes active a slot nobody else has, and drains exactly the one that was active.

- *Mux.* What a reader has got says nothing about what is still to come, so `IInv`
  follows each direction of each stream from end to end: the reader is at some
  number (Taken), the DATA frames on the wire carry on from there without a gap up
  to what was sent, they find the stream in the table or follow a STREAM_OPEN on
  the wire, STREAM_CLOSE is where the writer was, and while the transport works
  nothing sent is missing (Links). Further parts say that an id is used by one side
  only (Parity), that an unknown id has nothing on its way (Unknown, OpenFirst,
  Opened), and what a half-done call holds (Held). EOFIsFinal is a property of the
  steps from it. The refinement needs one thing more, LateFrames: a DATA frame that
  was sent after STREAM_CLOSE comes after it, or its reader has ended. Then DATA that
  arrives is within what the channel still owes, and STREAM_CLOSE arrives when it owes
  nothing. In the refinement mapping a channel is named by the side that reads it; it
  has sent what the writer's history says, is closed when STREAM_CLOSE was sent, and
  has received what is queued or read (Taken). SendData is Send, SendClose is Close,
  a Dispatch of DATA is Arrive and one of STREAM_CLOSE is End when the stream is there
  and its read side open, Read is Read, CloseStream and EndStreams are Abandon;
  everything else stutters, STREAM_OPEN too, for it finds a stream that is new.
- *NMPlugin.* In Stopped the fields are empty (IdleIsEmpty), and the watcher that can
  be cancelled is that of the process in `proc` (WatchesProc). As long as nothing has
  overlapped, the only watcher that still acts is that one and none does in a stop
  (OneWatcher), and the only goroutine that waits does so for `proc`, during a stop
  (OneWaiter): its cleanup then forgets nothing but the process whose end it saw.
- *Tunnel.* For the fallback, Body: as long as the handler has not accepted the
  request, what was passed on, what the handler holds and what is still to come are
  the request, or a prefix of it after a cut. For the frames, Link, once for each
  direction: there is a counting `b` of the mux frames that come before each nonce
  (Batches); the sealed frames on the wire are those whose nonces the reader has not
  reached, in order and under the key of their sender, perhaps behind an msg2
  (OnWire); and what the reader has opened without having decoded it is the rest of
  the one or two mux frames of one sealed frame (InHand). Phases says how far the two
  sides can be from each other: nothing is sealed before the server has answered,
  and a client that opens has found the msg2 of a server with the matching keys.
  The bounds are constants of the theorems: messages, frames and buffers of any
  size, any number of frames. TunnelAssumption needs None to be neither a status nor
  a pair of keys.

Only model-checked: every liveness property (BridgeEnds, ReaderMovesOn,
WriterExits, CloseReaches, EntriesGo, AuthCompletes, KickedReturns, OldIsClosed,
Recovers, WriterFollows, DisconnectEnds, StartingEnds, DeadIsNoticed, FramesArrive,
Settles and the fairness half of ImplementsQueue), since the prover does not reason
about ENABLED. Every invariant that a run checks is the statement of a theorem; those
with a hypothesis in the table are checked under it. Induction over data is out of the
prover's reach too; no module that is proved about has a recursive operator.

## 7. Where the code and its comments disagree

Shown by runs:

- `tun_router_panic`: readLoop sends on a channel that unregister closes after the
  lookup, and the server process panics (`router.go:204, 228`).
- `server_sessions_panic`: a kicked session's handler returns while its other copy
  writes the response; net/http takes the response back, the next Write or Flush
  panics, and the server process ends (`h2_server.go:249-275`, against
  `cmd/ghost-server/main.go:176-177`). A client that disconnects can do the same
  without a kick.
- `client_sessions_hitless`: a rotation is not hitless, since the server ends the old
  session at the login of the new one and the client swaps only afterwards.

Shown by configurations beside the runs, each with one property that TLC finds
violated:

- `TunRouterStale.cfg`: the late unregister of a kicked session deletes the route its
  successor has registered for the same address; the new session is alive and gets
  no packets (`router.go:224`).
- `ServerSessionsStuck.cfg`: closeSession waits for the coalescer of a client that does
  not read, before it comes to the pipes whose closing would end that wait, with
  sessionsMu held (`cmd/ghost-server/main.go:174`).
- `ClientSessionsStuck.cfg`: close() has the same order on the client's side, and the
  writer waits for ever in a session whose connection stalls.
- `ClientSessionsLapsed.cfg`: the server's ping timeout closes its mux, its readLoop goes
  on and answers PINGs (`conn.go:97-101, 188`); when the stall is over the client takes
  the session for alive and keeps it, until it rotates.
- `NMPluginLate.cfg`: the watcher looks at its context, then reports Config, Ip4Config
  and Started; a Disconnect or a cleanup in between has StateStarted follow
  StateStopped or StateStopping (`plugin.go:365`, against 184-185 and 260-261).
- `KeepaliveMutual.cfg`: both read loops can wait in the write of a PONG, each for the
  other to read; that the read loop answers at once (`conn.go:232`) costs what the
  loops are to do (76-79). A ping timeout, or TCP, ends it.
- `KeepaliveLags.cfg`: pingSentUnix is stored after the PING is sent (`conn.go:110`);
  when a second begins and the PONG arrives in between, the next tick takes a live
  transport for dead (against 76-77).

Met while modelling, true of the models, and not spent a run on: the last flush in
Close is not padded (`coalesce.go:257`, against lines 64-65); the cover loop looks at
the batch, not at what flowed (235, against 37-38); CoverInterval 0 becomes 25 s (57,
against 39); frames above 60 KiB, legal for the mux, are refused by the cipher with
the batch they are in (`frame_cipher.go:68`, against `frame.go:15-16`); a stream that
enters the table after Conn.Close has swept it is never ended (`conn.go:214`, against
168); a Conn without onStream takes a peer's stream into its table (214, against
35-36); ConnLifetimeSec 0 does not disable rotation (`config.go:135`, against 98); the
channel of a session whose route was overwritten is never closed and its writer
waits for ever (`router.go:216`); pingLoop closes after one unanswered PING, not
after two (`conn.go:17`); a PING that waits in a full transport that hangs is never
looked at, so that the detection is not bounded by 70 s (`conn.go:15-18`); readLoop
still answers PINGs when pingLoop has given up (`conn.go:188`); a listen that fails
ends the server by os.Exit, which skips the defers that remove the NAT rule
(`cmd/ghost-server/main.go:316, 146`); a tunnel address that is not IPv4 makes To4()
nil in the plugin (`plugin.go:326`); conn-lifetime-sec 0 is left out of the file the
plugin writes, since its tag says omitempty.

## 8. What is not modelled

- Contents: cryptography, the encodings of keys, packets and messages, HTTP headers.
  What opens and what does not is in Tunnel, lengths and prefixes are too.
- Time, outside Keepalive: intervals and deadlines are nondeterministic choices.
- Composition in one state space beyond Tunnel and Keepalive: the modules meet at
  the promises section 2 names.
- The traffic shaper's paddingLoop, which has no effect as RecordUp and RecordDown are
  called by nobody, and the samplers, which are random numbers.
- The older point-to-point Bridge of `router.go` (lines 27-143), which only a test
  uses, and the client's TUN and stream readers, whose loops are those of TunRouter
  and Mux.
- Shutdown of client and server by a signal: the process ends.
- Configuration, profiles, TLS, the TUN device, tools, the GTK dialog, tests:
  sequential, or at the edge of the system.
