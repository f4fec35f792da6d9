# TLA+ models of pyrad2

pyrad2 is a RADIUS library: UDP clients and servers (blocking and asyncio), RadSec
(RADIUS over TLS), RADIUS/1.1, a dictionary and an attribute codec. This directory holds
TLA+ models of its protocol logic, the TLC runs that check them on small instances, and
TLAPS proofs of what matters most for every instance. Paths below are relative to
`src/pyrad2/`. `PROJECT.json` has the definition-by-definition map to source lines.

## 1. Inventory

| Component | State | Operations | Talks to |
| --- | --- | --- | --- |
| Response cache (`dedup.py`) | in-flight set, ordered dict of replies with expiry, RLock, clock | `lookup`, `mark_in_flight`, `drop_in_flight`, `record_reply`, `clear` | the servers, possibly several threads |
| Router (`router.py`) | flags, hosts, cache | host lookup, parse, gate, verify, MA policy, reply preparation, dedup shims | both UDP servers |
| `Server` (`server.py`) | sockets, poll loop | receive, gate, dispatch, reply | router, user handlers |
| `ServerAsync` (`server_async.py`) | transports per port | `datagram_received`, `_dedup_dispatch`, `send_response`, default NAK handlers | router, event loop, user handlers |
| `Client` (`client.py`) | socket, retry policy | blocking send with retries, EAP rounds | EAP methods, packet |
| `ClientAsync` (`client_async.py`) | per transport: pending map, identifier counter, timeout task | create, send, receive, time out, close, EAP rounds by callback | event loop, EAP methods |
| Retry policy (`retry.py`) | retries, timeout, backoff, jitter, cap | `wait_for` | both clients |
| Packet (`packet.py`, `tools.py`) | attributes, authenticator, flags | encode, decode, authenticators, Message-Authenticator | everything |
| RadSec client (`radsec/client.py`) | one reusable TLS connection, `last_error`, io lock, Token counter | connect, send, retry, close | asyncio streams, `radsec/v11.py` |
| RadSec server (`radsec/server.py`) | connections | read frames, verify, dispatch | handlers |
| RADIUS/1.1 (`radsec/v11.py`) | Token counter | ALPN negotiation, next token | RadSec |
| EAP methods (`eap/`, digests of `mschap.py`) | per-packet conversation state | `start`, `respond` | client drivers; `scenarios/auth_eap_*.py` as the other end |
| Dictionary (`dictionary.py`, `dictfile.py`, `bidict.py`) | stack of open files, attributes with parents and values, vendors, parser state, deferred values | one handler per statement, `$INCLUDE` | codec |
| CHAP, MS-CHAP, MD4 (`chap.py`, `mschap.py`, `_md4.py`) | none | digests | packet, EAP |
| Proxy (`proxy.py`) | a client-side socket | `_handle_proxy_packet` | `Server` |

Hard behaviour, in the order of importance used below:

1. Duplicate detection: retransmissions race with the handler, with the recording of its
   reply, with expiry, with the LRU cap, and with other threads that share the cache.
2. The asyncio client: one timeout task serves all requests of a transport; identifiers
   are a scarce resource that is reused while old replies may still arrive; EAP rounds
   re-enter the transport from a callback; callers cancel and close at any time.
3. Both together: what the client keeps or changes between transmissions decides what
   the server sees as a duplicate and what the client accepts as an answer.
4. Policy: what each side writes into and demands of authenticators, for each code.
5. RadSec: a stream that is shared by concurrent senders, outlives cancelled ones, and
   comes back after an error with another protocol version and another server state.
6. The codec: nested containers, five ways of fragmenting, lengths at each level, and values
   whose obfuscation is decided only when the packet is encoded.
7. The dictionary: order of declarations over files and includes, and containers that are
   declared again.

The hazards of each, with the line where they bite and the property that covers them, are
in `PROJECT.json`.

## 2. Modules

| Module | Models | State and actions |
| --- | --- | --- |
| `ResponseCache` | the methods of `dedup.ResponseCache`; one operator per method, one atomic step because each body runs under the RLock | `inFlight`, `cached` (a sequence, newest use last, as the OrderedDict), `now` |
| `ResponseCacheApi` | any sequence of calls on a cache; history variables say what was recorded and used | one action per method, plus the clock |
| `DuplicateDetection` | abstract: what RFC 5080 duplicate detection promises | `Execute`, `ExecuteUnkeyed`, `Replay`, `Forget`, `Tick` |
| `DedupServer` | `_dedup_dispatch`, `consult_cache`, `send_response` / `send_reply_packet`, the `finally` clause | a program counter per worker; every lock release, and the gap between sending and recording, is a step boundary |
| `RetryPolicy` | `retry.RetryPolicy.wait_for` | pure operators; jitter is a choice from an interval |
| `DatagramClient` | `DatagramProtocolClient` and the `ClientAsync` code that uses one transport | callbacks as atomic steps; network as "any reply to anything ever sent, at any time, any number of times" |
| `Exchange`, `MCExchange` | a client (either kind) and a server with duplicate detection end to end | the correlator (Identifier, Request Authenticator) of each transmission; `Acct-Delay-Time` with the snapshot of `_send_packet` and both branches of its `finally` |
| `RequestPolicy` | `RequestRouter` as both servers call it, Message-Authenticator rules of `packet.py`, `verify_reply` | one datagram through both servers side by side, and the reply back to the client |
| `RadiusV11` | `radsec/v11.py` | pure operators: what is advertised, the TLS floor, `negotiate`, the next Token |
| `EapMethods` | the methods of `eap/`, and the handlers of the three demonstration servers | pure operators on EAP messages; a digest is the tuple of its inputs |
| `RadSec`, `MCRadSec` | `RadSecClient` and `RadSecServer` over TLS connections | a program counter per sending task with one step per `await`; the lock's queue, the connections with what is under way on them, the server's sessions; timeouts, resets, cancellation, `close`, restart |
| `AttributeTypes` | the datatypes of `tools.py` | values to octets and back |
| `Dictionary` | `Dictionary.read_dictionary` and `DictFile` | one action per statement and per way it is refused; attribute objects on a heap, because the code tells a redeclared attribute from the old object by identity |
| `AttributeCodec` | the attribute part of `packet.py` | the ordered dict of a packet, its encoder and decoder as operators |
| `PacketCodec`, `MCPacketCodec` | a packet from the application to its peer | read files, add, assign, obfuscate (or be refused), encode (again under the other version), decode, read by name |
| `SequenceLemmas`, `ResponseCacheLemmas` | lemmas on sequences and on the cache operators | |
| `ResponseCacheProofs`, `DedupServerProofs`, `RequestPolicyProofs`, `DatagramClientProofs`, `ExchangeProofs`, `RadSecProofs` | theorems about the module each is named after | |

How they compose: `DedupServer` and `Exchange` extend `ResponseCache`; `DatagramClient`
and `Exchange` extend `RetryPolicy`; `RadSec` extends `RadiusV11` and `EapMethods`;
`PacketCodec`, `AttributeCodec`, `Dictionary` and `AttributeTypes` build on one another;
`DedupServer` instantiates `DuplicateDetection` under
a refinement mapping (the answer held for a key is the one being recorded, else the cached
one).

Abstractions. Packets are their correlators, replies are numbers (two handler runs never
give the same bytes), HMACs are the authenticator they cover, times are integers. A `Server`
and a `ServerAsync` differ for duplicate detection only in how the bytes leave, so one
module stands for both. User handlers are arbitrary: they reply, do not reply, raise, or
(with `AllowDefer`) leave the reply to something that runs later. A handler of `Server`
that raises anything but a packet error ends `Server.run`; the model covers that because
no worker is ever obliged to receive again.

In `RadSec` a reply is two units, header and body, because the client reads them with two
awaits and can be cancelled between them; its certificate checks and the TLS handshake are
their outcomes. The handlers behind `RadSecServer` are those of `scenarios/`, which the
repository runs behind `ServerAsync`; they do not depend on the transport. In the codec,
octets are octets and all lengths are the code's, but dictionary lines are records, since
tokenizing is not what can go
wrong. An exception of `struct.pack` is a value that no octet string holds. A Python value is
tagged with what it is: `str`, `bytes`, an address or prefix in any notation, a number, or the
name of a VALUE; `encode_string` counts the characters of the one and the octets of the other,
`encode_octets` takes `0x...` and decimal literals for the octets they denote, and
`decode_string` turns what is not UTF-8 into hexadecimal text. Obfuscation keeps the blocks
of 16 octets and what each is chained to; only the MD5 digest is replaced, by a number that
depends on the chained block.

`DatagramClient` takes the Request Authenticator as unique per round. For Accounting- and
CoA-Requests it is the MD5 of identifier and body, so that two requests with the same body that
are given the same Identifier one after the other share it; a late reply to the first would then
be taken for the second. In `RadSec`, `close()` and its `wait_closed()` are part of the step
that calls them, and a torn frame whose octets happen to be a valid packet of version 1.1 is
left out. In `DedupServer`, sending cached bytes again is part of the lookup that found them.

Forms such as `EvictOffByOne`, `LiveInclusive` or `VerifyReplyById`, each standing right before
the definition it varies, are faulty variants of that definition. No specification uses
them; `PROJECT.json` lists, for every property, the variant that breaks it.

## 3. Runs

`tlc -config X.cfg M` for each entry of `runs`. All finish within three minutes on two cores.

Passing:

* `cache_api` (about 825 000 states): every sequence of up to `MaxOps` counted accesses to
  a cache with room for fewer entries than there are keys, records with different `ttl`, and
  a clock that reaches expiry. The cap, the exactness of `lookup`, and that the cap evicts
  the least recently used entry. The last is stated against a history of uses and not
  against the order of the dict.
* `dedup_single`: one dispatch loop whose handlers reply before they return. No handler run
  within the lifetime of a reply; replays are the last reply; refinement of
  `DuplicateDetection`.
* `dedup_threads` (about 2 million states): two threads that share a cache, deferred
  replies. No leaked marker, no reply to the wrong request.
* `client` (about 157 000 states): three requests, two identifiers, one EAP round,
  cancellation and close. Distinct identifiers, replies matched to the right request and
  round, the retry count, the sleep of the timeout task, and that a future stays unresolved
  only if the timeout task has ended or an EAP round found no identifier.
* `exchange` (about 620 000 states): ClientAsync with accounting and EAP, and Client
  with accounting, against the server; `sendto` may raise, and the application may send the
  same Accounting-Request twice. The handler runs once if the client repeats itself
  exactly; a reply answers the current round; after every call the packet has the
  Acct-Delay-Time that the application gave it - none, one value or several; the call ends.
* `policy` (about 118 000 states): all flags, codes, ports and replies, both servers.
* `radsec` (about 372 000 states): two tasks on one client, one of them with an EAP
  exchange. The configurations are every client version against every server version and
  TLS version; every method against every handler, with right, wrong and missing password;
  one fault of each kind (cancellation, `close`, restart with any versions) on a shared
  connection; certificates that are not allowed. A send returns the reply to its own packet
  and round; nothing but the lock holder's exchange is on an open connection; every packet
  goes out in the version of its connection, with a Token of its own in version 1.1; both
  ends agree on the version; the right password is not rejected because a request was
  repeated; every send ends.
* `codec` (about 54 000 states): a dictionary with one attribute of every framing, loaded
  from several arrangements of files and from files that are refused; then every pair of 77
  calls whose values lie just below, at and above the limits, on an `AuthPacket` or another
  packet; either version, or one after the other. The peer finds the same octets under the
  same attributes, reads back the values by `packet[name]` and `packet[container][name]`,
  encoding raises exactly when something does not fit (but for the exceptions below), and
  the dictionary is what the text of its files says. The same loads and calls were replayed on
  the Python code with the model's digest in place of MD5: the 17 loads, the 2688 refused
  calls, the 23 864 encodings, the 17 710 decodings and the 30 260 reads of `packet[name]`
  (336 of them exceptions) of the run agree octet by octet with the library's.

Violated, because the code does not do what its documentation says (see `findings`):

* `dedup_race`: between `lookup` and `mark_in_flight` in `consult_cache`, a second thread
  that shares the cache can pass as well, and the handler runs twice for one request.
* `client_cancel`: the timeout of a cancelled future raises in `__timeout_handler__` and
  ends it; the other requests of the transport are never retried or timed out.
* `exchange_sync_eap`: `Client` sends all EAP rounds with one Identifier and Request
  Authenticator, so the second Access-Request is a duplicate of the first to the server,
  which replays its first Access-Challenge.
* `radsec_token`: `create_reply(packet=...)` decodes a reply and then overwrites its Token
  with the request's (`packet.py:654`), so `verify_reply` compares a Token with itself. When
  a send was cancelled after writing, the next send on the connection returns the reply to
  the cancelled one. In version 1.0 the Response Authenticator prevents this.

Further divergences the same models show, with the instance that shows them:

* `DuplicatesDroppedWhileProcessing` fails with one worker and `AllowDefer = TRUE`: the
  marker is dropped when the handler returns (`server.py:293`, `server_async.py:335`), not
  when the reply is sent.
* `EveryFutureResolves` fails with `AllowClose = TRUE` (`close_transport` leaves the
  futures of pending requests alone) and with fewer identifiers than requests
  (`IdentifierExhausted` is raised inside `_on_reply`, where nobody catches it);
  `ResolvesWhileSwept` names both exceptions, so it says nothing about these two.
* `HandledOnce` excludes `Client` with accounting: a retransmission carries another
  Acct-Delay-Time, hence another Request Authenticator (`client.py:188`), and is handled again.
* `Transmissions` is `retries` in `Client` (`client.py:185`) and `retries + 1` in
  `ClientAsync`, while `retry.py:20-23` promises the latter for both.
* `ServersAgree` excludes an Accounting-Response on the accounting port, which `Server`
  passes to its handler (`server.py:343`).
* The default CoA and Disconnect handlers of `ServerAsync` send their NAK through
  `send_response`, which caches it (`Keyed`, `SendResponse`); `docs/server.md:179` says
  such replies are never cached.
* `RepliesVerify` excludes the reply to a CoA- or Disconnect-Request that carries a
  Message-Authenticator: `verify_message_authenticator` takes the reply's own authenticator
  field (`packet.py:547`), `_refresh_message_authenticator` had taken the request's, and the
  client ignores the reply. `packet.py:226-228` promises that the mirror rule holds "for
  every code".

RadSec:

* After a reset, `wait_closed` raises again, so the `await self.close()` in the handler of
  the retry loop (`radsec/client.py:395`) ends `send_packet` with an exception instead of the
  next attempt (`TransportError`).
* After a cancellation inside a frame the connection is kept (`ReadTornFrame`): the next
  send fails with `PacketError`, or a `ValueError` leaves `send_packet` and the connection
  stays as it is.
* The comment at `radsec/client.py:376-377` and `docs/client.md:279` say that a send without a
  reply leaves `last_error` as `None`. A reply that is late raises `TimeoutError`, and the
  handler sets `last_error` (`radsec/client.py:388`): no path returns `None` with it unset, unless
  another send clears it, which happens before the lock is taken (`radsec/client.py:358`).
* `_stamp_radius_version` speaks of "the server's RFC 5080 dedup cache"
  (`radsec/client.py:291`); `RadSecServer` has none. A repeated response meets an ended
  session in the MD5 and GTC servers, and the user is rejected (`RightPasswordAccepted`
  names the case).
* A packet that was first prepared for version 1.0 keeps its Message-Authenticator when it is
  sent again in version 1.1; the peer discards it.
* `close()` beside a send closes the connection under it; the send reports an error, opens a
  new connection and goes on.
* A challenge without State raises `KeyError` in every method, where `eap/base.py` says State
  is copied "when the server sent one".

Codec and dictionary, each a premise of the property that meets it:

* `_encode_deferred_value_list` hides every attribute of code 2 as a password, also a
  vendor's or a sub-attribute (`Promised`).
* A tag octet is written but never removed when reading, and a tagged salted value cannot be
  decoded; `add_attribute` salts at once, for the version the packet has then (`Promised`).
* A deferred sub-attribute that is nested three levels deep uses its parent's bare code and is
  not among the calls.
* Three failures contradict the documentation; `RaisesOnlyWhenTooLong` names each as an
  exception and would hold for nothing less. A vendor's `concat` value is cut into pieces of
  253 octets (`packet.py:1517`), which do not fit into a Vendor-Specific AVP, where
  `docs/dictionary.md:54` says that long values are split (`ConcatUncut`); two received pieces
  that were merged make `verify_reply` raise as well. `list()` of a sibling that is itself a
  container keeps its codes only (`packet.py:888`), so that a deferred sub-attribute beside
  it makes encoding raise, where `packet.py:908-910` says that siblings are folded in
  (`BesideNestedMap`). `packet[name] = value` of a sub-attribute writes to the top-level
  attribute of its code (`packet.py:720`), where `docs/dictionary.md:97-104` has it read through its
  parent (`AssignedBare`).
* `_salt_en_decrypt` serves both directions and always chains on its output (`packet.py:1959`);
  for `salt_decrypt` that is the plaintext, where the sender's keystream depends on the
  ciphertext. The peer recovers the first 15 octets of a salted value and no more, so a
  16-octet MS-MPPE key never arrives, while `docs/client.md:260` says that `set_obfuscated`
  "works for" these, and `packet.py:2181-2182` has the right rule for passwords.
  `ValuesReadBack` leaves out longer salted values (`BeyondFirstBlock`) and fails without that.
* `set_obfuscated` of a password in a packet that is no `AuthPacket` raises when the packet is
  encoded in version 1.0 (`HidesWithoutPwCrypt`), as the message of the error says.
* Text of up to 253 characters passes `encode_string` with more than 253 octets, and fails
  when the packet is encoded (`TooLong`).
* An empty TLV is decoded to an empty dict, which cannot be encoded. No call produces it.
* When a container was declared again, `packet[container]` raises `KeyError` for everything
  below it that was declared before (`Orphaned`).
* Declaring a container again orphans its sub-attributes and drops its VALUEs; containers
  of two vendors with one code share an entry of the parser's table
  (`DictionaryMatchesFiles`). A VENDOR line with the default format does not reset an earlier
  format. A refused sub-attribute stays registered. A VALUE that does not fit its type ends the
  read with the error of `encode_attr`. An include cycle never ends.

Bounds. `RadSec`: two attempts, so that every error occurs with and without a retry left;
`MaxPackets` = 3 ends a connection inside an exchange; three connections can exist at a
time (the client's, a closed one whose requests the server still reads, and one that a
sender is on), and a fourth would only be one more of these; `TokenSpace` = 8 with counters
that start one before the wrap. A new counter does not start within as many Tokens as
there are senders before one that a packet kept from an earlier connection (their share of
2^32 is the chance that is left out). Faults are one per behaviour, because
two cancellations or restarts multiply the states without a new kind of leftover on the
stream. `PacketCodec`: two calls on a packet, so that attributes meet in one container, in
one AVP, or as stored and deferred values of one name. The models stop: a send or a packet
is over.

The cache is smaller than the number of keys so that the cap acts; `MaxNow` lies beyond the
expiry of a reply recorded after a replay; `MaxArrivals` lets a request, its duplicate during
processing, one while its reply is live, and one after that arrive. `DatagramClient` has fewer
identifiers than requests, so that they run out and are reused; ages saturate at the longest
wait, so time needs no bound there. Its timeout is two units, so that the task can oversleep,
and equals `MaxWait` (see `ClientWakesInTime` for the rest); backoff and the cap on a wait are
exercised in `exchange`, jitter in `client_cancel`. In `Exchange`, `TTL` is longer than all
retries of a round plus the longest network delay, which is the documented use (30 s against a
client's retry schedule); an Accounting-Request is sent `MaxSends` = 2 times, so that a call
starts from what an earlier one left, in each of the ways it can end; `MaxNow` exceeds the
longest exchange, and `SendReturns` would fail if it did not. Deadlock is checked for the cache
and for `DatagramClient`, which never stop. The other models stop: the dispatch when
`MaxArrivals` datagrams are done and the clock has reached `MaxNow`, an exchange or the way of a
datagram when it is over.

Fairness. `DatagramClient`: weak fairness of time, of the timeout task once its sleep is
over, and of scheduled callbacks; this is what an asyncio event loop gives as long as no
callback blocks. `Exchange`: weak fairness of the clock and of the client's own loop. The
network and the server owe nothing in either: a datagram may always be lost. `RadSec`: weak
fairness of each sender's next step, where a wait may end by its timeout: `wait_for` bounds
every wait, and the event loop runs a task that can run. Nothing is assumed of the server, of
the network or of the order in which tasks get the lock beyond its queue.

## 4. Proofs

`tlapm M.tla` for each module whose name ends in `Proofs` or `Lemmas`. The theorems hold for
every value of the constants that the `ASSUME`s of the modules allow; TLC evaluates these
assumptions on the runs. The third, fourth and fifth part of the `RadSec` invariant were found
with TLC's help, on the configurations of the run; the fifth also with two senders that run EAP.

`SequenceLemmas` and `ResponseCacheLemmas` say what removing, appending and filtering do to
a sequence, and what the cache operators do to the entries: which survive `Without`,
`MoveToEnd`, `PutAtEnd` and `Evict`, that keys stay unique, and that eviction drops a live
entry only if the cap forces it.

`ResponseCacheProofs` (assumptions: TTL and cap positive, sentinels distinct from replies):

* `CacheTypeCorrect`, `CacheCapRespected`: `[]TypeOK`, `[]CapRespected`;
* `CacheLookupExact`: the action property `LookupExact`. The inductive invariant is
  `CacheInv`: types, unique keys, *Faithful* (an entry is the latest reply recorded for its
  key) and *Complete* (a live latest reply that the cap did not push out is in the dict).
  Completeness is the part that needs the eviction lemmas: expired entries are dropped only
  from the front, and a hit reorders the dict.
* `CacheEvictsLeastRecentlyUsed`: the action property `EvictsLeastRecentlyUsed`. `UseInv` adds
  to `CacheInv` that the order of the dict is the order of the last uses (`ByUse`), which a
  hit (`move_to_end`) and a store keep, and which dropping expired entries from the front and
  a loss at the cap cannot disturb.

`DedupServerProofs` (assumptions: finitely many workers, replies numbered by handler run):

* `DedupTypeCorrect`, `DedupInFlightOwned`, `DedupRepliesMatchRequests`, for any number of
  threads and with deferred replies. The inductive invariant `Inv` adds to the two
  properties that run numbers are covered by received datagrams (`RunsCounted`, needed for
  the types), that only keyed requests reach `mark` and `record`, and *Provenance*: each
  reply that is due, being recorded, cached or sent comes from a run for its own key.
* For one dispatch loop whose handlers reply before they return (`OneLoop`: one worker, no
  deferred replies; the main loop of `Server`, and `ServerAsync` with such handlers):
  `DedupNoRerunWithinTtl`, `DedupReplaysLastReply`. The hypothesis is
  needed: `dedup_race` shows what two threads do. `LoopInv` says that the dict holds the last
  reply sent for each key (*Faithful*) and all of those that are alive and were not pushed out,
  but for the one that is being recorded (*Complete*), and that a key being served has no
  live answer (*ServedNotCached*).
* `DedupImplements`, under the same hypothesis: the refinement of `DuplicateDetection`. Each step
  of the server is shown to be a step of the specification or to change nothing in it:

  | step of `DedupServer` | step of `DuplicateDetection` |
  |---|---|
  | `SendReply` | `Execute`, or `ExecuteUnkeyed` for a request without a key |
  | `ConsultResend` | `Replay` |
  | `ConsultDrop`, `ConsultMiss` | `Forget` of an expired answer, or none |
  | `Record` | `Forget` of what expired or exceeds the cap, or none |
  | `Wait` | `Tick` |
  | `Receive`, `ConsultNoKey`, `MarkAndStart`, `HandlerDone`, `Finally` | none |

  The abstract answer exists from the moment the reply is sent, the entry of the dict only
  after `record_reply`: the mapping takes the union, which is a function because of *Faithful*
  and *RecordsLast*.

`RequestPolicyProofs` (no assumption beyond the two kinds of server):

* `PolicyTypeCorrect`, `PolicyServersAgree`, `PolicyAuthentic`, `PolicyRepliesVerify`,
  `PolicyRepliesCarryMac`: all invariants of the run. What a server did and what the client
  makes of the reply are one or more steps apart, so the invariant recalls for each outcome the
  checks it has passed or failed (`OutcomeDetermined`), for each reply the call that made it
  and whether it was cached (`RepliesProduced`), for each ignored reply that it does not
  verify (`VerdictsExplained`), and what a client that has the secret can have sent
  (`SentByClient`). The properties follow from these by the definitions of the checks.

`DatagramClientProofs` (any numbers of requests, Identifiers, retries and rounds; any network):

* `ClientTypeCorrect`, `ClientPendingIdsDistinct`, `ClientResolvedByOwnReply`,
  `ClientTimeoutAfterAllRetries`. Identifiers are reused, so that a reply matches is not
  enough: `PendingCurrent` says that an entry of the pending map belongs to the current round
  of a request without a reply and counts its transmissions, `PendingReqsDistinct` that a
  request has only one entry. The sweep over the pending map changes many entries in one
  step; the lemmas about filtering a sequence carry the invariant over it.
* `ClientWakesInTime`, under the hypothesis `Timeout <= MaxWait`. The hypothesis is needed:
  the heartbeat is `timeout`, but a wait is cut at `max_wait`, so with a larger `timeout` the
  idle task sleeps past a request that is sent meanwhile. The defaults satisfy it.

`BackoffAssumption` (`Backoff ^ attempt >= 1`) is a fact of arithmetic for `Backoff >= 1`, in
the form the provers can use; TLC evaluates it.

`ExchangeProofs` (`HoldsAllReplies`: the sets `Key` and `Raw` hold every correlator and
reply, which the bounded sets of the run do as far as it goes):

* `ExchangeTypeCorrect`; `ExchangeRestoresPacket`, for any number of sends and any lists of
  values. A retry replaces the list by one value or adds the attribute, and nothing but the
  snapshot remembers what was there: the invariant says that while a `Client` waits with an
  Accounting-Request, the snapshot is the application's value, and that any other packet is
  unchanged all along. Each way out of the call then meets one branch of the `finally`.
* `ExchangeAnswersThisRound`, without the scenario of a `Client` with EAP, for which
  `exchange_sync_eap` shows that it is false. `RoundsTraced` carries the correlator of each
  round through the network, the cache and the replies.
* `ExchangeHandledOnce`, under `RepliesOutliveRequests`: `TTL` exceeds all retries of a round
  plus the network delay, and the cap has room for a reply per round. The invariant is
  `HandledCovered`: once a round was handled, the cache answers every copy of its request
  until that copy is gone, also the copies the client has yet to send, whose last moment
  (`LastCopy`) shrinks as attempts are used up. `Timely` bounds the clock against the client's
  deadline. The eviction lemma is needed because other rounds are recorded meanwhile.

`RadSecProofs` (finitely many senders; connection slots numbered from 1), in five parts that
build on one another:

* `Inv1` gives `RadSecTypeCorrect`: types, the lock's queue
  holds exactly the senders that are under way, each once, and its first holds the lock
  (`LockKept`), and what is known of an attempt in each of its steps (`AttemptKept`).
* `Inv2` gives `RadSecEndsAgree` and `RadSecWireMatches`: the client's version is that of the
  connection it keeps (`ClientVersion`), a waiting packet is stamped with the version of the
  connection it waits on (`PacketVersion`), and the TLS floor (`ServerFloor`).
* `Inv3` gives `RadSecReturnsOwnReply` and `RadSecOneExchange`. On a connection that can still
  be read from, everything under way is either from a sender that has gone after a
  cancellation, or it is the last thing in its direction and belongs to the current round
  of the one sender that waits (`InOrder`). In version 1.0 the Response Authenticator rejects
  the first kind; in version 1.1 nothing does, which is why the property is limited there
  to behaviours without cancellation (`radsec_token`).
* `Inv4` gives `RadSecTokensDistinct`, under `EnoughTokens`: at least as many Tokens as
  senders (2^32 in the code). Since the counter wraps, the invariant is a distance: the Tokens
  in use lie at least as far ahead of the counter as there are packets without one
  (`CounterAhead`).
* `Inv5` gives `RadSecRightPasswordAccepted`. `Conversations` follows each sender through its EAP
  rounds: every State cookie has one owner, the sender whose identity opened the session,
  wherever the cookie is found (`Claim`); a sender with the right password and method asks in
  round 1 with its identity, in round 2 for the verdict on the challenge of its own session,
  in round 3 (MSCHAPv2) for the end (`Asks`); each answer that can still be read is one that
  lets it go on (`Answers`); and the session of round 2 is there unless a copy of the same
  request has used it up. Requests of earlier rounds may still be under way on abandoned
  connections; that they cannot end the session follows from the owner of the cookie and the
  round they belong to. It holds as long as the server was not restarted and a reply is
  checked (`Undisturbed`: version 1.0, or no send was cancelled); `OneVersion` says that all
  connections agree on one version until then.

Model-checked only:

* liveness: `ResolvesWhileSwept`, `SendReturns` of both models (fairness is outside the
  prover's reach);
* `PacketCodec`: its decoder and container encoder are recursive over data, which is out of
  the prover's reach.

## 5. Not modelled

The digests themselves (MD4, MD5, SHA-1, DES), CHAP and MPPE keys; the packet header and the
text of dictionary lines; values of `abinary`; `packet.__delitem__` as a call of its own;
packets that this encoder cannot produce; a `str` that is no literal for an `octets` attribute,
and passwords that are not UTF-8. That CoA- and Accounting-Requests replace the authenticator
after values were salted with it, which the peer cannot undo, is outside the keystream
abstraction. Socket and TLS setup, start and stop of listeners, the selector loop, the legacy
attributes of the retry policy, logging and tracing: I/O or bookkeeping without decisions of its
own. The proxy leaves forwarding to the application. `scripts/`, `examples/` and the main
programs of `scenarios/`.

## 6. Plan

Done: response cache, duplicate detection and its refinement, the asyncio client, the
end-to-end exchange, request policy, RadSec with RADIUS/1.1 and EAP, dictionary and codec; the
theorems of section 4.

Next, in this order:

1. Start and stop of the asyncio listeners.
2. The dispatch of `DedupServer` with several threads: what of duplicate detection is left there.

