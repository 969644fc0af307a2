# sockLight: specifications, checks and proofs

sockLight is a SOCKS5 proxy with a terminal dashboard. It is one process and
one event loop (AnyIO): the listener, a handler task per client, two pipe tasks
per relay and the dashboard's timers and key handlers interleave only where
they await. This directory holds TLA+ models of its core, the TLC
configurations that check them, and proofs checked by TLAPS.

- [The system](#the-system): the parts, their state, operations and hazards
- [Modules](#modules): what each models and how it corresponds to the code
- [Runs](#runs): what TLC checks, with which bounds
- [Fairness](#fairness)
- [Proofs](#proofs): what TLAPS proves, from what, and how
- [Where documents and code disagree](#where-documents-and-code-disagree)
- [Plan](#plan): what comes next, in which order
- [Not modelled](#not-modelled)

Paths are relative to `src/socklight/` unless they name another directory.

## The system

| Part | State | Operations | Interacts with |
|---|---|---|---|
| Connection server (`server.py`) | listener, `_semaphore`, `_cancel_scopes`, `_conn_throttle`, each handler's place and sockets | `start`, `stop`, `_handle_client`, `cancel_connection`, `set_conn_throttle` | calls all parts below; killed and throttled by the dashboard |
| Relay (`relay.py`) | two pipe tasks, a pacing window each | `relay_streams`, `_pipe` | counts into the tracker, reads the live throttle, cancelled by its sibling, a kill or the shutdown |
| Tracker (`tracker.py`) | `_active`, `_history`, records, totals, `structure_version` | `open_connection`, `activate`, `deny`, `close`, counters, `clear_history` | written by handlers, read once a second by the dashboard, reset by it |
| DNS cache (`server.py`) | two tables, their roles | `_resolve` | called by handlers concurrently; lookups run in worker threads |
| Filter engine (`filters.py`) | rule list, compiled patterns, mode, category overrides | add, prepend, remove, clear, mode, reset, check, load, save | asked by handlers, changed by the console |
| Classifier (`classifier.py`) | two-level index, fallback list, category overrides | `classify`, override queries and changes | asked by handlers; overrides changed by the console |
| Throttle engine (`throttle.py`) | host and category rules | add, remove, match, load | asked by handlers and the console |
| SOCKS5 (`socks5.py`) | none beyond the stream | `negotiate_auth`, `read_connect_request`, `send_reply` | called by handlers |
| Rules console (`tui.py`) | the rules file | commands, the keys D, A, R, K, T, save and reload | changes engine, classifier and throttles; kills relays |
| Dashboard (`tui.py`) | table order, shown rows, last statuses, category counts | refresh every second, history toggle, session reset | reads the tracker |
| Exporters (`tui_exporters.py`) | none | PAC, Privoxy and adblock text | read engine and classifier |
| Command line, screens, data | none that changes | start-up, static text | |

What is hard in each, and what makes it correct:

- **Server.** A handler has some ten awaits; at each the client may leave, a
  timer may fire, the operator may kill, the server may stop. It is correct if,
  on every way out, the record, the reply, both sockets, the kill registration
  and the semaphore slot agree.
- **Relay.** Two tasks cancel each other, and can be cancelled from outside,
  between writing a chunk and counting it. Correct if counts follow delivery
  and neither pipe outlives the other.
- **Tracker.** Correct if each record is in exactly one list, ends once, and
  totals are conserved when records move and when the session is reset.
- **DNS cache.** The check and the store are separated by an await: stores
  come in any order and across rotations. Correct if bounded, fresh, and not
  forgetful.
- **Rules.** A rule list ordered by history, removed from by target and not by
  identity; two copies of the overrides; a file that may be half written.
  Correct if the copies agree and a restart decides as before.
- **Rules against connections.** A verdict holds for the whole connection; the
  only later influence is the kill, which finds relays and nothing else.
- **Throttling.** Limits are matched at admission, registered at relay start,
  changed from the dashboard, and read before a receive that may wait long.
  Each command works out for itself which running connections it concerns.
  Correct if a running relay has the limit its rules give it.
- **SOCKS5.** A stream cut up anywhere, a client that may stop, leave or run
  ahead. Correct if exactly the message is consumed and each side never waits
  for the other.
- **Classifier.** A fast index that must decide as the plain list in definition
  order would.
- **Dashboard.** Incremental updates driven by version counters and sets of
  ids that must follow the tracker's lists through evictions and resets.

`PROJECT.json` lists the hazards line by line with the properties that cover them.

## Modules

```
ConnLifecycle            abstract: the life of a connection as a reader sees it
      ^ implements
Tracker <- ProxyServer <- MCProxyServer           (TLC)
                       <- ProxyServerProofs       (TLAPS)
DnsCache <- MCDnsCache, DnsCacheProofs
FilterRules <- RulesConsole <- MCRulesConsole, RulesConsoleProofs
LiveThrottle <- MCLiveThrottle, LiveThrottleProofs
Socks5Handshake <- MCSocks5Handshake, Socks5HandshakeProofs
RelayPacing <- RelayPacingProofs                  (TLC runs RelayPacing itself)
Tracker <- Dashboard <- MCDashboard
FilterRules, Classifier <- Exporters <- MCExporters, ExportersProofs
SequenceFacts            lemmas on lists, folds and sums, for the ...Proofs modules
```

**Tracker** holds the variables of `ConnectionTracker` and one action operator
per method. A handler opens at most one record and ids never repeat, so a
record is identified with its connection. `counted` is bytes in units of one
chunk. `AddToHistory` is the deque with its `maxlen`. `SoftReset` is the
tracker part of the dashboard's session reset; `Displayed` is the sum that
`_refresh_stats` shows. `ProxyServer` and `Dashboard` both EXTEND it: the one has
everything that calls it, the other what reads it.

**ProxyServer** is `server.py` and `relay.py`. `pc[c]` is the await at which the
handler of connection `c` is suspended, so one action is what the task does from
one await to the next:

| `pc` | suspended at | leaves by |
|---|---|---|
| `queued` | the semaphore, line 314 | `AcquireSlot`, `QueuedCancelled` |
| `handshake` | the reads and writes under `fail_after(5)`, 336 | `HandshakeAborts`, `HandshakeTimeout`, `RequestMalformed`, `RequestDenied`, `RequestAllowed` |
| `resolving` | `to_thread.run_sync`, 116 | `Resolved`, `ResolverRaises`, `ConnectFails` |
| `dialing` | `connect_tcp`, 456 | `Dialed`, `ConnectFails`, `DialTimeout` |
| `replying` | `send_reply`; `answer[c]` says which | `DeniedReplied`, `FailureReplied`, `MalformedReplied`, `ClientLeftBeforeTunnel`, `TunnelOpens` |
| `delaying` | the start delay of `relay_streams`, or its first checkpoint | `StartPipes`, `RelayKilled` |
| `relaying` | the task group of `relay_streams` | `RelayCloses`, `RelayFails`, `RelayKilled` |
| `closing`, `crashing` | closing the streams | `StreamsClosed` |

`HandlerCancelled` is the shutdown reaching a handler at its await; a handler that it
reaches in the queue ends as `dropped`, one past the semaphore as `cancelled`. Each pipe
has a place of its own (`pipe[c][d]`): receiving, sending, draining (written,
not counted), sleeping (pacing), over, broken. `told` and `delivered` are what
the client and the other end have really got; the code has no such variables,
the properties compare its records with them.

Abstracted: the verdict of the rules, the results of lookups and dials, message
contents and times are nondeterministic. A write that the peer never
acknowledges may or may not have arrived (`ReplyDelivered`).

**ConnLifecycle** is what the tracker promises its readers: opened once, may
relay, ends once with an outcome that fits how far it came; traffic belongs to
relaying connections; the recent list shows endings in order without a gap.
`ProxyServer!ImplementsLifecycle` is the refinement, with the status mapped to
a stage and the history to the recent list. Cancelled and crashed handlers
implement it by never taking their last step.

**DnsCache** is `_resolve`: `Miss` up to the await, `Store` after it. The code
swaps two dictionaries after clearing one; the model assigns the tables. An
answer is known by the time it was asked for. `since[h]` is a history variable.

**FilterRules** has no variables: a filter engine is a value, its methods are
operators from engine to engine. Rule texts are a pattern, a port and a
spelling; two texts can name the same target in different spellings, which
`rule not in self._rules` tells apart and `find_rule` does not. A rule goes into the file as its original text and is
parsed anew: `AtSign` names the texts that then begin with `@` and load as a category,
`CutAt` those with a newline, of which the part before it is a rule and the rest is taken
for a line without a keyword; `Verbatim` texts are neither. `Allowed` is the
decision in `_handle_client_body`: a matching rule is final, then the category's
override in the classifier, then the mode. `Lines` and `Load` are the rules
file, as lines with what the loader makes of each, including a line with a
trailing comment: a mode line is then ignored, a rule gets a pattern that
matches nothing. `CategoryLine` is `deny`, `allow` or `remove @name`; the older `block` and
`unblock` do what the first two do. `Allowed` takes the category the classifier found: `RulesConsole`
fixes one per host, `Exporters` computes it with `Classify`.

**RulesConsole** runs commands, keys, edits of the file, saves that may fail at
any line, and reloads, against connections in every stage. `saved` is a history
variable. The version counter of the engine is left out.

**LiveThrottle** is `throttle.py`, the lookup at admission, `set_conn_throttle` and
the `throttle` commands. An engine is a value as in `FilterRules`; a limit is a
speed or `NoLimit` per direction. `Parsed` is `parse_throttle_args` over parts the
tests tell apart. `PassOn` is what a command does to the connections it looks up:
only those in `_conn_throttle`, the running relays, are reached. `origin` is a
history variable: whether the limit comes from the rules, from `throttle #id`, or
is left over from rules that changed while the connection was being made (or by a
failed reload). Lines whose arguments do not parse are skipped by the loader and
left out. How the relay spends a limit is in `RelayPacing`.

**RelayPacing** is the loop of `_pipe` for one pipe: `pc` is the receive, send or
sleep it awaits, `bps` the limit it read at the top of the loop, `elapsed` the age
of its window. `SentThrottled` is all of the arithmetic from the send to the sleep,
with the reset of a window more than a second behind (`TooFarBehind`). Time is in
ticks, traffic in units of the smallest read; limits divide a second, so that no
sleep falls under the millisecond the loop skips. `debt` is a ghost variable: a bucket
that each chunk fills and that the limit in force drains, begun anew when
the limit changes. Ends of the pipe are in `ProxyServer`, which sleeps at will.

**Dashboard** is the connection table and the category counts against the tracker.
A refresh has no await and is one step, `RefreshUI`: `Rebuild` when the history was
switched, else `Update`, which prunes evicted records, hides, adds and rewrites rows,
puts the cursor back, and writes the throttle column. `order`, `rows`, `cells`,
`lastStatus` and `totals` are `_display_order`, the DataTable, what it shows,
`_last_statuses` and `_cat_cumulative`. `ResetSession` is `action_soft_reset`, the table,
the tracker and the counts. Of a row the two cells that are only written on a change
are kept, the status and the throttle; traffic, speed and time are written on every
refresh of an active row and left out, as are the viewport, the labels of the
statistics and the panel's three-second rhythm.

**Classifier** is `classifier.py` without the overrides. A name is a sequence of labels
and a label a sequence of symbols, because the index cuts names at their dots while
the patterns do not; the two levels of the index (top-level domain, then the label
before it) are one key. `Fnmatch` is the library's matching. A pattern keeps the case of the data file, and
`Lower` is what the classifier compiles and indexes. The module has no specification
of its own: `Exporters` runs it.

**Exporters** is the three generators of `tui_exporters.py`, beside the engine and the
classifier they read. Overrides are of any name, `unknown` included, as a line of the rules file gives
them, while the files list loaded categories only. A generated file is modelled by what its reader decides from it
(`PacVerdict`, `PrivoxyBlocks`, `AdblockBlocks`): the order of its sections and what
each entry covers come from the code, the matching of the reader
(`shExpMatch`, Privoxy's label-wise patterns, `||name^`) is external. `UrlShows` gives
the ports whose `:n` occurs in the URL of a request: none for a default port, and
`:80` also in `:8080`. The PAC file has the patterns of categories as they are written
(`AsWritten`), the other two in lower case.

**Socks5Handshake** is the inside of the phase `handshake` of `ProxyServer`: `at` is
the `read_exact` or `send` awaited, `want` and `buffer` its progress. The client
writes its script a byte at a time and leaves at any point; the proxy receives any
part of what is there. The header comment says which action of `ProxyServer` each
outcome is. The constants `MethodList`, `Address`, `PortNumber` and `Reserved` span the
messages (`Wire`) that the properties compare with: they are built from what a client
means to say, not parsed from what it sent. `Reserved` are the values of the byte
between command and address, which the code reads and ignores (`socks5.py:242`).

## Runs

| Run | Instance | Asks |
|---|---|---|
| `server_safety` | 2 connections, no cap, 1 chunk each way, history of 1 | the invariants that relate records, replies, sockets, kills and counts; the action properties; the refinement |
| `server_liveness` | 2 connections, cap 1, no data | types, slot conservation and the liveness properties, under `FairSpec` |
| `dns_cache` | 4 names, 2 callers, limit 2, TTL 2, clock to 3 | bound, freshness, retention |
| `rules_console` | 3 hosts of one category, 5 patterns, 2 spellings, 3 hand-written files, 2 rules, 1 connection | consistency of rules, patterns, overrides and file |
| `throttle_live` | 1 connection, 3 patterns, 1 category, 2 argument lists, 1 hand-written file, 2 rules | limits of running relays against the rules |
| `socks5_handshake` | 32 scripts: 24 proper requests with a byte sent ahead, 8 improper ones | consumption, verdict and replies against the message written |
| `relay_pacing` | limits of 5 and 20 units a second, zero and none; 20 ticks a second; reads of up to 3 units | traffic and sleeps against the limit |
| `dashboard` | 3 connections of one category, history of 1, 1 of them throttled | table, order, selection and counts against the tracker |
| `exports` | 4 hosts, 6 category patterns in 2 categories, 4 rule texts, 2 ports, 3 entries in all | the index against a scan; the files against the proxy |
| `dashboard_selection` | as `dashboard` | violation: an eviction moves the selection to another connection |
| `server_crash_leaves_active` | 2 connections, cap 1 | violation: a crashed handler's record stays active |
| `rules_clear_deny` | as `rules_console`, more texts typed | violation: `clear deny` removes an allow rule |

Properties of the server:

- `RecordsFiled`, `ReturnFilesRecord`: a record is active exactly until it has
  an outcome, and no return forgets to give it one.
- `KillableWhileRelaying`: the kill registry is exactly the running relays.
- `OutcomeMatchesReply`: record and SOCKS reply tell the same story.
- `SocketsFollowHandler`: of a handler that ended, however it ended, no target socket is
  open, and no client socket unless it was cancelled in the queue. `SlotsConserved`: no
  slot is lost or minted.
- `CountedAsDelivered`, `TrafficConserved`: what is shown is what was moved, up
  to the chunk a pipe was cancelled with, and never ahead of it. (This is the
  order of the code; `docs/ARCHITECTURE.md:321-322` draws the opposite one, see below.)
- `ConnectionsAccounted`: the counter makes sense across session resets.
- `ChangesAreVersioned`: no change of a status or a list goes without a new
  `structure_version`.
- `ImplementsLifecycle`: refinement of `ConnLifecycle`.

Of the cache: `CacheBounded`, `HitsAreFresh`, `KeptForAGeneration`. Of the
rules: `NoRuleTwice`, `CompiledFollowsRules`, `OverridesMirrored`,
`RestartDecidesTheSame` (after a save that succeeded, if every listed text is
`Verbatim`: without the second condition it fails, see below). Of the throttles:
`RunningFollowRules`, `RulesNeverMisapplied` (also for limits the operator set),
`RestartThrottlesTheSame`. Of the handshake: `AcceptsWhatWasAsked` (exactly the bytes
of the request are gone), `RefusesOnlyBadRequests`, `NeverWantsMore` (neither side
waits for the other), `RefusalsAreExplained`.

Of the pacing: `LimitHolds` (over any stretch in which a limit stands, no more than the
limit, a second of it and two chunks), `SleepsAreShort` (no sleep is longer than the last
chunk takes). Of the table: `RowsFollowRecords` (a refresh leaves the tracker's
records on the screen, though it writes only what it takes to have changed),
`RowsNeverMove`, `SelectionKept` (unless a row was evicted; `SelectionStays`, without the
exception, fails), `TotalsCoverActive`. Of classifier and exporters: `IndexIsScan`
(for patterns whose last two labels are whole and free of wildcards, the index decides
as a scan in definition order unless the host also matches a pattern outside it),
`PacNeverBypasses` (a browser connects past the proxy only where the proxy would
connect. It asks of the URL, in `PortsRead`, that it shows the port of each deny rule about
the request and of the allow rules' ports only the request's own: without the first a hidden
port lets through what is denied, without the second `allow h:80` holds for `h:8080`),
`ExportsAgree` (each file decides as the proxy wherever nothing rests on what the file does
not keep: `PacAgrees`, `PrivoxyAgrees`, `AdblockAgrees`). What that leaves out has names:
`OrderFree` (the order of rules of two kinds, or of two categories, that are about one host),
`OverrideKept` (a category allowed in allowlist mode, `unknown` denied in denylist mode),
`AllowedAgainstCategory` and `PortsShown` (the PAC file), `SameToReader` (a pattern that the
reader takes otherwise; capitals in a category's pattern, in the PAC file).

`TypeOK` is defined in each module with a specification; it is run for the server, where
it bounds the semaphore, and is the first part of every invariant that is proved.

Why the bounds are enough. Handlers share the semaphore, the tracker's lists and
totals, and the shutdown, and are otherwise independent: two show every
pairwise interleaving, and with one slot both the competition for it and its
return on every way out; the theorems carry types and slot conservation to every
cap and number. A history of one makes every second ending an eviction. One chunk
per direction reaches every pipe state with and without a count. The cap and the
data are explored in separate runs because they meet only in `pc`. Without a
cap no handler is `queued`; the run with a cap has no chunks. So in the
liveness run a pipe is always stopped while it receives, which is the await that can last for
ever; with chunks in both connections the run is beyond what finishes in minutes. With one
connection and two chunks each way (`Conn = {c1}`, `MaxConnections = 0`, `MaxChunks = 2`)
`KillEndsRelay` and `OneSideEndsBoth` hold as well, at every await of a pipe. In the cache four
names in tables of two give two rotations and a name in both tables; TTL 2 and
three ticks let an entry expire. Two rules with two spellings, two kinds and one
more pattern from a file give every pair that removal by target can confuse. The third
file takes an override back with `remove @`. The host of the connection
begins with `@`, so that D and A list a text that the file does not keep, beside the
spelling `[@adv]` of the same target, which it keeps. Texts with a newline are not in the
run (`CutAt` is empty there); the theorem covers them.
A throttle command treats connections one by one, so one is enough; its host is
matched by itself, by a wider pattern and by its category, and a third pattern
matches another host only, which gives every order of two rules of which one, both
or none apply. Latency only (no limit) and a speed per direction tell the limits
apart. The handshake scripts have the real lengths (4 and 16 bytes of address) and
are cut at every byte and read in every division.
In the pacing run the slow limit cuts reads to one unit, the fast one to two, no limit leaves
three: a chunk read under one is charged to another in every combination. An idle
pipe can fall more than a second behind at both, with a window that holds more than a second
of either. Three connections and a history of
one give the table a row above, at and below the cursor and an eviction of each; a
new connection may be ended before the first refresh sees it. Three entries are enough
for any two rules that meet with one category, or a rule between two categories; the patterns
take one of each shape that the index or an exporter treats apart: exact and in capitals,
below a domain, a star glued to a label or at the end of a name, two stars, a question mark;
one host is a single label. The patterns of rules add everything and one that matches nothing.
Symmetry is over connections, names, callers and data categories, which no action tells
apart; the liveness run does not use it. `CHECK_DEADLOCK FALSE` is set where the
server, the cache and the handshake stop: the server returned and all handlers
finished, the clock at its bound, the handshake over. The other runs
check for deadlock.

Bounds that are not the program's: `MaxChunks`, `MaxTime`, `MaxRules` (in
both consoles), `MaxWindow` and `MaxElapsed` (a window counts and ages no further; an age
that large is a reset at every limit), `Outcome` and `Throttled` (how connections of the table
end, which have limits), `MaxVersion`, `MaxPatterns`, `MaxEntries`, and the finite sets of
names, texts, arguments, files and scripts. `Reset` in `ProxyServer` is taken only with a
non-empty history, which keeps `version` finite; in `Dashboard` the reset is unguarded, as in the
code, up to `MaxVersion`. `MaxHistory`, `MaxConnections`,
`GenLimit` and `TTL` are the program's parameters at small values.

## Fairness

`FairSpec` has weak fairness only, for what the event loop, timers or kernel do
by themselves: the handshake timer, the connect timer on the dial, the resolver
thread returning, a reply of a few bytes leaving or failing, `StartPipes` (its
delay is finite), the end of a relay whose pipes are over, closing streams, and
the delivery of a cancellation. Nothing is assumed of clients, targets or the
operator: no fairness on accepting, receiving, dialing successfully, sending
chunks, ends of file, kills or stops. Nor on `AcquireSlot`: a queued client may
wait for ever behind relays that never end. Cancellation is fair except in
`resolving`, where a lookup that already runs in its thread must return first;
the fairness of `ResolverReturns` covers that (the system resolver has its own
time limits).

## Proofs

The theorems hold for every value of the constants that meets the named assumptions:
any number of connections, names, patterns, rules and categories, any limits, scripts
and files, lists of any length. TLC evaluates the assumptions in each run. They are:

- of the server and the tracker: `Conn` is finite, `MaxHistory` at least 1,
  `MaxConnections` and `MaxChunks` are natural numbers;
- of the cache: `Host` is finite, `GenLimit` at least 1, `TTL` a natural number;
- of the rules and the throttles: the sets have the shapes their names say, a host as
  a pattern covers that host alone and `Junk` covers none, `NoLimit` is not a speed;
  `Category` is finite, as the data file is (`FiniteAssumption`); what is left of a text with
  a newline is a text, and what begins with `@` names a category (`TextAssumption`); typed texts
  are `Verbatim`, as the console takes `@` for a category and an input field has one line,
  and hand-written files consist of lines the loader accepts (`InputAssumption`);
- of the pacing: limits divide a second (`RateAssumption`), which is the choice
  of a tick: any finite set of rates has one. `MaxElapsed`
  is beyond the age of every window within `MaxWindow` (`BoundAssumption`);
- of the handshake: scripts are sequences of bytes, and the messages compared with are
  among those SOCKS5 allows. Only `AcceptsWhatWasAskedProved` asks for all of them, as a
  hypothesis, since it says that what was accepted is one of them;
- of classifier and exporters: no category of the data file is called `Unknown`
  (`classifier.py:158` keeps that name); patterns of rules are in lower case, as
  `FilterRule.parse` leaves them (`NamesAssumption`); `UrlShows` is a set of ports for each port, and `EndsAssumption`: a
  host that `fnmatch` lets match a pattern ending in two whole labels without wildcards
  ends in these two labels. That is a fact of the matching, which is a recursion
  over symbols and out of the prover's reach; TLC evaluates it for the patterns of
  `exports`. Only `IndexIsScanProved` uses it.

**ProxyServerProofs.** `TypeCorrect` first, by one lemma per group of actions.
None of the safety invariants is inductive: that a kill finds an `ACTIVE` record,
for instance, depends on where the handler is. The strengthening is
`HandlerInv`: for each connection, `RecordAt`, `ReplyAt`, `SocketsAt` and `PipesAt`
say for each value of `pc[c]` what its record, answer, sockets, registration and
pipes are. A step moves one connection (`HandlerStepFrame`, `RelayStepFrame`) and
leaves `HandlerAt` of the others alone (`UntouchedKeeps`), so
`HandlersInOrder` needs one step per action for one connection
(`HandlerStepKeeps`, `RelayStepKeeps`). `KillableProved`, `ReturnFilesRecordProved`,
`OutcomeMatchesReplyProved`, `SocketsFollowHandlerProved` and
`CountedAsDeliveredProved` follow from it. The properties that count across
connections need more: `TrackerSteps` shows that a step opens, activates or ends
one record in the right status, resets, or leaves the lists alone; from it
`RecordsFiledProved` (with lemmas on appending to a full history) and
`ConnectionsAccountedProved` (with cardinalities). `SlotsConservedProved` rests on
`SlotSteps`: a step moves at most one slot between the semaphore and one handler.

`ReaderSteps` refines `TrackerSteps` to what a reader can tell apart: an ending has an
outcome possible at its stage, a count belongs to an `ACTIVE` record; both follow from
`HandlerInv`. `HistoryRemembers` shows that appending to the deque forgets at most the
oldest entry, `StageMoves` that a new status of one record is a new stage of one
connection. From these `ImplementsLifecycleProved` maps `Init` to the abstract `Init`
and every step to an abstract step or a stutter; `ChangesAreVersionedProved` follows from
`TrackerSteps`. For `TrafficConservedProved`, the displayed totals are a sum over the
active records: `TrafficStep` shows that what is displayed and what was carried change
alike. It needs that a sum over a finite set loses exactly the
summand whose element leaves (`SumLessOne`), that no record brings a count into
the list with it (`Uncounted`), and that a record ends as what it is, once.

**DnsCacheProofs.** `CacheInv` is types, `Bounds` (active below the limit, backup
at most at it), `Stamped` (expiry is the asking time plus TTL) and `Aging`: a name
is in the active table, or in the backup while the active table holds only names
stored after it, or enough names came since. `StoreKeepsInv` is the heart, with
a case for each side of the rotation.

**RulesConsoleProofs.** `RulesInv` says that the engine is `Sound` (no rule twice, and
`compiled` is exactly the patterns of the rules), that the classifier mirrors its
overrides, and that the file, as long as `saved` holds and every listed text is `Verbatim`,
loads as the engine in use.
Each operation of the engine keeps it `Sound`, including the fold of `clear` over a list it is
removing from (`ClearKindSound`). `LoadOfLines` is the heart: what `save` writes,
read line by line into an empty engine, gives the rules in their order, the mode
and the overrides, because no rule occurs twice (else the loader would drop it),
`save` writes no line with a comment, and a `Verbatim` text is read as it was written
(`RuleLineFits`). A `save` that stops halfway leaves a beginning
of the lines and `saved` false.

**LiveThrottleProofs.** `ThrottleInv`: types, one rule per pattern (`Sound`), each
registered relay has the limit the rules give it unless `origin` says where else it
came from (`FollowRules`), and the saved file loads as the engine. `AddRuleGives`
and `RemoveRuleGives` say what a change of one rule does to the limit of any host: only
hosts the pattern matches can change, and not always, as another rule
may be first. That is why `PassOn`, which asks the engine again for the connections
it looks up, leaves no other connection wrong (`PassOnKeeps`).

**Socks5HandshakeProofs.** `HandshakeInv` gives, for each `read_exact` and `send`, where
in the script it began, how much it wants and what was said so far; the places
are computed from the script's own length bytes (`GreetingEnd`, `AddressAt`, `PortAt`).
`ReceivePartKeeps` is the case of a partial read. `RefusesOnlyBadRequestsProved`,
`NeverWantsMoreProved` and `RefusalsAreExplainedProved` then compare a prefix of the
script with a message (`WireFacts`: which byte of a message is where), and
`AcceptsWhatWasAskedProved` builds the message from the script.
The attempt to prove the last found an earlier model wrong: its messages had a
zero reserved byte, and the code accepts any.

**RelayPacingProofs.** `LimitHolds` is about a ghost bucket, so `PacingInv` ties it to
the program's window: `ChunkFits` (what was received was read under `bps`), `WindowPaced`
(outside a sleep the window is not ahead of its limit, in a sleep by no more than what
is left of it) and `DebtFollowsWindow` (the debt is at most what the window is
ahead, a second of the limit and one chunk; less while a new limit has not been read, or its
window has not begun). `SentThrottledKeepsInv` and `TickKeepsInv` carry the arithmetic: a
window that is dropped for being a second behind leaves a debt of at most that second.

**ExportersProofs.** `ExportsInv`: the engine is typed, and the index and the fallback hold
only entries that were defined. Nothing is said of the overrides: they may be of any name. For the
files, every reader is shown to be decided by the rules and
overrides that cover the host (`DecidedBy`, `PacTestsHits`, `PrivoxyTestsHits`);
where these agree (`OneKind`) or nothing else rests on the order, the verdict is the proxy's
(`DecidedWhenFree`). For the index, `IndexInOrder` says that each bucket and the fallback
are the definitions at certain places, in the order of these places (`LaidOut`);
`IndexAlwaysInOrder` proves it of every state, for data files of any length. So the
first match in a bucket is the first of the whole list that can match there.

**SequenceFacts** holds what they share: induction stated over a set, least and greatest
positions, what joining lists and removing a position leave, that `FoldLeft` over a list
is iterated (`FoldExists`, `FoldIsIterated`), and sums over finite sets.

Only model-checked: the liveness properties (fairness and `ENABLED` are out of the
prover's reach); the properties of `Dashboard`, whose pruning and filtering is `SelectSeq`,
about which the prover's library has no facts; `EndsAssumption`; and the violation runs,
which are counterexamples.

## Where documents and code disagree

Shown by a violation run: a resolver exception leaves a record active for ever
(`server_crash_leaves_active`); `clear deny` can remove allow rules
(`rules_clear_deny`); an eviction above the cursor moves the selection
(`dashboard_selection`).

Met while reading, without a run:

- A relay task is drawn as `reads chunk → bytes_sent += n → await sock.write(chunk)`
  (`docs/ARCHITECTURE.md:321-322`); it writes first and counts after the await
  (`relay.py:179-180`). So the dashboard can run between the two, and a pipe cancelled there
  has delivered a chunk that is never counted. `CountedAsDelivered` states the code's order; the
  drawn one is its mutant.
- What `save_rules_file` writes "can be loaded again with `load_rules_file`"
  (`filters.py:381`). It writes the original text of a rule (`filters.py:392`), which the loader
  parses anew (`352-363`): a text that begins with `@` becomes the override of a category, one
  with a newline two lines. The console takes no such text as a rule, but D and A pin the
  host a client asked for as it is (`tui.py:1580-1587`).
- In the PAC file an allow rule is said to give `DIRECT` and to bypass any block
  (`docs/howto-pac.md:33`); the deny rules and the blocked categories come first
  (`tui_exporters.py:48-66`), so that a host they are about is refused. `PacNeverBypasses` states
  the code's order; the documented one is its mutant.
- A deny rule is said to be refused by the PAC file (`docs/howto-pac.md:31`); one with a port
  is a search for `:port` in the URL (`tui_exporters.py:41-45`) and not in force for a URL that
  hides its default port.
- The cap is said to prevent exhaustion of file descriptors (`server.py:182`,
  `295`); queued clients hold their sockets without bound. A handler cancelled
  in the queue never enters `async with client_stream`, against `305-306`.
- Deny rules are said to go before allow rules (`server.py:377-382`,
  `docs/COMMANDS.md:105`, `docs/ARCHITECTURE.md:85`); the engine takes the first
  rule in list order.
- D with `allow *` before `deny h` answers "already denied" while `h` is
  allowed (`tui.py:1581-1584`).
- R is said to undo D (`docs/howto-debug.md:68`); an allow rule that D replaced
  does not come back.
- The rules file in the docstring of `filters.py:32-39` has trailing comments,
  which the loader takes as part of the line: its mode line is ignored.
- A reload that cannot open the file has already dropped all rules
  (`tui.py:2182`).
- The classifier is said to take the first category in definition order; the
  index is tried before the patterns that could not be indexed
  (`classifier.py:138-154`).
- A malformed request is said to be one with non-ASCII bytes in its name
  (`server.py:346`); the parser replaces such bytes and serves the request
  (`socks5.py:276`).
- Stopping is said to leave open connections to finish; closing the listener makes
  the accept loop raise inside the task group of the handlers, which cancels
  them (`server.py:285-290`). The quit loop waits for records that nobody closes
  any more, until its 3 seconds are over (`tui.py:1528-1530`).
- D is said to stop the connection (`docs/howto-debug.md:68`); it does not stop one
  that is still connecting, nor one whose host was denied before
  (`tui.py:1581-1590`).
- `deny @category` is said to kill the active connections of the category at once
  (`docs/howto-categories.md:29`); the command sets the override, saves, and kills nothing
  (`tui.py:1284-1293`).
- `deny @category` is said to put all its patterns into the PAC file (`docs/howto-pac.md:32`);
  it does, in the case of the data file (`tui_exporters.py:59`), against a host in lower
  case, while the classifier compares in lower case (`classifier.py:111`).
- A line `deny @unknown` of the rules file is loaded (`filters.py:352-353`, `tui.py:2188-2189`)
  and obeyed for hosts without a category (`server.py:400`), and is in none of the
  exported files, which list loaded categories (`tui_exporters.py:22-25`).
- A throttle rule is said to apply to connections (`README.md:16`); those that are being made
  when it is given have been matched already (`server.py:425-433`) and are not yet
  registered (`server.py:503`).
- A changed limit is said to take effect "on the very next chunk"
  (`throttle.py:74`); the chunk that is being received was read under the old
  limit and is paced by it (`relay.py:169`).
- `tracker.py:119-120` says that the dashboard compares `structure_version`; nothing in
  `tui.py` reads it.
- The session reset recounts all active connections, also those no refresh has registered
  yet; the next refresh counts these again (`tui.py:1965-1970`, `896-898`), so
  that the totals may be too high until the next reset.
- The index compares the last two labels of a pattern with those of the host as text: a
  `?` there is indexed and never found (`classifier.py:123-129`), and the
  star of `*google.com` is stripped, so that it is found for `google.com` only.
- `throttle` counts connections it could not reach as updated (`tui.py:1886-1887`).
- The exported files do not decide as the proxy where they do not keep what it
  rests on (`tui_exporters.py`): an allow rule listed before a deny rule for the
  same host; in the PAC file, an allow rule for a host of a blocked category; a
  category allowed in allowlist mode, or denied for unknown hosts; a host that
  two categories match. The PAC file does not see a default port, takes `:80` for
  a part of `:8080`, and keeps the case of category patterns; a rule for port 0
  loses its port. `*.x` covers `x` itself for Privoxy and adblock, an exact
  host its subdomains for adblock, and patterns with two stars are left out
  of both.
- `docs/ARCHITECTURE.md:52` says a denied client gets Connection Refused;
  it gets `NOT_ALLOWED`.

## Plan

Done, in this order: `Tracker`, `ProxyServer`, `ConnLifecycle` with proofs;
`DnsCache` with proofs; `FilterRules`, `RulesConsole`; `LiveThrottle`;
`Socks5Handshake`; `RelayPacing`; `Dashboard`; `Classifier`, `Exporters`; then the
proofs of `RelayPacing`, `RulesConsole`, `LiveThrottle`, `Socks5Handshake`,
`Exporters` and of `TrafficConserved`.

Next, most important first:

1. `Dashboard`: the rows are the displayed connections in order, `RowsFollowRecords`,
   `RowsNeverMove` and `TotalsCoverActive`, from lemmas on selecting from a list.
2. Refinement: `Socks5Handshake` as the handshake phase of `ProxyServer`.
3. `EndsAssumption` from the definition of `Fnmatch`, if its recursion can be
   put as an iteration the prover can follow.

## Not modelled

`cli.py` (argument parsing), `tui_screens.py` (static text), the category data, and of
the dashboard the layout, colours, clipboard, speeds with their moving average, the log,
dump files, themes and the lookups of the info panel: none has state that other parts
depend on. The parsing of rule texts and of throttle arguments is given by constants.
