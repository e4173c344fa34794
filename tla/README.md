# Sync-Copy: TLA+ models and proofs

Sync-Copy shares the text clipboard between the computers of a LAN. Each device runs the same
program (Rust/Tauri, `src/src-tauri/src`) with a small Svelte front end (`src/src`). There is no
server: every device runs an HTTP server and dials the others. This directory models the parts of
that program whose behaviour depends on interleaving, failure or order, checks the models with TLC
on small instances, and proves the central facts with TLAPS for every value of the constants.

Paths below are relative to `src/src-tauri/src` unless they start with `src/`.

## 1. The system

| component | state | operations | hard behaviour |
|---|---|---|---|
| peer registry `peer/mod.rs` + client pool `app/client_pool.rs` | `inner` (id → PeerState), `approved`, `banned`, pool (id → client), one lock each | insert, approve, ban, remove, clear, get, snapshot, counters, `seen_seq_and_update` | a method takes several locks one after the other; handlers, dialling tasks, heartbeat, commands and shutdown call concurrently |
| handshake `network/handlers/handshake.rs`, `dial_handshake` and `gossip_dial_stub` in `network/client.rs` | an ephemeral key per exchange, then a PeerState | answer, dial, dial a gossiped address | both sides may dial; the responder installs first; answers are late or lost |
| clipboard inbox `network/handlers/clipboard.rs` | last seen number per peer and kind, session key | gate, number test, decrypt, push to history, hand to the clipboard thread | number test and key lookup are separate; repeated, reordered, late messages; restarts |
| clipboard watcher `app/clipboard.rs` | the OS clipboard, `last_hash`, apply queue (64), event queue (64) | apply a remote text, poll, shut down | one thread shares the OS clipboard with every other program; bounded queues; OS errors |
| history `app/history.rs`, commands, `src/src/lib/stores/history.svelte.ts` | list of at most 50 entries; a copy in the front end | push, remove, clear, snapshot, optimistic delete | pushes and deletions overlap; every change is an event, every event a fetch, and fetches overtake each other; rollback to an old copy |
| rate limiter `peer/rate_limit.rs` | two tables of time stamps | `check_handshake` | the clock is read before the locks; two lock sections, roll-back of the first by the second |
| heartbeat `app/heartbeat_worker.rs`, `network/handlers/heartbeat.rs` | failure counters in PeerState | ping round, rebuild connection | stale snapshots, rebuild racing leave and ban |
| lifecycle `app/lifecycle.rs`, `lib.rs` | phase, workers, ports | start, shutdown, consume clipboard events | partial start, re-entrant shutdown, phase races |
| gossip mesh `network/client.rs`, `network/handlers/peers.rs` | everyone's `inner` | announce, trust, ban, gossip dial | convergence of many devices |
| approval dialogue `src/src/lib/stores/approval.svelte.ts`, `ApprovalDialog.svelte`, `approve_peer`, `reject_peer` | queue of pending peers, a 30 s timer | enqueue, decide, dismiss | the queue moves while a decision is awaited; a ban meets a handshake |
| configuration `app/config.rs`, `set_config`, `SettingsPanel.svelte`, names in `peer/sanitize.rs` | a JSON file, its copy in memory, the panel's | load, save, set | saves overlap; a crash between truncating and writing |
| crypto, wire types, routing, file placeholder, UI | none, or presentation | | |

How they meet: HTTP handlers, dialling tasks and the heartbeat all write the registry; the inbox
reads keys and numbers from it; the inbox feeds the clipboard thread through the apply queue and
the history directly; the clipboard thread feeds the lifecycle's consumer, which writes the
history and tells the front end; the front end fetches snapshots and sends commands. A handshake passes
the rate limiter first and, when it brings a new peer, ends in the approval dialogue; the name it
offers comes from the configuration.

What each must guarantee:

* registry: no id approved and banned; a banned id is not a peer; a peer is approved and has a
  client; no client without a peer; leave and handshake do not lift bans.
* inbox: a message enters at most once; a session's texts keep their order; only overtaken texts
  are dropped.
* watcher: a remote text is never reported back; a local copy is reported once.
* history: at most 50 entries, newest first, no two equal, nothing dropped early, and the front end
  agrees with it.
* rate limiter: no more than 3 handshakes per pair and 10 in all in 60 s, nobody is refused without a full
  window behind it, and no pair takes more of that window than its share.
* handshake: after an exchange both sides hold the same key.
* heartbeat: a peer that does not answer is dialled again; a peer that restarted is found.
* lifecycle: the phases come in order; an orderly shutdown leaves no task running, clears a registry
  that none of them refills, tells the peers first, and returns whatever hangs.
* gossip mesh: nobody is known on one side only; one join connects the whole group; the announces
  end.
* approval dialogue: the user is told of every new peer, a decision is about the peer that was shown, a
  rejected peer stays out until another says it is trusted, no request waits for ever.
* configuration: the name that was saved is the name after a restart, and it is clean.

## 2. Modules

| module | models | proofs | instances for TLC |
|---|---|---|---|
| `PeerRegistry` | registry and pool, every call that writes them, one action per lock section | `PeerRegistryProofs` | `MCPeerRegistry` |
| `ClipboardInbox` | the receiver of clipboard messages with its sessions, an unreliable network, restarts | `ClipboardProofs` | `MCClipboardInbox` |
| `ClipboardWatcher` | the clipboard thread, its two channels, the user, failing OS calls | `ClipboardProofs` | `MCClipboardWatcher` |
| `LocalNews` | abstract: a channel for the copies of the user; `ClipboardWatcher` implements it | in `ClipboardProofs` | in `MCClipboardWatcher` |
| `PeerLinks` | handshakes, heartbeats, rebuilds and leaves between hosts that crash and restart | `PeerLinksProofs` | `MCPeerLinks` |
| `Lifecycle` | start, quits and the three long-running tasks of one run of the program | `LifecycleProofs` | `MCLifecycle` |
| `Mesh` | joins, gossip dials and announces among any number of devices | `MeshProofs` | `MCMesh` |
| `Acquaintances` | abstract: who may get to know whom; `Mesh` implements it | in `MeshProofs` | in `MCMesh` |
| `History` | the history list, its writers, and the page that shows a copy | `HistoryProofs` | `MCHistory` |
| `Admission` | the rate limiter under overlapping calls | `AdmissionProofs` | `MCAdmission` |
| `Approval` | the question about a new peer, from the handshake to the ban | `AdmissionProofs` | `MCApproval` |
| `Settings` | the name of the device: panel, memory, file, crashes | `SettingsProofs` | `MCSettings` |

The modules overlap where the components do, each with the detail its properties need: `PeerRegistry`
splits a handshake into lock sections and has bans; `PeerLinks` has losses, restarts and timeouts and
makes an installation one step; `Mesh` has gossip and no losses; `ClipboardInbox` has the session as
the receiver of messages sees it; `Approval` makes an installation one step and looks at what the user is
told of it. In each module `map` in `PROJECT.json` gives the lines of the code
that a definition stands for. Definitions that no next-state relation uses (`SeenOffByOne`,
`RecheckNoCleanup`, `UnknownOnly` and others, named Mutant in their comments) are faulty variants of the
definition that follows them: each property is shown to fail when one of them takes its place.

### PeerRegistry

`inner`, `approved`, `banned` and `pool` are the key sets of the four containers of `PeerRegistry` and
`ClientPool`; `pc[w]` is the lock section the task `w` is about to execute and `subject[w]` the device
id of its call. An action is one lock section, because every method drops one lock before it takes the
next (`approve` and `ban` alone hold two). The calls: the handshake of either side
(`BeginInstall`, `InstallScreen`, `InstallPool`, `InstallInner`, `InstallApprove`), the gossip stub
with its own tests (`BeginStub`, `Stub*`), a leave or a removal (`BeginLeave`, `Leave*`, `Remove*`),
trust, ban (`Trust*`, `Ban*`), the heartbeat's rebuild with its re-check and clean-up (`Rebuild*`,
`Recheck*`) and the final clear (`Clear*`). `trust_state` is not a variable: every stored PeerState
says Approved and no statement changes it. `crossed` is a history variable: the ids two calls were
about at the same time. `TableIfAlone` is the abstract view of an id, the table of trust states of
decisions/ADR-009:233-242; each change of an id that is not in `crossed` must be a row of it.

### ClipboardInbox

`key[o]` and `seen[o][k]` are `aes_key` and `last_seen_seq_by_kind` of the peer's PeerState (one record
under one lock). `pc[h]` and `msg[h]` are a running `handle_clipboard`: `Gate`, `CheckSeq`, `Decrypt`,
`Push`, `Apply` are its lock sections and effects in order. `skey`, `sseq` and `sent` are the peer:
`broadcast_clipboard` uses one counter for all receivers and the keys it holds, one per run of this
device (`run`), since a restart draws a new device id and the peer keeps the old one. Handshakes go
both ways: `AcceptHandshake` installs at once and its answer is in `reply`; `DialPeer` has an answer in
`dial`. Any message of `sent` may be delivered at any time and again; losing it is never delivering it.
`Forget` is a leave or a ban, `RestartSelf` the loss of all of it. Of two handshakes under way the
answers arrive in any order, so the peer may take its keys in the wrong one (`KeysInOrder` excludes it).

### ClipboardWatcher

`board` is the OS clipboard, `lastHash`, `applyQ`, `events`, `cancel` are the thread's, `thread` the
statement it is at: `CheckCancel`/`CheckNothing`, `ApplyText` (set_text and the hash, its retry
included)/`FailedApply`/`Drained`, `Report`/`Unchanged`/`SkipPoll`/`FailedPoll`. `UserCopy` may come
between any two of them. `Offer` is `try_send` of a handler or of the recopy command, `Consume` the
task that pushes local copies to the history, `TimePasses` the poll interval. `fresh` and `last` are
history variables for the properties.

`LocalNews` says what comes of it: a copy of the user waits until it is told of, replaced or
overwritten, and what was told arrives in that order. `ClipboardWatcher` instantiates it with `waiting <-
Waiting` (the board, if the user put it there and no event told it), `told <- events` and `arrived <-
local`; `OnlyLocalNews` is its specification. `UserCopy` and `ApplyText` map to `Copy` (the latter of
nothing), `Report` to `Tell`, `Consume` to `Arrive`, every other step to a stutter.

### PeerLinks

A device is one run of the program on a host, because `AppState::new` draws a fresh id; ids are
numbered in the order they are drawn, so `Start` takes the lowest id of its host. `key` and `fails` are `aes_key`
and `consecutive_heartbeat_failures`, `ping[d][e]` the ping task of the round, `exch` the handshakes
under way. `Join` is join_group, `Answer`/`Finish` the two sides of a handshake, `Refused`, `DialLost`,
`LateLost` a dead address, a lost message, the 5 s timeout of a dial whose request still arrives.
`BeginRound`, `PingArrives`, `PingRefused`, `PingLost`, `PingOk`, `Counted`, `PingFailed` are
`run_ping_round` and `handle_ping_result`, the rebuild dial included (`detect_hidden_dead`, which ends
each result, always returns at its first test, see section 7); `Leave` is the quit with its
leaves, `Crash` one without. Keys are taken from a recycled pool: a fresh key is one that nobody holds.

### Lifecycle

`phase` is the mutex of the same name, `boot` the statement `start()` is at, `quit[q]` the statement of
each call of `shutdown()`, `held` the Option slots of the handles, `stops` the tasks told to stop,
`run` whether each task runs. `Boot*` are the steps of start, with each early return; `QuitCheck` is
the guard of shutdown, `QuitMark` ... `QuitClear` its steps 1 to 6, in their own sections;
`QuitLate` is a deadline. Work in flight: `reqs` (handshakes in the server), `pings` and `redials` (of
the heartbeat's round), which end before their task does; and dials that nothing waits for: `loose` (of
`JoinGroup`, and of `AnnounceHandled`, whose handler spawns a dial and answers) and `stubs` (the gossip
dials that any dial spawns when it has its answer). `DialReported` and `DialFailed` end a rebuild or loose
dial, `StubReported` a stub. `TrayQuit` exits at once. `owed`, `hasty` and `adrift` (the devices of the
dials nobody waits for that were in flight when the registry was cleared, or begun since) are history
variables.

### Mesh

`key[d][e]` as in PeerLinks; a dial is a record with the phase its task is in: the responder's side is
`Answer` (installs the key) and `Offer` (lists the members it knows), the dialler's `Finish` (installs),
`Choose` (drops the known, takes `Fanout`) and `Announce` (to the peers known then); a gossip stub
(`BeginStub`, `FinishStub`, `InstallStub`) does not pass its list on (stub depth 1) and drops an answer when the
member became known. `Tell` is an announce that arrives: refused by a peer that does not know its
sender, ignored by one that knows the member, and answered by a dial otherwise.

`Acquaintances` says what that gossip may do at most: two devices meet after an invitation, which comes
from a user or from a common acquaintance, and nobody is forgotten. `Mesh` instantiates it with
`met <- Met` (pairs of which one knows the other) and `invited <- Invited` (pairs with a request under
way), and `OnlyAcquainted` is its specification. `Open` maps to `Invite` or `Recommend`, `Answer` to
`Meet`, every other step to a stutter.

### History

`items` is the deque of `HistoryStore` as a set of ranked entries (it changes only by push_front,
pop_back and retain); `making` the entries that tasks have made, with their time stamps, and not yet
pushed. `Push` is the write-lock section of `push`, its early return for an equal head and its
truncation included; `Delete`, `DeleteMisses` and `Clear` are the commands. Each change owes the page an
event (`owed`), emitted outside the lock. `Refresh`, `Snapshot(s)` and `Apply(s)` are one call of
get_history in three steps; the calls are served and answered in any order. `mount` is the page's
start: first fetch, then subscribe. `Click` is the optimistic deletion with the list from before it,
`RollBack` what the page does when the command answers not_found. `since`, `raced`, `spoiled`,
`edition` and `shown` are history variables.

### Admission

`perPair[p]` and `global` are the deques of stamps, each stamp named by its call; `at[c]` is the clock
the call has read (`Begin`). `PairSection` and `GlobalSection` are the two lock sections, `RollBack` the
pop of the pair's last stamp with the lock of `global` held. `Tick` is the monotonic clock. `late` says
that a call entered a section after a call with a later clock, `misrolled` that a roll-back popped the
stamp of another call: the code permits both, and the properties say what they cost. The global deque
counts handshakes, as the code does, not device ids, as its documents say (section 6). `RefusedWhenFull`
says who is refused: a call whose window is full of handshakes, of its pair or of all, whatever roll-backs
went astray; and no pair has more than MaxPair of them, unless a call of a pair was late or a roll-back
went astray.

### Approval

`Screen`, `Install` and `Announce` are the parts of `handle_handshake` that matter to the user: the ban
test with `is_new_peer`, the installation, the event; `Dial` installs without asking. Other devices write
to the same registry: `HearLeave` and `HearOf` are the tests of `handle_leave`, `handle_trust` and
`handle_ban`, after which a message is in `messages`; `Leave`, `Trust` and `Shun` are what they then do
(`Leave` and `Trust` lift a ban, `Leave` and `Shun` forget the peer). `queue`, `timer`
and `listening` are the store's, `main` the view that mounts the dialogue. `Decide` is the click,
`LookUp`, `Approve`, `Reject` the commands, `Finish` the answer with dismissCurrent, `Expire` the 30 s
timer, `Move` another view, which unmounts the dialogue and with it `sending`.

History variables say what became of a peer: `vetted` that it was dialled or announced since it last came,
`lost` that its event found no listener, `revived` that its last removal met an installation of it that
was past `is_new_peer`, `rejected` that it was banned and not said to be trusted since, `crossed` that its
last ban met a call that had looked at the registry and lifts the ban after (`Meets`: an installation, an
approval, a leave).

### Settings

`memory` is the shared `Config`, `file` the last name written and the length of the file, `call[s]` a
running set_config. `Refuse`, `Store`, `Open`, `Write`, `SaveFails`, `Answer` are its steps: sanitize,
set in memory, truncate, write, answer. `OpenPanel`, `Fetch`, `Show`, `Type`, `Blur`, `ClosePanel` are
the panel; `Crash` and `Restart` the process. `SanitizedName` is `sanitize_device_name` on sequences of
characters, where one stands for all control characters and one for all white space.

## 3. Runs

| run | instance | distinct states | shows |
|---|---|---|---|
| `registry` | 2 ids, 2 concurrent calls of any kind | 597k | what every interleaving keeps: no client without an owner, a banned id known only in transit; what holds of an id no two calls were about at once: approved and with a client exactly if known, trust states change by the table |
| `inbox` | 1 peer, 2 handlers, text and image, 2 handshakes that may be under way together, 2 numbers, 1 restart | 998k | a message is pushed once, nothing old passes, only overtaken texts are dropped if the peer takes its keys in order |
| `watcher` | 2 texts, apply queue of 2, event queue of 1, 2 copies, 3 remote texts, 1 fault | 67k | implements `LocalNews`: no echo, each copy told of at most once and in order; a copy is told of unless replaced or dropped; the thread heeds cancel |
| `links` | 3 ids on 2 hosts, Limit 3, 1 join, 2 stops, 1 loss | 41k | keys agree unless handshakes crossed; the heartbeat heals knowledge on one side and finds a restarted peer |
| `lifecycle` | 2 peers, 2 quits, 3 events in all (quits, handshakes, announces, joins, rounds of pings) | 647k | an orderly quit stops all, only dials that nothing waits for refill what it cleared, nobody is forgotten untold, every quit returns |
| `mesh` | 4 devices, Fanout 1, four groups of joins | 62k | mutual knowledge, matching keys, a complete mesh after joins one by one, nobody meets uninvited, the cascade ends |
| `mesh_keys` | 4 devices, Fanout 3, a group of three that takes in a fourth | - | refuted: the keys match after one join at a time |
| `history` | a list of 2, 3 texts, 2 entries in the making, 2 fetches, 2 acts of the user | 1.08M | the list is distinct, bounded, complete and in order, and a quiet page shows it |
| `approval` | 2 peers, 5 events in all (handshakes, dials, leaves, trust and ban messages, decisions, moves) | 2.20M | the timer and an awaited decision belong to the head, new peers are announced, bans stand, the queue drains |
| `approval_other` | 2 peers, 3 events | - | refuted: a decision dismisses no other request |
| `admission` | 5 calls of 2 pairs, limits 2 and 3, a window of 2 ticks, 3 ticks | 926k | no window exceeds the limit, refusals leave nothing behind and happen in a full window, as long as no call is late |
| `settings` | 5 names of up to 3 characters cut to 2, 2 calls at once, 3 blurs, 2 crashes or failures | 1.25M | the offered name is clean, an undisturbed save survives a restart, the panel knows the name |

Every module has a type invariant, and each is a theorem; those of `Approval` and `Settings` are part of
the runs too.

Why the bounds are enough:

* registry: the properties speak of one id, or of one id and the calls about it, and calls about
  different ids do not meet except in `clear`; with two ids one can be crossed and the other not, and
  a rebuild can turn from one to the other. Two calls are what a race needs, and the proofs cover any
  number.
* inbox: an older and a newer session (2 keys), an older and a newer number (2), two handlers between
  whose sections a handshake falls, two answers under way that overtake each other, a second id of this
  device (1 restart). Origins are independent
  (each has its own PeerState), so one is enough for TLC; the proofs have any number.
* watcher: capacities 2 and 1 let both channels fill up, which needs no more than 3 remote texts; two
  copies are one that replaces another. The code's 64 is a parameter, not checked.
* links: the second host has two runs, so it restarts once, and both kinds of stop, a crash and a quit,
  can happen to it or one to each host; Limit is the code's. MaxKey 6 exceeds the keys that 2 hosts can
  hold or have under way at the same time in this instance.
* lifecycle: two quits are one race; with two peers one can send an announce, or answer a dial, that
  names the other. Three events are a quit, a peer that comes, and what it then announces, or a dial
  whose stubs outlive the clear.
* mesh: Fanout 1 makes the truncation happen with 4 devices that with the code's 3 takes 6; the
  scenarios are merges, re-joins and joins at the same time. `mesh_keys` has the code's 3. Twins 5 is
  never reached. Larger instances (a chain with one overlapping join, two pairs that merge with one: up
  to 6 million states) were checked for the safety properties and agree.
* history: a list of 2 overflows with 3 texts; a text that comes again, one that comes twice in a row
  and a race of two pushes fit in the feeds; two fetches are what one answer needs to overtake another;
  two acts are a deletion that meets another, a clear, or a window that is shown.
* approval: two requests are what a late dismissal needs; five events are a peer that comes, is banned, is
  trusted or leaves, and comes again, with one decision or message more; or two requests, two decisions
  and a move. The proofs cover any number.
* admission: five calls exceed both limits, with one more behind the refused one; the window is longer
  than a tick and shorter than the clock, so stamps expire. The code's 3, 10 and 60 s are parameters.
* settings: names shorter and longer than the limit, with a blank at the cut, and names of which
  nothing is left; two calls overlap; two troubles are a failed save and a crash, or two of either.

`CHECK_DEADLOCK FALSE` is said where the bounds, the end of the process or a quiet group leave nothing to
do; the registry run checks deadlock. Symmetry is used on the handlers of the inbox and on the calls and
pairs of the rate limiter, in runs without liveness properties.

## 4. Fairness

* registry, inbox, history, admission, settings: none; their runs check safety only.
* watcher: the thread, the clock and the consumer run on; copies, remote texts and faults are bounded
  (a clipboard that fails for ever tells of nothing, in the code too).
* links: each dial ends, by an answer, a refusal or its 5 s timeout (`client.rs`), each ping by a
  result, and the interval timer begins the next round. Between one dialler and one address some dial
  goes on, not a chosen one. Starts, stops and joins need not happen, losses are finitely many.
* lifecycle: start-up goes on; a quit goes on, by its deadlines if by nothing else. Tasks need not end.
* mesh: of the dials between two devices one goes on; nothing is lost. Joins need not happen.
* approval: handlers, commands and timers go on, one of them at a time; nobody has to shake hands, to
  decide or to look.

## 5. Proofs

TLAPS checks these for every value of the constants under the named assumptions of the modules
(bounds are naturals, capacities, `Limit` and the lengths of lists and names positive, markers such as
`Nothing` are not texts, ids are non-zero naturals). Devices, peers, workers, pairs, texts and
characters may be infinite in number. Finite are the calls of the rate limiter (`LimitAssumption`)
and, as part of invariants that are proved, the lists of `History` and the lists of members in `Mesh`.

| module | theorems | argument |
|---|---|---|
| `PeerRegistryProofs` | `TypeCorrect`, `TrustBanExclusive`, `BannedKnownTransient`, `NoClientLeaked`, `ConsistentAlone`, `TableKept` | the middle two are inductive with the types: each section that could break one is followed by the section named in `UnbansSoon`, `KicksSoon` or `OwesClient`, and the worker cannot leave it otherwise; the last two from `AloneInv` |
| `ClipboardProofs` | of the inbox `InboxInvariant`, `OnceInItsSession`, `OnceWhenDialled`, `NoOldTextReturns`, `OnlyStaleDropped`; of the watcher `WatcherTypes`, `HashTracks`, `NoEcho` | invariants `IInv`, `OwnSession`, `Stored`; `HashTracksBoard` is inductive, and with it the refinement `NoEcho`, since a report needs a hash that differs |
| `PeerLinksProofs` | `TypeCorrect`, `AgreeInvariant`, `KeysAgreeAlone` | invariant `AgreeInv` |
| `LifecycleProofs` | `TypeCorrect`, `OrderlyStops`, `OrderlyClears`, `LeaveBeforeClear`, `PhaseMovesForward` | invariants `StopInv`, `OwedKnown`, `PhaseFits` |
| `MeshProofs` | `TypeCorrect`, `MeshInvariant`, `MutualKnowledge`, `KeysMatchAlone`, `GossipImplements`, `CompleteAlone` | invariants `MeshInv`, `MergeInv`; the refinement step by step from `MeshInv` and `HandsOnKnown` |
| `HistoryProofs` | `TypeInvariant`, `TypeCorrect`, `ListIsSound`, `NewestFirst`, `ViewCurrent`, `Kept` | the types with the counters of ids and ranks; the bound by counting positions; `KeptInv` |
| `AdmissionProofs` | of the limiter `TypeCorrect`, `GlobalBoundAlways`, `LeaveNothingAlways`, `RefusedWhenFullAlways`; of the dialogue `DialogueTypes`, `TimerAlwaysOfHead`, `AwaitedAlwaysHead`, `NewPeerAlwaysTold`, `RejectionAlwaysStands` | the deques are in order and hold the stamps of the admitted calls; `DialogueInv`, `TellInv`, `Shut` |
| `SettingsProofs` | `SanitizedOnce`, `TypeInvariant`, `TypeCorrect`, `CleanAlways`, `NameInvariant`, `RestartAlwaysKeeps`, `PanelAlwaysKnows` | lemmas about cleaning a name; `NameInv`, `PanelInv` |

* `AloneInv` of the registry: of an id that is not crossed, no two calls are under way (`AloneAt`), a
  call that has looked at the ban list still finds the id off it (`Screened`), what it has found or
  done so far still holds (`Fits`), and when no call is half-way through it is `Consistent`. Without
  `Screened` an install could lift a ban, without `Fits` a removal could leave a client. A crossed id
  is given up for good, since a call that lost a race leaves traces after it has returned.
* `IInv`: the key of every message in a handler is one that was issued (`Carried`, `Issued`), a key in
  an answer on its way was never installed (`Unused`), while a key is held the map of seen numbers
  covers every number it let through (`Covered`), and a message that passed its own session's test is
  in one place: one handler, or pushed (`Exclusive`). Without `Unused` a second installation of a key
  would empty the map; without `Covered` a repeat would pass. `OnceUnlessDialled` needs in addition
  that a call which finds the key of a message of a peer never dialled also had that key at its number
  test (`OwnSession`): a responder's key is new to both sides, so it cannot appear between the two.
  `DropsOnlyStaleInOrder` needs in addition that the number stored for such a peer is that of a text
  which was let through or is in a handler, under the current key or an older one (`Stored`).
* `AgreeInv`: one program per host (`OnePerHost`), only a running device holds keys (`OnlyUpHolds`),
  exchanges are well formed, an exchange marked alone is the only one between its hosts
  (`AloneIsAlone`), the key in an answer is the one its responder holds (`AnswerHeld`), a late request
  has put its hosts among the suspects (`LateIsSuspect`). `KeysAgreeUnlessCrossed` alone is not
  inductive: `Finish` installs a key and needs to know that the responder still holds it.
* `StopInv`: an orderly quit began after start-up (`BegunInTime`), so every handle is in its slot until
  that quit takes it (`HandleKept`), so a task is gone once the quit is past its wait (`PastIsGone`), and
  a task that is gone has no work in flight (`GoneIsIdle`). What can still insert a peer after the clear is
  a loose or a stub dial, and each of those is on record (`AdriftKept`), stubs of loose dials included.
* `MeshInv`: an answer on its way was installed by its responder (`AnswerRecorded`), under its own key
  unless dials race (`AnswerHeld`), two dials of a pair at once are noticed (`RaceNoticed`), and a stub
  whose member became known has a rival (`StubIsFirst`), which is why dropping its answer cannot leave
  the other side alone without a race.
* `MergeInv`: `CompleteIfAlone` speaks of a quiet group, so its invariant has to say how far a join has
  come. While the join of `d` to `e` is under way, two complete groups D (of `d`) and E (of `e`) merge:
  nobody outside knows a member (`Apart`), every dial is aimed from D at E (`AimedAt`), each member of D
  that does not know `e` yet is about to (`Reaches`), and each that knows `e` has every other member of
  E on the way to it (`Brings`). When no dial is left, nothing is on the way, so the union is complete.
  A full choice of an offer is all of it, which needs the lists to be finite.
* `GossipImplements`: the abstract initial condition is that of an empty `key`. A dial of `Mesh` begins
  because of a wish (`Invite`) or of a stub or an announce, whose sender is a common acquaintance of both
  ends (`Recommend`): `HandsOnKnown` says that a dial offers and tells only devices both its ends know.
* `HistoryProofs`: `DistinctAndBounded` is proved for a set of any finite size: the entries
  that `Truncated` keeps have different numbers of entries above them, all below MaxHistory.
  `ViewCurrent` needs that whatever the page has not seen is announced by an event, asked for, or in an
  answer, which is the largest part of that invariant. `KeptInv`: above the entry of a text there are
  only texts pushed since (`Placed`), and different ones, so one that falls off the end had MaxHistory.
* The rate limiter: as long as no call was late, the stamps that `GlobalSection` pops are outside every
  window that ends now or later (`Remembered`), so the allowed calls of a window are stamps of the deque,
  which holds no more than MaxGlobal (`GlobalBoundAlways`). In the deque of a pair the stamps that still
  count are those of the calls admitted to it (`Left`), so a refused call leaves none. For
  `RefusedWhenFullAlways` it is enough that they are never more than those (`Covered`), which a roll-back
  of another call's stamp cannot break; the share of a pair is the bound of the global window with the
  pair's section in place of the global one (`PairBoundInv`).
* The dialogue: `DialogueInv` numbers the requests in the order of the queue, so a timer or an awaited
  decision whose request still waits belongs to its head; `TellInv` adds that a
  peer which a handshake saw as known is known, or was removed while that handshake was to install it;
  `Shut` says that a peer whose ban met nobody is banned, unknown and has neither a handshake, an approval
  nor a leave past its look at the registry, and that none can begin: the first finds it banned, the
  others unknown.
* The configuration: what `SanitizedName` returns is not longer than MaxName and has no control character
  and no blank at either end (`CleanedName`), so that it stays as it is (`SanitizedOnce`). `NameInv`: no
  call outlives its process (`Stopped`), and a save that is alone has memory and file to itself
  (`SavesAlone`). `PanelInv`: unless saves overlapped, the answer on its way tells the name in memory
  (`AnswersTell`), and the panel knows it or waits for that answer (`PanelKnows`). The least index that `Min` needs
  comes from the well-founded order of finite sets in the library, since the induction theorems
  themselves take an operator.

Every safety property of the passing runs, invariant or action property, is one of these theorems. Only
model-checked are the liveness properties (`QuitReturns`, `OneSidedHeals`, `RestartedIsFound`,
`CopyIsReported`, `CancelIsHonoured`, `CascadeEnds`, `QueueDrains`), which are out of the prover's
reach, as is ENABLED, and the two refutations. No module has a recursive definition, so no induction
over data is needed.

## 6. What the code does against its documents

With a run that shows it (details under `findings` in `PROJECT.json`):

* `mesh_keys`: two announces of one device spawn two dials of it, and the sides keep different keys, as when
  a group of three takes in a fourth (specs/e2e-encryption.md:50).
* `approval_other`: a decision that is answered after the 30 s of its request dismisses the request
  behind it (specs/group-approval.md:63).

Seen while modelling; the properties name the condition that excludes it:

* Overlapping calls about one id leave it known and not approved, or known and without a client, against
  the invariants in peer/mod.rs:19-20 (`crossed` in `ConsistentIfAlone`).
* A ban during a handshake or a leave of the same id is erased by it, decisions/ADR-009:237-242
  (`crossed` in `TableIfAlone` and in `Approval`). The row of the leave, ADR-009:242, says that it does not
  touch `banned` and `approved`; `remove` empties both (peer/mod.rs:237-247).
* The global limit is documented as one of different device ids (peer/rate_limit.rs:27 and 91-92,
  decisions/ADR-009:110, ADR-008:268, 480 and 508); the code counts handshakes, as its own comment at 147-148
  says, so four devices that try again use up the ten. `RefusedWhenFull` says what the code does: the
  window of a refused call is full of handshakes, not of devices.
* A peer that is removed, by its leave or a ban, while a second handshake of it is past `is_new_peer` comes
  back into the registry without a word to the user (`revived` in `NewPeerIsTold`).
* The dials an announce or a join begins and the gossip stubs of any dial are waited for by nobody
  (network/handlers/peers.rs:131, network/client.rs:469): their answers insert peers into the registry that
  an orderly shutdown has cleared (`adrift` in `OrderlyStaysClear`). The order that lifecycle.rs:578-581 asks
  for, first the workers and then the clear, keeps out the others.
* The number of a message is stored before its decryption, so a copy under an older key blocks the good
  copy with the same number, specs/clipboard-text-sync.md:61. The peer sends both after a restart of this
  device, whose old id it keeps; and it uses its keys in the wrong order when the answers of two
  handshakes overtake each other (`KeysInOrder` in `DropsOnlyStaleInOrder`).
* Incoming heartbeats clear the counter of outgoing ones, so a device that holds a dead id of the other's
  host masks the failure, specs/peer-heartbeat.md:88 (`OneSidedHeals`).
* Members beyond the third of an answer are never dialled, network/protocol.rs:44-45
  (`truncated` in `CompleteIfAlone`).
* Two pushes at once put entries into the list against the order of their time stamps (`raced` in
  `NewestFirstUnlessRaced`).
* Answers of get_history may overtake each other and leave an old list on the page; a deletion that finds
  nothing brings back the list from before it; events before the page has subscribed are lost
  (`spoiled`).
* A peer that is announced before the page listens is never shown (`lost` in `NewPeerIsTold`).
* A call that is late for the second lock lets a window exceed the limit, and a roll-back may pop the
  stamp of another call of its pair (`late`, `misrolled`).
* A crash or a failed write between truncating and writing the configuration, or two saves at once, lose
  the name, although specs/settings-panel.md says it survives a killed process; after a failed save
  memory has the new name and the panel the old one (`muddled`).

Seen while reading, without a property:

* `quit_app` runs the shutdown and nothing ends the process afterwards; specs/settings-panel.md:56
  promises its end within 1.5 s.
* Start-up writes Running without looking at the phase (lifecycle.rs:390), and two quits can both pass
  the check at 406-416, against the order of phases at 45-52; such quits are `hasty`, or not `Solo`.
* Two users who join each other at once can end with crossed keys, and joins at the same time can leave
  the mesh incomplete (`raced`, `crowded`).
* A message of a peer this device dials may be pushed twice: number test and key lookup are two
  sections, and a finished dial resets the map between them (`OnceUnlessDialled` excludes it).
* No production code calls `broadcast_clipboard`: local copies are not sent.
* Approve and reject send no gossip (specs/group-trust-gossip.md:71), and the handshake inserts a peer as
  Approved before the user has decided, as handshake.rs:160 says.
* Ids of runs that are over are never removed (ADR-009:243, specs/peer-heartbeat.md:80).
* `join_group` advertises the configured port; the server binds `DEFAULT_PORT`.
* A peer that shakes hands after the snapshot of the leaves gets none; the detached rebuild dial of a
  heartbeat that met its deadline can insert a peer after the clear, too; commands do not look at the phase.
* A responder answers a handshake with the asker's own name (handshake.rs:267), which the dialler stores
  as the responder's (client.rs:397); network/protocol.rs:39 says it is the responder's.
* The × of the settings panel takes the focus from the field and so saves what specs/settings-panel.md
  says it discards; the answer of a save overwrites what was typed meanwhile; a configuration from the
  file is not sanitized, and the name "<unnamed>" is refused.
* The table of the rate limiter keeps an empty deque for every pair it has ever seen (rate_limit.rs:52-62
  leaves it to a later feature).
* The file placeholder stores the number of a request before it refuses it, so a repeat is answered 200
  (handlers/file.rs:55).

## 7. Not modelled

* What follows the first test of `detect_hidden_dead`: it needs `last_successful_sync_at`, which only
  `broadcast_clipboard` writes, and nothing calls that.
* Bans and gossip in PeerLinks; losses, restarts and bans in Mesh. A 429 answer of the rate limiter is a
  refused dial there.
* The log guard and the panic hook of the lifecycle; its ban list, which PeerRegistry has. The clear of a
  shutdown and the numbers of leave, trust and ban messages (a repeat changes nothing) in Approval.
* Cryptography (its contract is used: decryption succeeds under the same key, origin, kind and number),
  HTTP routing, error bodies and serde types, the placeholder handlers for files, history and approval
  (they authenticate, store a number and do nothing, or answer not implemented), `sanitize_filename` and
  `sanitize_log_field` (pure, unit-tested character by character), windows, tray menu and styles.
* The port and the peer hint of the configuration.
* Time: a deadline may pass at any moment, so the models allow more than the program does.

## 8. Plan

Built, in this order: the registry (every handler writes it), the inbox, the watcher, the links, the
lifecycle, the mesh; then the history list, the approval dialogue, the rate limiter, the configuration,
and the abstract specifications of the mesh and of the watcher. The project keeps to twelve runs, so that all of it is
checked in minutes; a refutation gave way to a new module where a property already names the condition
that excludes the behaviour (section 6).

The proofs followed the modules; every safety property of a passing run is a theorem now. On the way
three properties became stronger than the form they were first checked in: `TableIfAlone` and
`ConsistentIfAlone` speak of single ids where they spoke of the whole registry, and
`DropsOnlyStaleInOrder` of every run of the device where it spoke of the first.

Left, in this order:

1. An abstract specification of the registry in which a call is one step, of which `TableIfAlone` and
   `ConsistentIfAlone` are the consequences for a single id.
2. Bans in `PeerLinks` and losses in `Mesh`, which today are separate concerns.
