# s0f in TLA+

TLA+ models of the s0f bookmark daemon (`cmd/bmd`, `cmd/bmd-bridge`, `pkg/`),
TLC runs that check them on small instances, and proofs, checked by TLAPS, for
instances of any size: every safety invariant of the daemon that a run checks, and
every refinement, is a theorem. `PROJECT.json` lists components, runs, mutants,
findings, hazards and theorems, and says for each definition which lines of the
source it models.

## 1. The system

One daemon, `bmd`, owns a profile directory: a SQLite database (`state.db`), an
exported `snapshot.json`, a Git repository that versions both, a configuration
file and a Unix socket. Clients - the `s0f` command line and, through the
native-messaging bridge, a browser extension - connect to the socket and send
requests. The server runs one goroutine per connection and serves the requests of
a connection one after the other; there is **no lock around a handler**, so
requests of different connections interleave at every call.

| Component | State | Operations | Correct when |
|---|---|---|---|
| Tree and validator (`pkg/core`) | a private copy of the tree | `ValidateOps`: seven operations, two of them simulated | what it accepts keeps the tree a tree rooted at `root` |
| Store (`pkg/storage/sqlite`) | rows of `nodes`, connection pool | `Init`, `LoadTree`, `ApplyOps` | a batch is all or nothing, rows keep their shape and order |
| Request handlers (`cmd/bmd/rpc.go`) | what a request holds in local variables | `apply_ops`, `get_tree`, `vcs_*`, read-only ones | each request is answered; concurrent ones behave as if serialised |
| Publishing (`snapshot.go`, `git.go`, `events.go`) | `snapshot.json`, index, HEAD, events | write snapshot, stage, commit, broadcast | each commit is one version of the tree, none is lost, events follow commits |
| Git remote (`pkg/vcs/git`) | HEAD, remote-tracking reference, remote, what is staged; `state.db` under its open connections | `Push`, `Pull`, `compareRemote`, `Status` | no committed batch is lost on either side; refusals say the truth |
| IPC and hub (`pkg/ipc`, `events.go`) | sockets, subscriber channels | serve, stream, broadcast | answers match requests, events in order, no panic |
| Clients (`cmd/bmd-bridge`, `ui/chrome`, `cmd/s0f`) | the extension's port, messages posted to it, where a program waits | post, forward, call, watch, disconnect | an answer is read by the one that asked, no one waits for ever |
| Lifecycle (`main.go`, `server.go`) | socket paths, processes | start, take over the path, stop, die | one daemon per profile, reachable, back after a crash |
| Configuration (`pkg/config`, `s0f init`, `s0f remote set`) | `config.toml` | `Load`, `Save` | what is loaded is what somebody wrote |
| Logging, frame bytes, output of commands, macOS app, scripts | files, none | - | not modelled, see section 8 |

How they interact: `apply_ops` runs through the validator (on a loaded copy), the
store, the snapshot file, the repository and the hub, in this order, and answers
last. The hub hands events to the goroutines of subscribed connections over
buffered channels. A pull rewrites files in the work tree, the database among
them: it removes `state.db` and creates another one, while SQLite's connections keep
the old one open. The supervisor (launchd) restarts the daemon, which reads
`config.toml` once; `s0f init` and `s0f remote set` write that file without asking
anybody. The extension starts a bridge when it has none and posts to it without
waiting; the bridge serves one message at a time.

What is hard: validation and transaction are not atomic; pragmas stick to
connections and not to the database; files and the Git index are changed by
read-modify-write without a lock; each later step may fail after the batch is
durable; the socket path is the only thing that tells daemons apart. The list, each
entry at its line and with the properties that watch it, is under `hazards` in
`PROJECT.json`.

## 2. Modules

| Module | Models | Uses |
|---|---|---|
| `BookmarkTree` | rows, the seven operations, what `ValidateOps` accepts and simulates, what each statement of the store does | - |
| `TreeService` | abstract: the tree changes by whole batches; with `Serialized`, each valid against the tree it changes | `BookmarkTree` |
| `ApplyOps` | handlers, connection pool, transactions, restart | `BookmarkTree`; implements `TreeService` (`AtomicService`, `SerialService`) |
| `Journal` | abstract: a durable batch is recorded at most once, announced at most once, in this order and while it is the latest | - |
| `Publish` | what follows validation: database file, snapshot, index, HEAD, events, reply, crash | implements `Journal` for one client (`KeepsJournal`) |
| `OrdKeys` | the `ord` column of one folder | - |
| `SyncService` | abstract: the history here and those of the remotes, which grow by commits and by each other, one step per push or pull | - |
| `GitRemote` | push, pull and status against remotes another machine pushes to, one of them configured | - |
| `Profile` | the history together with `state.db` and the connections that have it open | extends `GitRemote`; implements `SyncService` for one client (`SyncIsAtomic`) |
| `Events` | serve loop, hub, and the programs at the other end of a connection | - |
| `Config` | `config.toml` and the commands that write it | - |
| `Lifecycle` | daemons coming and going on one profile, each with what it loaded | extends `Config` |
| `BookmarkTreeProofs` | lemmas about the operations of `BookmarkTree` | |
| `ApplyOpsProofs`, `ServiceProofs` | theorems about `ApplyOps`: types and shape of the rows; what the service promises | `ServiceProofs` extends `ApplyOpsProofs` |
| `PublishProofs`, `OrdKeysProofs`, `ProfileProofs`, `EventsProofs`, `LifecycleProofs` | theorems about the module of the name | |
| `MC*` | instances for TLC: the names of handlers and connections, trees and batches | |

### BookmarkTree and ApplyOps

A tree is a function from ids to rows `[parent, kind, title, url]`; ids are
numbers because `NewNodeID` hands out fresh, increasing ones. `OpOK(t, op)` is the
case of `ValidateOps` for `op`, `Simulate` what the validator does to its own copy
(a move moves, a delete takes the one node, *its descendants stay*), `StoreResult`
and `StoreFails` what the statement does to the rows of the transaction, given the
connection's `foreign_keys`. The walk of `isDescendant` has no end on a cycle;
`Diverges` says when, and a validator that meets it goes to place `spin`.

`IsDescendant`, `Diverges`, `Acyclic` and `Rooted` are written with sets of rows
closed under "parent of" instead of recursion: provers can use them, and TLC can
evaluate them on the small trees of the runs.

`ApplyOps` keeps, per handler, its place, its batch, the validator's trees
(`plan`, one per operation accepted so far) and the connection it holds. Reading
places: `load` (waiting for a connection) -> `loading` -> `validate` -> `begin` ->
`tx` -> `reload` -> `reloading` -> `idle`. SQLite's part: a transaction reads the
committed rows until its first statement takes the one write lock (`writer`,
`work`), a second writer waits and may give up, and the commit publishes `work`. The
pool is `database/sql`'s: last in, first out, and no more than `MaxIdle` kept idle.

A transaction ends in one of three ways. `Rollback` is `tx.Rollback` after an operation
that failed (`SQLITE_BUSY` on a statement and I/O errors make it possible at any time),
and what a COMMIT amounts to that SQLite itself undoes. `Commit` is a COMMIT that
succeeds. `CommitRefused` is a COMMIT that SQLite refuses and leaves alone
(`SQLITE_BUSY` while a reader has the file): `Store.ApplyOps` returns without a
rollback (sqlite.go:212-214), and `database/sql`, for which the transaction is over, puts
the connection back with the transaction, and the write lock, still there. It is
`Stuck`: whoever gets it reads the rows of that transaction (`Seen`), cannot begin
another one on it (`BeginFails`), and other connections cannot write. `Strand` says how that
ends: when the pool is full and closes the connection instead of keeping it; or the
daemon is started again. `LockAccounted` is the property that keeps these books.

### Publish

The tree is abstracted to its version. Every file changes in the steps the program
takes: `state.db` is being written before the transaction counts (`dbFile` may be
`Torn`), `snapshot.json` is truncated and then encoded, each `wt.Add` reads the
index and the file and then writes the whole index, `wt.Commit` reads HEAD and the
index and then moves HEAD. A failure of the snapshot or of Git leaves the reply
`pending`; the event and the reply follow in any case.
A COMMIT that is refused and stays open (see `ApplyOps`) is `CommitFails` here: the file
has none of it, and with one client the batches that follow cannot begin, so no
snapshot or commit is made of rows that were not committed. With two, the reload of the
other client may read them; that is left out.

`Journal` is what that amounts to for somebody who reads the history and the events
only: `db` is the version, the versions of the commits HEAD reaches are the history.

### OrdKeys

Keys are counted in float steps (`Unit` steps to 1), so that the rounding of a
midpoint is exact. `want` is the order the accepted requests describe; the property
compares it with `ORDER BY ord`. `Room[n]` is what n operations may halve and leave a
step of: 2 to the power of n.

### GitRemote and Profile

A history is a sequence of commits. `cfg` is what the daemon read at start: whether the
repository opened, the URL, and whether `vcs.branch` names a branch that is fetched. There
may be several remotes (`remotes`, by URL). `Request` is a request up to and with
`EnsureRemote`: without a repository or a URL it is refused, and otherwise `origin` gets
the URL of the configuration, by deleting and creating the remote when it had
another one, or the request ends in `VCS_ERROR` with the old remote or none. The reference
`track` is not touched by that and keeps what the remote before had; `of`, an
auxiliary variable, remembers whose history it is. `Seen` is what `compareRemote` reads
of it.

Push and pull are split where another actor can step in: after the fetch, after the
comparison, and between go-git's second fetch and the move of HEAD. `changes` says
how the index and the work tree differ from HEAD: a batch that is in `state.db` and in no
commit, staged or not, or what a move of HEAD left that did not end. go-git refuses to
reset over changes that are not staged (after it may have moved HEAD) and discards those
that are. `MoveHead` is the move that ends, `MoveFails` the one that fails with the daemon
alive, `MoveCut` what either that one or the daemon's death leaves. `Fails` covers answers
that are lost: a push the remote took, a fetch that moved the reference.

`Profile` numbers batches and keeps `files`, the batches in every file that ever was
`state.db`, the last being the one at the path. `at` is the file a connection has
open. A write through a connection whose file is not at the path fails, which is
SQLite's own check; without that check (mutant `WriteAnywhere`) committed batches are
lost. `acked` are the batches a client was told are committed. `file` says what is at the
path: after a checkout that failed or died (`Left`), `state.db` may be gone, in which case
SQLite makes an empty one that the next start fills in, or be the beginning of one, on
which no daemon starts. The batches are still in the commits then
(`CommittedIsRecoverable`), and `BatchesStay` says that this is the only way a committed
batch leaves the file, and that the client is not told ok.

### Events

`serve` is the place of a connection's goroutine, `chan` and `open` the
subscriber's channel, `wire` the frames in the socket. `far` is the program at the
other end and where it is: a bridge waits for its browser (`stdin`) or forwards
frames (`forward`), a command waits for its answer, a watch reads for ever. `port`,
`pipe` and `posts` are the extension's. `StreamMethods` is what `RegisterStream` was
called for: **empty in the program**. The hub and the stream path are there and are
checked with `subscribe_events` registered; `get_tree` and an unknown method run
beside it and are answered as they are in the program. `End` is the death of the
daemon, after a shutdown or not.

### Config and Lifecycle

`Config` has `Save` in its two steps, truncation and write: whoever loads the file in
between finds an empty one, and two writers may leave bytes of both. Of a
configuration there is the profile's name, the database, the socket, and whether a
remote is set, each possibly missing.

`Lifecycle` is `run` step by step, `cleanupSocket` being a `stat` and a `remove`, for
the paths each daemon has loaded. Closing a Unix listener in Go unlinks its path,
whoever listens there by then.

## 3. Runs

Passing runs:

| Run | Instance | Shows |
|---|---|---|
| `ApplyOpsSerial` | 1 client, 3 requests, driver's `foreign_keys` off, fairness | the tree stays rooted; implements the serialised `TreeService`; every request ends |
| `ApplyOpsRace` | 2 clients, 3 requests, 10 batches, `foreign_keys` off, one idle connection, symmetry | types; where connections and the write lock are, also after a refused commit; root, kinds and urls keep; a hanging validator sits on a cycle; implements the atomic `TreeService` |
| `Publish` | 1 client, 5 versions, 2 crashes, any step failing, fairness | coherent commits, current snapshot, honest `committed`, no commit lost, implements `Journal`, every request ends |
| `OrdKeys` | float step finer than the 6 operations need | order as requested; keys stay so far apart that each operation left may halve a gap |
| `GitRemote` | 1 client, 2 pooled connections, 2 remotes with another writer, failures and restarts anywhere, fairness | implements `SyncService`; no committed batch is lost; a batch leaves `state.db` only in a pull, a committed one only when the pull is cut short; a restart serves HEAD; `ok` means caught up; every request ends |
| `Events` | 2 connections among bridge, commands and watches, a stream registered, hang-ups, shutdown, death of the daemon, fairness | no send on a closed channel; events in order; one answer per request, read by the one that asked; a slow or dead subscriber delays no broadcast; after a shutdown every subscription is taken down, unless the process ends first; no posted message waits for ever |
| `Lifecycle` | 2 daemons, 2 crashes, 2 commands writing the configuration, fairness | a dead daemon's socket means a crash, and never keeps the profile down; no daemon serves a database nobody named |

Runs that show a disagreement between the code and a document (`findings` in
`PROJECT.json` has the quotes and lines):

| Run | Violates | In short |
|---|---|---|
| `ApplyOpsCycle` | `NoCycle` | two concurrent moves close a cycle |
| `ApplyOpsDangling` | `NoDangling` | a delete on a connection without the pragma leaves orphans |
| `PublishLost` | `HistoryKept` | a commit drops the other client's |
| `GitRemoteSwapped` | `RefusedOnlyWhenAhead` | ahead and behind are swapped |
| `LifecycleOwner` | `OneDaemonPerProfile` | a second daemon serves the same profile |

Each property of a passing run has a mutant: a definition next to the original,
marked `\* mutant`, with a bug this code could plausibly have; with it in place TLC
finds the property violated in the same run.

Several properties hold for one connected client only; their comments say so. With
two clients TLC refutes them:

- `Handlers = {h1, h2}` in `Publish.cfg`: `CommitsCoherent` (a commit mixes versions,
  against docs/design_doc_v1.md:225), `CommittedIsInHistory`, `SnapshotCurrent` and
  `KeepsJournal`;
- `Alone = FALSE` in `GitRemote.cfg`: `SyncIsAtomic`, `BatchesStay` and
  `CommittedIsRecoverable` (a pull drops a commit made meanwhile, against
  docs/design_doc_v1.md:331); `OkMeansCaughtUp` and `RestartServesHead` hold.

With `Unit = 4` in `OrdKeys.cfg` `OrderAsRequested` fails, since nothing rebalances
keys (docs/design_doc_v1.md:178): `FineEnough` is what `OrderIsAsRequested` needs.

Plain from the code, and without a run:

- nothing retries a failed commit (docs/design_doc_v1.md:348), a missing snapshot is
  not regenerated (:353), `subscribe_events` is not registered (:304), and a stale
  socket is removed without looking for a live daemon (:354);
- a COMMIT that SQLite refuses leaves its transaction open in the pool: from then on
  `get_tree` and the validator may see rows that were never committed, and batches are
  refused, until the pool closes the connection or the daemon is started again;
- a checkout that fails half way leaves no `state.db`, or a part of one, and a daemon that
  goes on without it (the runs show that the commits have every batch);
- an index beyond the number of children is refused (`validateIndex`, validate.go:115-123),
  where docs/design_doc_v1.md:128 says it is clamped;
- after a pull that moved HEAD, every connection opened before it reads the removed
  `state.db`: the pull itself answers with the old tree, and each `apply_ops` on such
  a connection fails with `STORAGE_ERROR` until the daemon is started again;
- such a pull discards a pending batch that was staged
  (docs/implementation_tracks.md:41 asks for a "clean working tree");
- the bridge dials `ipc.sock` whatever `socketPath` says (cmd/bmd-bridge/main.go:26),
  and a running daemon does not see a remote that was set;
- `s0f watch` prints that it is subscribed before the answer, which refuses it;
- two `s0f init` without `--force` may both find no configuration and both save.

## 4. Bounds, and why they are enough

- **Clients**: two. Each race here is between one reader and one writer of the same
  thing; a third handler adds no new pair. The theorems hold for any number.
- **Requests**: three in a behaviour; a cycle takes two and a validator that meets
  it a third.
- **Trees and batches**: two folders, a bookmark in one of them, the root, and an id
  whose row is gone: each node kind as target and as parent, both directions of a
  move, and a deleted folder with something below it. `SerialBatches` has each
  operation accepted and refused, and the pairs whose second operation meets the
  first one's effect; `RaceBatches` those that meet another client's.
- **Versions, crashes** (`MaxVersion`, `MaxRestarts`, `MaxCrashes`): enough for two
  of each kind to overlap and for one more to come after.
- **Pool** (`MaxIdle` 1 in `ApplyOpsRace`, where the program has 2): with two handlers
  and two idle connections the pool never overflows; with one it does, which is when a
  connection is closed, be it one with a transaction left open.
- **Commits** (`MaxCommits` 3, the first one possibly there at start, on either side and
  at either remote): one here and one on the other machine, in either order, or two of
  one side. Two remotes: the one the configuration named and the one it names now. Two
  connections: one that is open across a pull and one opened after it.
- **Events**: `Cap` is 1 and `WireCap` 1, smaller than the program's 16 and the
  kernel's buffer, so that both fill; with three events one is buffered, one in the
  socket and one missed. Nothing depends on their values. Two messages are posted: one
  that a dying daemon loses and one to a bridge of its own. Connections are numbered
  in the order they are made, which removes what symmetry would.
- **Configuration**: two commands, each run once: a reader between the two steps of a
  writer, two writers at once, and a command on what the first one left. The file is
  smaller than a disk block, so one write stores all of it or nothing. Files written by
  hand are there at start only.
- **OrdKeys**: a float has 2^52 steps to 1 in the first binade; `Unit` is 2^6 and
  `MaxOps` 6, the most for which the argument of `RoomLeft` goes through.
- `SYMMETRY` only in `ApplyOpsRace`, which has no liveness property; its handlers are
  interchangeable.
- Deadlock is not checked where the model stops at a bound.

## 5. Fairness

- Handlers (`ApplyOps`, `Publish`): weak fairness of each handler's steps - the Go
  scheduler runs every goroutine that can run, and a statement that waits for
  SQLite's lock gives up after `busy_timeout`. None on `Receive` and `Restart`:
  clients and crashes owe nothing.
- `GitRemote`: weak fairness of the request; network calls and checkouts return or fail.
  None on restarts, on the other machine and on batches.
- `Events`: weak fairness of each serve loop, of the goroutine that waits for
  shutdown, of broadcasts (a batch follows the other), of the bridge's two loops, of a
  command's or watch's reading, and of the browser's disconnect callback. None on
  posts, calls, hang-ups, the shutdown and the end of the daemon.
- `Lifecycle`: weak fairness of each daemon's own steps and of the supervisor's
  restart (`KeepAlive` in `scripts/install-launchagent.sh`); signals and crashes are
  free, the latter bounded. None on commands: one that is killed between truncation
  and write leaves the file empty, so `ComesUp` asks for a configuration that stays
  valid.

## 6. What is proved

All theorems hold for any number of clients, connections, daemons and commands, any
bounds, and whatever fails, where nothing else is said. Assumptions are the named
`ASSUME`s of the modules (the placeholders of constants differ from what they stand
beside, bounds are numbers, initial trees and batches are well-formed), which TLC
evaluates in every run, and for some theorems one more hypothesis, which the run of
the same property meets:

| Hypothesis | Of | Says |
|---|---|---|
| `OneClient` | `ServiceProofs`, `PublishProofs` | one handler, `\E h \in Handlers : Handlers = {h}`; section 3 says what TLC finds with two |
| `Alone` | `ProfileProofs` | no `apply_ops` runs inside a pull or push |
| `FineEnough` | `OrdKeysProofs` | `Unit >= Room[MaxOps]`: with the 2^52 steps to 1 that a float has, 52 operations |

### The shape of the rows (`ApplyOpsProofs`)

- `TypeCorrect`: `Spec => []TypeOK`, with the size of the pool in it;
- `LockIsAccounted`: `Spec => []LockAccounted` - a handler holds a connection exactly
  while it is inside a query or a transaction, and the write lock belongs to a handler
  in its transaction or to the one connection, idle or lent out, that a refused COMMIT
  left with it;
- `RootIsImmutable`: `Spec => []RootImmutable`;
- `ParentsStayFolders`: `Spec => []ParentsAreFolders`;
- `UrlsStayWithKind`: `Spec => []UrlsFollowKind`.

The question behind `RootIsImmutable` and the two after it is why anything survives a validation against a
stale tree at all. None of them is inductive: a transaction writes below a parent,
or writes a url, because of what a validator saw in another tree. The invariant
`IInv` (theorem `Inductive`) supplies the link:

1. `Typed` and `Pooled`: the types, per part of the state; `Locked`: who has the write
   lock, and that there is one stuck connection at most, which is `LockAccounted` in the
   form the steps keep;
2. `Plans`: a handler past validation has one accepted operation per tree of its
   plan;
3. one map `K` from ids to kinds `Fits` the committed rows, the writer's rows *and
   every tree any validator holds*: rows have ids that were handed out, the kind `K`
   gives them, and, but for the root, a parent whose id is a folder's by `K` -
   whether or not its row is still there.

Ids are handed out once and no operation changes a kind, so `K` only ever grows.
What a validator concludes about an id from its old tree it concludes about `K`,
hence about the tree of today. `BookmarkTreeProofs` has the lemmas about the
operations (`SimulateFits`: the validator's own simulation keeps the fit;
`StoreFits`: an operation accepted on *some* tree that fits, applied to *any* tree
that fits, gives one that fits, with foreign keys or without); `ApplyOpsProofs` the
steps: one lemma per conjunct of `IInv`, one step per action. `IInv` quantifies over
maps on all numbers and is proved without a TLC run of its own; the invariants it
implies are checked by `ApplyOpsRace`.

### What the service promises (`ServiceProofs`)

- `SpinsOnlyOnCycle`: a validator that hangs loaded a tree with a cycle. `SpinInv`
  says that each tree of a plan is acyclic when the first one is; its step needs
  that a simulated move or delete closes no cycle;
- `AtomicImplemented`: `Spec => AtomicService`, the refinement of `TreeService` for
  any number of clients. `TxInv` (theorem `TransactionsInOrder`) says that the
  writer's rows are the committed rows with the first `at[h]` operations of its
  batch applied, and that a handler that does not write has met only operations
  that are no statement;
- with `OneClient`, `ServedAlone`, `TreeStaysRooted`, `OneClientIsSafe` (no cycle, no
  row without its parent, no hanging validator) and `SerialImplemented`:
  `Spec => SerialService`. `AloneInv` holds the validator and the transaction
  together: one connection, always that of `Init`, so foreign keys are enforced
  (`SamePool`), unless it is stuck, when no batch gets past `BeginFails`; plans begin with
  the tree that connection shows, the committed one or that of the transaction left
  open (`Base`), and follow by `Simulate`
  (`Chained`); and the rows the transaction has are those of the plan at the same
  operation, *except for what the validator forgot to remove below a deleted folder*
  (`Following`, with `Mirrors` of `BookmarkTreeProofs`). Every row is reached from the
  root in the former, which is why the leftovers of the latter do no harm.

`Applied` and `ValidBatch` are recursive functions over a batch. That the steps of a
transaction compute `Applied` is proved by induction on the number of operations
done: `NatSetInduction`, from the well-foundedness of `<` on `Nat`, is about a set in
place of a predicate.

### Publishing (`PublishProofs`)

`PublishTypeCorrect` holds for any number of clients: it needs that the transaction
that is being written is the only one (`Writing`). For `OneClient`:
`CommitsAreCoherent`, `CommittedIsRight`, `SnapshotIsCurrent`, `HistoryIsKept` (an
action property) and `JournalIsKept`: `Spec => KeepsJournal`. All follow from
`PublishInv`, which says at each place of the handler what the files hold (`Files`),
what it has read (`Holds`), what the index and its copies hold (`Staged`), that the
batch at hand is not recorded or announced yet (`NotYet`), and what a reply that says
committed stands for (`Honest`). A crash resets the place and not the files; that is
why `Staged` and `Files` speak of the places where something was just written, and
of no other.

### Keys (`OrdKeysProofs`)

- `OrdKeysTypeCorrect`, for a float of any precision: rows and list agree (`Listed`);
- with `FineEnough`, `RoomStaysLeft` and `OrderIsAsRequested`, for folders of any size.

`OrderAsRequested` is not inductive, since keys in order may leave no room for one
more. `RoomLeft` is what makes it so, with `Listed`. `EveryRank` and `SortedAsListed` say
that `ORDER BY ord` reads the rows as they are listed; `MidBetween` that a rounded
midpoint keeps half of a gap on each side; `KeyFits` that the key for an index is on
the right side of every other one; `SpacedLonger` and `SpacedShorter` carry that
through insertion and removal. A row that is moved within its folder is counted while
its new place is looked up, so an index means another place when it moves down than
when it moves up: `ReorderPlace`.

### The remote (`ProfileProofs`)

Whatever clients do, and wherever the daemon is restarted: `ProfileTypeCorrect`,
`OkIsCaughtUp` (an action property) and `RestartIsServedHead`, from `RemoteInv` (what
each place of a request knows of HEAD, the reference, the target and the remotes; the
reference is behind the remote it came from, `Followed`, and says nothing of another) and
`StoreInv` (a file that is not whole is a change that is not staged, so no commit and no
checkout follows it unseen). With `Alone`:
`CommittedStaysRecoverable`, `BatchesDoStay` (an action property) and
`SyncImplemented`: `ProfileSpec => SyncIsAtomic`. `CommittedIsRecoverable` alone says
nothing of a pull that is under way; `AloneInv` adds that of two histories that continue
HEAD, at whichever remotes, the longer one has all that the other has (`Carried`), so
that a pull, also one after the remote was changed, checks out no less than HEAD has; and
that no batch whose commit was answered is in the file only (`Kept`).

### Events and answers (`EventsProofs`)

For any number of connections, any buffers and any registered streams:

- `EventsTypeCorrect`, with buffers within their sizes;
- `NoSendOnClosedEver`;
- `EventsArriveInOrder`: `Ordered` speaks of socket, channel and what was read apart and
  bounds each number by the events broadcast so far; `FramesFlow` is the one lemma
  about how frames move, used by every action;
- `AnswersGoToAskers`: `Matched` says where an answer can be while a program waits, while
  its request is not read yet, and once it waits no more. It holds because a bridge asks
  the next question only after the frame that ends the last answer, and because nobody
  takes over the socket of a program that hung up.

### Lifecycle (`LifecycleProofs`)

- `LifecycleTypeCorrect`: `Spec => []TypeOK`;
- `DatabaseIsNamed`: `Spec => []ServesItsDatabase`;
- `NoSocketOutlives`: `Spec => []StaleOnlyAfterDeath`.

`ServesItsDatabase` speaks of daemons only and is not inductive: a daemon loads what
is in the file, and a command saves what it had loaded earlier. The invariant (theorem
`LifecycleInductive`) adds `Sound` - a file that is accepted has a database that was
named, and so has what each command is about to write: an empty or garbled file is
refused - and `HasPath`, since a daemon that sits between two steps with no path would
touch a socket that is not there. `StaleOnlyAfterDeath` is inductive with them:
`GotoStep`, `ExitStep` and `StartsUnheard` are the three ways in which a daemon moves
with regard to the sockets.

## 7. What is only model-checked

- liveness - `EveryRequestEnds`, `EveryEventIsBroadcast`, `EveryMessageIsRead`,
  `ShutdownEndsStreams` and `ComesUp`: outside of what TLAPS 1.4.5 can prove;
- the properties of the runs that show a disagreement: what they state is false of
  the code with two clients or two daemons. For one client `NoCycle`, `NoDangling`
  (`OneClientIsSafe`) and `HistoryKept` (`HistoryIsKept`) are theorems.

Every other property of a passing run - invariant, action property or refinement - is
a theorem too, so no bound of a run hides a violation of it.

## 8. What is not modelled, and what is taken from outside

- Logging: a rolling file that nothing in the program reads. `order.go` is used by
  nothing. The macOS app is a placeholder; of the scripts, only the launch agent's
  restart policy is used.
- The bytes of a frame (a cut-off frame reads as the end of the stream), what commands
  print, what `diag` and `remote show` read, which matches `search` picks and how
  `get_snapshot` is laid out: formats, and single expressions. `search` and
  `get_snapshot` load the tree once, as `get_tree` of `ApplyOps` does.
- Timestamps, titles of tabs, the `recursive` flag (carried, read by nobody).
- The paths clients dial: hazards, each plain from one expression.
- `ApplyOps`, `Publish` and `Profile` are separate: what `ApplyOps` says of a batch is
  the one `Write` of `Profile`, and the version that `Publish` counts.
- External, modelled by how the code uses it: SQLite (serialisable transactions, one
  writer, a transaction that ends with its connection and on restart, a COMMIT that is
  refused while somebody reads and stays open, an external reader of the file can see
  a half-written one), `modernc.org/sqlite` (foreign keys off unless a pragma says
  otherwise, writes to a removed file refused with `SQLITE_READONLY_DBMOVED`),
  `database/sql`'s pool, go-git (no lock on index and HEAD, fast-forward only, a pull
  moves HEAD and then resets the index and the work tree, removing and creating what
  differs, and leaves what it has done when the disk fails; a
  refused push may or may not be an error `errors.Is` recognises), `os.WriteFile`
  (truncation, then one write from the beginning), Chrome's native messaging (a port is
  a process; messages it has not read are lost with it), Unix sockets.

## 9. Plan

The modules of section 2 are written, their runs pass, and their safety is proved. What
may follow:

1. what is left of the properties of one client when there are two, stated and proved:
   in `Publish`, that each commit holds contents that were in the files at some time
   and that events announce durable versions only; in `Profile`, which batches a
   merge with a commit in between can lose;
2. the safety side of the liveness properties: that no handler, bridge or daemon is
   ever in a place that none of its steps leaves;
3. `ApplyOps`, `Publish` and `Profile` share the notion of a durable batch; a mapping
   between them would make one theorem of the three.
