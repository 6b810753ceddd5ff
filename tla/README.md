# A TLA+ model of payjoin

This directory models the payjoin workspace (the `payjoin` library, the
`payjoin-directory` server and `payjoin-cli`) in TLA+, checks it with TLC on small
instances and proves its main invariants with TLAPS for every instance.  Paths
below are relative to the root of the workspace's sources; `PROJECT.json` maps every
definition to the lines it stands for.

## 1. Inventory

| Component | Source | State it keeps | Operations |
|---|---|---|---|
| Directory server | `payjoin-directory/src/lib.rs`, `db.rs` | redis: one value per subdirectory and column, pub/sub channels; per request, the await its task stands at | `post_subdir`, `get_subdir`, `put_payjoin_v1`, `post_fallback_v1` over `DbPool::push` and `peek_with_timeout` |
| OHTTP gateway, health, keys | `payjoin-directory/src/lib.rs`, `payjoin/src/directory.rs` | the OHTTP key of this start | decapsulate, route by short id, cut the response to size |
| Long polling | `payjoin-cli/src/app/v2.rs` | the request being repeated | `long_poll_post`, `long_poll_fallback` |
| v2 sessions | `payjoin-cli/src/app/v2.rs` | tasks in memory, sessions in sled | `send`, `receive`, `resume`, interruption |
| Database | `payjoin-cli/src/db/mod.rs`, `db/v2.rs` | sled: `recv_sessions`, `send_sessions`, seen outpoints | insert, get, clear, `insert_input_seen_before` |
| v2 receiver and sender machines | `payjoin/src/receive/v2/mod.rs`, `payjoin/src/send/v2/mod.rs` | session keys, expiry, HPKE/OHTTP contexts | extract and process requests and responses |
| Receiver typestates | `payjoin/src/receive/v1/mod.rs`, `optional_parameters.rs` | Original, payjoin under construction, parameters, `change_vout`, `owned_vouts` | three checks, identify, replace/substitute outputs, contribute inputs, `apply_fee`, finalize |
| Sender builder | `payjoin/src/send/v1.rs`, `send/mod.rs` | what the sender offers | `build_recommended`, `build_with_additional_fee`, `build_non_incentivizing` |
| Sender checks | `payjoin/src/send/mod.rs` | Original and offer | `process_proposal` |
| PSBT weights, merge | `payjoin/src/psbt/` | none | weight prediction, merge |
| v1 HTTP receiver | `payjoin-cli/src/app/v1.rs`, `receive/v1/exclusive/` | the database, the wallet's coins; per connection, the step its task stands at | `handle_payjoin_post`, `process_v1_proposal`; `send_payjoin` of its senders |
| URIs | `payjoin/src/uri/mod.rs`, `uri/url_ext.rs` | none | `set_param`, `get_param`, serialize and parse the extras |
| HPKE, OHTTP client | `payjoin/src/hpke.rs`, `ohttp.rs` | key pairs | seal, open, pad, encapsulate |
| Requests, I/O, errors, CLI, config | the rest | none | formatting, RPC |

How they interact.  A receiver opens a session, saves it and hands out a URI that
names its subdirectory of the directory.  A sender saves its Original and a reply
key, posts the Original there and polls a subdirectory derived from the reply key
(a v1 sender posts it in the clear and waits for the `pjv1` column instead).  The
receiver polls its subdirectory, runs three checks (the third inserts the inputs
into its database), builds a proposal through the typestates, and posts it.  The
sender checks the proposal against its Original, signs and broadcasts.  Nothing
is ever deleted from a mailbox, and both processes may be interrupted at any await
and resumed from their databases.

What is hard here:

- concurrent requests on one mailbox, where writing and announcing, reading and
  subscribing, are separate redis commands under a timer;
- durable steps (a session saved, an input marked as seen, a reply posted, a
  session cleared) between which a process may stop;
- a lost answer, a repeated post, an expired sender that falls back to v1;
- two independent computations of one transaction: what the receiver may add and
  take is decided in `receive/v1/mod.rs`, what the sender tolerates in
  `send/mod.rs`, with rounded fees and outputs that move;
- two independent computations of one address: receiver and sender each derive the
  subdirectory of an answer, from the directory's URL and from the endpoint in the
  URI, by hashes of eight bytes that may collide, in messages of one fixed size;
- one-pass walks over two lists (`check_inputs`, `check_outputs`) with overlapping
  arms.

What makes each part correct: a mailbox behaves as one atomic box, and whoever
waits or polls learns of a message in it; a receiver answers an input once; a
session is kept until it is done and a resumed one completes; an accepted proposal
spends the sender's inputs, keeps its outputs and costs it no more than it offered;
a sender opens only the proposal for its own Original, finds what was answered to it, and
reads from a URI what its receiver has;
what a receiver finalises is something its sender accepts, and loses neither side
value.  The hazards, line by line, with the properties aimed at each, are in
`PROJECT.json`.

## 2. Modules

    DirectoryCalls --- Mailbox                 Transactions --- SenderBuilder
          |               ^ refines                               |       |
          +---------- Directory --- Polling              SenderChecks   Proposal
                                                                 ^        |
    Sessions (its boxes are Mailbox's)                           +-- Negotiation
    HttpReceiver
    PjUri, Wire --- Exchange (its boxes too)

**`DirectoryCalls`** what clients may ask, which column a call writes and reads, and
which statuses answer it.

**`Mailbox`** the abstract specification: a push overwrites a box in one step; a
peek returns what its box held at one moment of the request, or times out.

**`Directory`** each request as a task.  `pc` is the await its handler stands at; `Set`,
`Publish`, `Get`, `Subscribe`, `Notified`, `ReGet`, `Unsubscribe` are the redis commands of
`db.rs`, `Timeout` the timer of `peek_with_timeout`, `RedisError` and `Drop` the failures.
`missed` is auxiliary: it records that an announcement passed a task by.

**`Polling`** adds the clients that repeat a GET answered with 202.

**`Sessions`** one receiver process with a task per session over one database, and a
sender with its own database per session.  `task` and `sender` are where the tasks
stand; `recvDb`, `seen` and `sendDb` are sled and survive; `box`, `v1Box` and `replyBox` are the
mailboxes; `spent` and `paid` the chain.  Each side has a clock of its own: `closed` are the
sessions past their expiry for the receiver, `expired` for the sender, in either order.
A receiver looks at its clock when it builds a request (`Ask`) and not when the answer
comes (`Answer`), so that a long poll in flight at the expiry still brings an Original, the
one in the clear of a sender that fell back to v1 among them.  `CheckNotSeen` is one step
per input, because each insertion is flushed on its own.  `Crash` ends all tasks, `RequestLost` one of them,
before or after the request took effect.  The atomic boxes are justified by the
refinement of `Mailbox`.

**`HttpReceiver`** the v1 server.  `task` is where the task of each POST stands in
`process_v1_proposal`, `answer` the status it was answered with; `seen` is the database and
`spent` the chain.  A request has `stated`, the inputs that spend an output to the receiver
by the request's own UTXO information: `CheckInputsNotOwned` knows no other, as
`previous_txout` takes `witness_utxo` for granted.  A task runs without an await from its first check to its answer, but
on a thread of its own: each call on the node or on sled is a step, and tasks
interleave between them.  `Post` also lets a sender offer a proposal it was
answered with; `Fallback` is the user who broadcasts the Original that
`send_payjoin` printed.

**`Transactions`** a PSBT as a record of inputs and outputs; fees, weights and rates
with the rounding of the `bitcoin` crate (`FeeAt` rounds up, `RateOf` down).  Weights by
script are constants.

**`SenderBuilder`** the offers an Original can be sent with, by each of the three builder
methods; the sender's own index, maximum and clamping of `build_with_additional_fee` are
any (`FeeRequests`, with the maximum from `FeeOffers`).

**`SenderChecks`** `process_proposal` against any proposal at all, one action per arm of
the two walks.  `at` is the position in the proposal, `next` the element of the
Original that `peek` shows.

**`Proposal`** the typestates from `OutputsUnknown` to `PayjoinProposal`.  `stage` is the
typestate; random positions and choices are nondeterministic; an underflow or an
index out of range leads to `panicked` (for unsigned weights that wrap, to a panic
or to `FeeTooHigh`, by the build).  `rates`, `replaced`, `wanted` and `contributed` are
auxiliary.

**`Negotiation`** composes both sides: a sender of `SenderBuilder`, the receiver of
`Proposal`, and `SenderChecks` instantiated on the proposal it made.

**`PjUri`** a fragment as the sequence of its parts.  A part begins with the prefix of one
parameter (`key`) and may hold the prefixes of others further in (`holds`): `GetParam` reads
the first part that begins with the prefix, `SetParam` takes out what follows the prefix
where a search for it first finds it (`Found`, `Cut`), and leaves a blank part or what stood
before.  `Clean` says of a fragment that the two agree.  Also paths with `Push` and `Join`; the expiry in whole
seconds; the parameters of a BIP 21 URI and how they are parsed.

**`Wire`** the messages with ideal cryptography (`OpensA`, `OpensB`), and the sizes of the code:
what pads, what fits a request, what fits a response.

**`Exchange`** the library's two state machines over one directory, for any number of
receivers and senders.  `idOf` is the hash of each key to a short id, which may collide;
`box` and `boxV1` are the mailboxes; `rstate`, `expiry`, `ohttp`, `e` and `got` what a receiver
keeps; `sstate` and `uri` what a sender does.  What a request comes to at the gateway is by
its key, size and path (`Outcome`); any request may also be lost or meet an error of redis,
before or after it took effect.  Building a request and its arrival are two steps where the
expiry is looked at in the first: `Ask` and `Poll` of a receiver ("asking" between them),
`ExtractV2` and `PostV2` of a sender ("posting").  A sender may refuse a proposal, also one
for its own Original.  `PollOn` is a caller that polls again with the receiver it has, from
any state past a poll and with the reply key it still holds; `Reload` one that starts from
the saved session, which holds none; `Restart` a new start of the directory.  `opened`,
`sealedAt` and `inClear` are auxiliary.  It has what `Sessions` abstracts (keys, addresses,
sizes, time) and abstracts what `Sessions` has (steps within an exchange, databases,
coins).

**`DirectoryProofs`** (of `Directory` and `Polling`), **`SessionsProofs`, `HttpReceiverProofs`,
`SenderChecksProofs`, `NegotiationProofs`, `AcceptanceProofs`** (of both sides of `Negotiation`) and
**`ExchangeProofs`** (of `Exchange` and `PjUri`) hold the theorems, and `TransactionsProofs` the
lemmas on sums, fees and rates that three of them share.  **`MC*`** instantiate for TLC.

## 3. Runs

| Run | Question | Result |
|---|---|---|
| `directory` | Can a sleeping peek miss a message outside the windows the code leaves open; do the handlers implement an atomic mailbox; does every request end? | holds |
| `polling` | Does a client that polls get the message in the end? | holds |
| `sessions` | Does check 3 hold across sessions, crashes, resumes and expiry; are send sessions kept? | holds |
| `sessions_sender` | Does a sender that crashes and is resumed complete? | holds |
| `sessions_resume` | Does a receiver that is cut off and resumed complete? | violated |
| `sessions_cleared` | Is a receive session kept until it has replied? | violated |
| `sessions_refusal` | Does a refusal reach the sender? | violated |
| `http_receiver` | Do the three checks hold for POSTs handled at once, and for a proposal that is posted again? | holds |
| `sender_checks` | Can any proposal trick the sender's walks? | holds |
| `negotiation` | Does the sender accept what the receiver finalises, and who pays? | holds |
| `negotiation_acceptable` | Is the shuffle of added outputs harmless? | violated |
| `exchange` | Where keys share a mailbox and receivers poll on with old keys, who may open and work on what?  For every kind of directory URL, does a URI say what the receiver has, is an answer where it is looked for, why may a v2 sender give up, and is an Original encrypted in time however late it arrives? | holds |

The violated runs each state what the repository says of itself and are explained
under `findings`:

- *Resume after check 3* (`app/v2.rs:262`): the inputs are marked as seen before anything
  is answered; a resumed receiver finds the same Original in its mailbox and refuses
  it.
- *All receive sessions cleared* (`db/v2.rs:32`): the first session that replies removes
  the others from the database.
- *Refusals* (`receive/v2/mod.rs:262`): an error goes to the mailbox the receiver itself
  reads.
- *Added outputs* (`receive/v1/mod.rs:342`): an output added at random may come before the
  payee's and be taken for it; with substitution disabled the sender rejects.

A lost wake-up (`db.rs:106-116`) is no finding but a named window of the `directory` run: a
message stored and announced between a peek's first GET and its SUBSCRIBE leaves the
peek asleep, a v1 sender waits out its time and is told that the receiver is offline; v2
clients poll again and recover (`PollDelivers`).

What the `exchange` run says by its exceptions is worth knowing too.  `OpenedIsMine`: a
sender may open a proposal for an Original that was posted in the clear to the same
mailbox.  `extract_proposal_from_v2` keeps the reply key before it parses
(`receive/v2/mod.rs:156`) and nothing resets it, so that a caller which polls on, after an
Original that does not parse, a refusal or a failed answer, answers the next v1 Original to
that key; such a proposal is never for anybody's encrypted Original.  `FailureExplained`: a
v2 sender is rejected after a restart of the directory (`init_ohttp` makes a new key at every
start) or where the directory's URL leaves no room for a message, finds a directory at a
path serving nothing (`handle_v2`), and cannot open what it finds where short ids collide;
the states of a lost request, of an error of redis and of a proposal it refuses are its
own, and have no reason to name.  `UriAgrees` exempts a directory's URL whose fragment has a
parameter twice or its prefix inside another part (`url_ext.rs:117`): with `XOH1..+OH1..` the
code cuts the first part and reads the second, which is stale; both kinds of URL are among
those of the run.

`AcceptableProposal` says when "a proposal the sender will find acceptable" is true, and
`ProposalAccepted` proves it; what it exempts is itself worth knowing, and each exemption
is a definition of `Negotiation`.  Whatever the sender's policy: a rate above the
Original's (`RateAboveOriginal`), a fee that `apply_fee`, which looks for the fee output by
its script, takes from another output with that script (`FeeFromAnother`), more valuable outputs without an input (`Uncovered`), and an
Original that pays several of the receiver's outputs, one of which the sender takes for its
own.  With substitution disabled also: a payment which `apply_fee` cut below the Original's
(`PaymentCut`), and another output of the receiver's in the payee's place before one that
does pay the payee (`NewOutputForPayee`).  The last is the finding above; it is stated by
positions, not by scripts, because the receiver may well add an output that pays the
payee's own script less: the proof does not go through for a property that counts every
output to that script as the payee's, and the Original replaced by two outputs to it is
the counterexample (it is among the replacements of the run).

### Bounds, and why they are enough

- `directory`: two tasks on one subdirectory, with requests of every kind, one after
  another on each.  Columns and subdirectories never interact except through a
  task's own reads and writes, and a lost wake-up takes one reader and one writer.
  There is no symmetry reduction, which liveness does not admit; `polling` has three
  tasks, and the safety properties and the refinement are proved for any number.
  `MaxUnread = 1`: a further notification finds the subscriber already due to read.
- `sessions`: two sessions, two coins, Originals that share one or both, one
  interruption of the receiver and of each sender: a claim on a coin conflicts with
  one other, and a resume needs one crash.  One of the two may expire (`Expiring`), by each
clock at any time: a coin that both Originals spend is then claimed by an expired and by a
lasting session.  `sessions_sender` allows two crashes and two
  keys, so that a reply to a forgotten key would show.
- `http_receiver`: three POSTs, two Originals that share one, both or no coins, and a third
  that is malformed or an earlier proposal, with what it states of the coin the receiver
contributed true or not, every `form` of a request among them, one
  coin of the receiver's, so that proposals contend for it, and one crash.
- `sender_checks`: three Originals, with the payee first, last and in the middle,
  against all lists of up to three inputs or outputs from a set that has every
  kind each arm tells apart, too low, equal and high.
- `negotiation`: five Originals (change before and after the payment, change on both
  sides of it that is too small for the fee, with one script, so that the fee output has a
  double, two inputs and no change, and two outputs of the receiver's), each with every
  offer of the builder for one maximum, five replacements (raised, with another output, with a second output to
  the same script, split, lighter), coins of two sizes, rates below, at and above the
  Original's.  Values are small so that every rounding boundary and every underflow
  guard is reached.  `MaxReplacements = MaxContributions = 2`: a second call is where the
  methods could disagree about the first.
- `exchange`: the constants hold two receivers and two senders, and `MCBound`, the
  constraint of the run, says how much of them is explored.  Where all keys are hashed to one
  id, so that every message reaches everybody (`MCOneMailbox`), it is two exchanges, at most
  one of them of v1 (`MCTwoExchanges`), or two senders that know one receiver and may post what does
  not parse.  There the directory is at the root and the
  clock stands still.  Everywhere else (`MCOneExchange`) it is one receiver and one sender: their
  short ids are different, alone or shared with keys that are not in use, or
  the same; and the directories are two at the root with an old
  OHTTP key in the fragment, alone or twice, one where the key's prefix stands inside
  another part before it (`OtherKeys` are what such parts begin with), one under a path, one
  whose URL leaves no room for a message (`framing` is what it adds to a request), and one
  that is not secure.  An Original is the largest that can be padded or one that cannot.
  A second is two ticks and time starts in the middle of one, so that the rounding of an
  expiry shows; a session ends at once, outlasts a tick, or would last longer than the clock
  can say.  `MaxEvents` allows two ticks or restarts: an expiry between the building
  of a request and its arrival, and a restart after it.  A proposal fits a v1 answer too, is
  the largest a v2 answer takes, or is one byte longer.  The symmetry of the run is sound
  because actions, properties and `MCBound` treat all receivers alike, and all senders; only
  the initial states name them.  The proofs need none of these bounds.

Runs that say `CHECK_DEADLOCK FALSE` model programs that end: a negotiation or a check
that has its result, sessions that are over, POSTs that are answered and exchanges that
are done.

### Fairness

`Directory`: weak fairness of each task's progress and timer, since tokio polls every
ready task and every timer expires.  Clients owe nothing, except in `Polling`, where
the loops have no exit but an answer.  `Sessions`: weak fairness of running tasks and
of `resume`, the latter because the promises checked are about what happens if the user
resumes.  Nothing is assumed of crashes, expiry, or new sessions.  `PromptRedis`
restricts two runs to timers that only fire in a wait: a timer that fires before
redis has answered at all would trivially refute both.

## 4. Proofs

| Theorem | Module | For every number of tasks, sessions, coins and every PSBT |
|---|---|---|
| `TypeCorrect`, `WakeupLost` | `DirectoryProofs` | `TypeOK`, `WakeupLostOnlyInWindow` |
| `DirectoryImplementsMailbox` | `DirectoryProofs` | every step of `Directory` is one of `Mailbox` or a stutter |
| `PollersAreClients`, `PollersUseMailbox` | `DirectoryProofs` | every behaviour with polling clients is one of `Directory`, so both results above hold of it |
| `TypeCorrect`, `OneReply`, `PaidSeen`, `SendKept` | `SessionsProofs` | `TypeOK`, `OneReplyPerCoin`, `PaidCoinsAreSeen`, `SendSessionsKept` |
| `TypeCorrect`, `NoReentry`, `OwnersBar` | `HttpReceiverProofs` | `TypeOK`, `NoReentrantPayjoin`, `BarredByItsOwner` |
| `TypeCorrect`, `SpendsOurInputs`, `KeepsOutputs`, `LosesAtMostOffer` | `SenderChecksProofs` | `TypeOK`, `AcceptedSpendsOurInputs`, `AcceptedKeepsOutputs`, `SenderLosesAtMostOffer` |
| `TypeCorrect`, `SenderPaysOnlyTheFee`, `ReceiverLosesOnlyTheFee`, `RateIsKept` | `NegotiationProofs` | `TypeOK`, `SenderPaysAtMost`, `ReceiverKeepsValue`, `FeeRateKept` |
| `AcceptanceHolds`, `ProposalAccepted` | `AcceptanceProofs` | the invariant of both walks, and `AcceptableProposal` |
| `FragmentRead` | `ExchangeProofs` | what is set in a clean fragment is what is read from it, and in any other it is a value that was set for that parameter |
| `TypeCorrect`, `OpenedMine`, `WorksOnOwn` | `ExchangeProofs` | `TypeOK`, `OpenedIsMine`, `WorksOnItsOwn` |
| `UriCorrect`, `AnswersFound`, `FailuresExplained`, `SealedInTime` | `ExchangeProofs` | `UriAgrees`, `AnswerIsFound`, `FailureExplained`, `EncryptedInTime` |

The assumptions are the named ones of the modules (`DirectoryAssumption`, `PollingAssumption`,
`SessionsAssumption`, `HttpAssumption`, `WeightsAssumption`, `SenderAssumption`,
`ProposalAssumption`, `OriginalsAssumption`, `PjUriAssumption`, `WireAssumption`,
`ExchangeAssumption`, `DirectoriesAssumption`): the constants have their types; the parameters of a receiver's that a directory's
URL has already are well formed, alone or twice and with any other parts around them
(`DirectoriesAssumption`); and a response's framing leaves room for a message, while a request's,
which holds a URL, may not (`WireAssumption`).
`OriginalsAssumption` says what a receiver may count on when `Proposal` starts: check 1 lets no
transaction without inputs through, check 2 none that states an input from the receiver's
wallet, which is every one for an honest sender; and
what the receiver puts in place of its outputs, the script that drains among them, is not one
of the sender's.  The last is the receiver's to see to: `replace_receiver_outputs` finds
`change_vout` by the drain script (`receive/v1/mod.rs:344`), so that with a script the sender
uses too, the receiver's fee could come out of the sender's output.

- *`WakeupLost`*: the property is inductive with `TypeOK`.  Only `Set` can put a message
  where a task sleeps, and then the announcement is pending; only `Publish`, a failure
  or a drop ends that, and each either fills the inbox or marks the task as having
  missed it.
- *`DirectoryImplementsMailbox`*: the map keeps `store`, `call`, `data` and `status` and reads
  the stage of a request off its `pc` (`Stage`).  `Set` is the write, `Get` or `ReGet` the read,
  `Finish` closes, and everything else stutters.
- *`PollersAreClients`*: a poller is a client that asks for what it asked before.  That this
  is a step of `Directory` needs `Asked`: a task past its first request still holds a request
  that a client may make.
- *`OneReply`*: `replies[c] <= 1` is not inductive.  `ClaimsExclusive` adds that a coin
  which some task holds claimed (it passed check 3 and has not replied) is seen and
  not yet replied for, and that no two tasks hold the same one; the step that
  inserts makes a claim only for a coin nobody had seen.
- *`PaidSeen`, `SendKept`*: `OriginalsAgree` adds that what a session's task, mailbox and
  sender call its Original are the same coins, so that the proposal a sender signs is for
  the coins that the receiver inserted.
- *`NoReentry`, `OwnersBar`*: `ClaimsExclusive` again says that what tasks have inserted
  themselves is disjoint.  Check 2 is not what bars a proposal that is posted again, for it
  believes what the request states of its inputs; such a request also spends the coins
  of the Original that was answered, which check 3 has seen.  `ChecksPassed`
  ties the order of the checks to the database: what check 3 inserts belongs to an
  Original that checks 1 and 2 let through, a coin of the receiver's to one that did
  not state it.  `StagesAgree` is what types need: a sender
  holds a proposal only if its POST was answered with one.
- *`SpendsOurInputs`, `KeepsOutputs`*: `InputsInv` and `OutputsInv` say of the walks that
  there is an order-preserving matching of the first `next - 1` elements of the
  Original into the first `at - 1` of the proposal; each arm extends it by one pair
  or by an unmatched element.  The fee output is matched once, so what it loses
  (`feePaid`) does not disturb the outputs matched before; `FeeInv` ties it to the fees.
- *Sums* (`TransactionsProofs`): `Total` is a fold, and a fold is a function chosen on the
  subsets of an interval.  `NatSetInduction` (a set with 0 and all successors is `Nat`) is
  derived from well-foundedness, `FoldExists` shows that the chosen function is there, and
  `SumOfInsert`, `SumOfAppend`, `SumOfChanged`, `SumOfSame` and `SumOfPlus` say what a sum does as its
  sequence changes.  `ValueSet` collects this for an output whose value is set.
- *`LosesAtMostOffer`*: `LossInv` says of the walk over the outputs that what the proposal has
  paid so far to the sender's scripts is at least what the Original had paid them up to
  `next`, less `feePaid`: an unmatched output only adds, the fee output takes away what `feePaid`
  gains, and the payee's pays neither.
- *`NegotiationProofs`*: the three properties are about a finished proposal and are not
  inductive.  `NegotiationInv` adds what holds on the way: `Terms` (what the receiver reads is
  what the builder offered), `Settled` (`change_vout` is not the sender's output, the output that
  pays the contribution is, and all the sender's scripts are still there, so that `apply_fee`
  finds it and the two subtractions hit different outputs) and `Balanced` (the sender is paid
  what the Original pays it; the inputs are worth the Original's and what was contributed;
  the outputs are worth what was chosen, capped at the Original's once inputs cover the
  rest; the fee has not fallen).  `InsertedSteps` and `InsertedAll` turn the fold over random
  positions into one insertion at a time, `ReplacedAre` the loop of `replace_receiver_outputs`;
  `FeesTakenAre` has the two subtractions of `apply_fee`.  TLC checks `NegotiationInv` on the instance
  of the `negotiation` run.
- *`ProposalAccepted`*: the greedy walks of `SenderChecks` meet a PSBT that was filled at
  random positions.  `Embeddings(n, m)` are the ways to place n elements among m in order, and
  `AcceptanceInv` keeps such an embedding of the Original's inputs and outputs through every
  method of the receiver (`Fits`): `InsAt` says that no other input spends one of the
  Original's coins, `OutsAt` that no other output pays one of the sender's scripts, and that a
  sender's output is worth what it was but for the fee output.  `SpreadInsert` is the one
  insertion all shuffles are made of; `FeeOutputFound` says that `apply_fee`, which looks its
  output up by script, finds the one whose index the sender gave.  A finalised PSBT is
  `Answered`: the conditions of the basic checks, and of `check_fees` on rate, fee and
  contribution (`OursWeigh`: the inputs that spend the sender's scripts weigh in the
  proposal what they weigh in the Original, signed or not), with `InputsWalked` and `OutputsWalked` for the walks.  The walk
  over the inputs follows the embedding exactly.  The walk over the outputs does so up to
  the payee's, for which it takes the first output in its place: where that is another one
  and substitution is disabled, the case is `NewOutputForPayee`, and where it is not, the walk
  goes on past it (`WalkedPast`).  With this, each rejecting arm of each check is shown to need
  one of the exemptions.  TLC checks `AcceptanceInv` on the instance of the `negotiation` run,
  too.
- *`FragmentRead`*: `ClearedPlaces` says where the parameters are once one was taken out, by
  `CutPart` for the part it was found in, and `SetPlaces` that a parameter which is set is
  there, with its value alone if what was there could be read, and the others are what they
  were.  That needs `Readable`: what `set_param` finds first is what `get_param` reads.
- *`ExchangeProofs`*: `SenderStep`, `ReceiverStep` and `BoxStep` say once what the eighteen
  actions do to one sender, one receiver and the mailboxes; the invariant is preserved by
  those.  `UriInv`: what a sender has read stays what its receiver has, and it encrypts only
  before the expiry it has read.  `ReceiverInv`: the reply key a receiver holds, from
  whatever state it polls on, is of a sender with its URI; the Original it works on is that
  sender's or was posted in the clear to its mailbox; and it works only where the directory
  serves the root.  `MailInv`: a message in a mailbox is from where it says, and was meant for
  this mailbox.  `OwnBox`: nothing but answers to it reaches a mailbox that is a sender's
  alone.  `AnswerInv`: an answer stays where it is, in either column.  `FailureExplained` is
  inductive with these: the key a URI has is no newer than the directory's, so that once they
  differ no restart brings it back.  Each property follows from the invariant; none is
  inductive by itself.

Only model-checked: the liveness properties (`EveryRequestEnds`, `PollDelivers`,
`SenderCompletes`), which are out of the prover's reach under fairness.  Every safety property
of every passing run is proved.  The weights by script type and the value of the coin that
an input spends are constants and fields here: nothing is shown of the code that looks
them up.

## 5. Not modelled

Cryptography (HPKE, OHTTP) beyond who may open what; the alphabets and encodings of
URIs, with GET `/bip21` of the v1 server; the texts of errors (so
also that the v1 server answers with them and not with their JSON); configuration
and wallet RPC; `merge.rs`, which nothing calls.  `PROJECT.json` gives the reason for each
component.  Some hazards of code that is modelled have no property, with the reason
given beside them: the sender's endless poll, and the privacy fall back that finds
its candidates used up.  That two receive sessions may contribute the same coin is
listed with the v1 server, where `NoReentrantPayjoin` allows it.  Two texts are not
the JSON a sender expects (the v1 server's refusals and the directory's answer for
a receiver that is offline, modelled as `Unavailable`): no property is about them.

## 6. Plan

Built so far, in this order because the mailbox carries everything, the sessions
are where interruption bites, and the negotiation is where money is lost:
`DirectoryCalls`, `Mailbox`, `Directory`, `Polling`; `Sessions`; `HttpReceiver`; `Transactions`, `SenderBuilder`,
`SenderChecks`, `Proposal`, `Negotiation`; `PjUri`, `Wire`, `Exchange`; and the proofs listed above.

To extend the model:

1. `Sessions`: the fallback broadcast of an Original, which spends coins the receiver
   may not have seen, and the wallet's coins, as in `HttpReceiver`, so that two
   sessions can contribute the same one.
2. A run where `Sessions` reads real mailboxes of `Directory`, to check that nothing of
   the composition depends on atomic boxes.

To prove: no safety property of the runs is left.  What an extension by 1 needs first is
`BarredByItsOwner` of `HttpReceiver` for the coins of `Sessions`; by 2, `PollersUseMailbox` is the step
that lets the boxes of `Sessions` stand for those of a directory with pollers.
