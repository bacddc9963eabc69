# Verification of nestdaq-user-impl

TLA+ specifications of the devices of `nestdaq-user-impl`, the user side of the
NestDAQ data acquisition: what they do with the data between the front-end
modules and the file, checked with TLC on small instances, and in part proved
with TLAPS for every instance.  Paths below are relative to the root of the
repository (`src/` here stands for that root).

## 1. The system

Every program is a FairMQ device: one thread that runs `InitTask`, `PreRun`, a
handler (`OnData`) or `ConditionalRun` until a stop is requested
(`NewStatePending()`), and `PostRun`.  The devices are connected by channels of
bounded length; a full channel makes the sender wait, time out or drop.

```
front-end module --TCP--> AmQStrTdcSampler --> STFBuilder --+
front-end module --TCP--> AmQStrTdcSampler --> STFBuilder --+--> TimeFrameBuilder(s)
                                                                   |
       FileSink <-- FilterTimeFrameSlice* <-- Slicer <-- LogicFilter
```

| component | state | operations | what makes it correct |
|---|---|---|---|
| `AmQStrTdcSampler` | socket, receive buffer | `ConditionalRun`, `receive`, connection, life cycle | the words of the stream, whole, each once and in order; it stops |
| `STFBuilder` (one per module) | kept words, delimiter flag, counter, STF in the making, output queue | `BuildFrame`, `FillData`, `FinalizeSTF`, `HandleData`, life cycle | frames cut at delimiters, nothing reordered, the id of an STF is that of its heartbeats, it stops |
| `TimeFrameBuilder` (several) | buffer of STFs by time frame id with arrival times, round-robin direction, metrics | `ConditionalRun`, `SendTimeFrame*`, life cycle | a complete time frame has every module once; nothing sent twice; entries leave; it stops |
| `LogicFilter`, `fltcoin` | trigger expression and its table, bit maps of hits, the time frame in hand | parse, tabulate, mark, scan, send with the lists | the table is the expression; the trigger times are its rising edges; the headers tell what follows |
| `TimeFrameSlicerByLogicTiming` | reused containers of frames, an index per module, slices | parse a message, sort, slice around trigger times, send | exactly the words in the window, however windows overlap; nothing of an earlier message is read |
| `FilterTimeFrameSlice*` | histograms | accept or drop a slice | whole slices only |
| `FileSink`, `TaskProcessorMT` | counters, worker and merger threads, their channels | handlers, `CompressData`, `WriteData`, life cycle | the messages of the run, in order, between header and trailer |
| `FileUtil` | open file, branch number, sizes of the branches | `Open`, `Write`, `Close`, `ClearBranch` | branches put together give the data; none overwritten |
| file players | read position | read blocks and send | what was written is what is sent |
| `Scaler`, `ScalerSQ`, `InputRegister` | counters | count, publish | every heartbeat counted once |
| monitoring, displays, `tfdump`, `uhbook` | histograms | fill, print | no protocol of their own |
| `sqlite/` | | | vendored |

Hard to test: what happens when a channel is full at the moment of a stop, when a
timeout races with the last STF of a time frame, when a message is cut between two
delimiters or a word of a delimiter pair is lost, when a run follows a run that
ended in an unusual way, and the threads of FileSink in all their interleavings; of
the trigger, the borders of times that are unsigned, windows that overlap or touch, and
frames that are shorter or longer than the one before in containers that are reused.
`PROJECT.json` lists these hazards at their lines.

## 2. The modules

| module | models | built on |
|---|---|---|
| `TimeFrameBuilder` | `TimeFrameBuilder.cxx` | |
| `SubTimeFrameDelivery` | abstract: what a time frame builder promises | |
| `TimeFrameBuilderProofs` | theorems about `TimeFrameBuilder`: types, scan, depth limit, lost counts; where an STF is; whole time frames; `TimeFrameBuilder` implements `SubTimeFrameDelivery` | `TimeFrameBuilder`, TLAPS |
| `STFBuilder` | `STFBuilder.cxx` | |
| `STFBuilderProofs` | theorems about `STFBuilder`: types, delimiters, throttling, boundaries; the words of the sub time frames: order, one run, no gap | `STFBuilder`, `SequenceLemmas` |
| `SequenceLemmas` | lemmas about sequences and about `FlattenSeq` | TLAPS |
| `FileSink` | `FileSink.cxx`, `utility/TaskProcessorMT.cxx` | `FileUtil` |
| `FileSinkProofs` | theorems about `FileSink` and `FileUtil`: order, framing, one run, branches, types | `FileSink`, `SequenceLemmas`, TLAPS |
| `FileUtil` | `utility/FileUtil.cxx`, as operators | |
| `LogicExpression` | `LogicFilter/infixtorpn.cxx`, `LogiCalc.cxx`, `TriggerMap.cxx`, as operators | |
| `LogicExpressionProofs` | theorems about `LogicExpression`: the parser accepts the grammar and little more, the table is the meaning | `LogicExpression`, `SequenceLemmas` |
| `LogicFilter` | `LogicFilter/LogicFilter.cxx`, `Trigger.cxx` | `LogicExpression` |
| `TimeFrameSlicer` | `TimeFrameSlicerByLogicTiming.cxx`, `FrameContainer.h` | |
| `TriggerChain` | the filter and the slicer behind each other | both |
| `TimeFrameSlicerProofs` | theorems about `TimeFrameSlicer`: types, slices, failures | `TimeFrameSlicer`, TLAPS |
| `TriggerChainProofs` | theorems about `TriggerChain`: types, the chain implements the slicer, regular frames, the table, trigger times | `TriggerChain`, `TimeFrameSlicerProofs`, `LogicExpressionProofs`, `SequenceLemmas` |
| `Sampler` | `AmQStrTdcSampler.cxx` | |
| `SamplerProofs` | theorems about `Sampler`: types, whole words | `Sampler`, TLAPS |
| `MC*` | values for TLC: symmetry, sets of files, flags | the module named |

### TimeFrameBuilder

The device is one thread; it is cut where the rest of the system can act in
between.  `pc` tells where it is: `ready` (no run), `loop` (FairMQ is about to call
`ConditionalRun`), `receive`, `scan` (the loop over `fTFBuffer`; `todo` are the
entries still to visit), `decimate`, `decimatorBusy` and `send` (inside
`SendTimeFrameToEvery`, `outParts` being the time frame), `report`, and `drain`
(`PostRun`).

* `ReceiveSTF`, `ReceiveNothing`: the receive of 1 ms, lines 394-423.
* `VisitComplete`, `VisitTimedOut`, `VisitWaiting`: an entry of the buffer, 425-494.
  The order of the visits is any order, as that of an `unordered_map`.
* `Evict`, `KeepAll`: the depth limit, 496-537.
* `Decimate`, `DecimatorInterrupted`, `SendSucceeds`, `SendBlocked`,
  `SendInterrupted`: 293-385; every attempt to send is a step.
* `Report`: 539-602, the counters that are reset with it.
* `DrainOne`, `DrainNothing`: `PostRun`, 735-754.  `nrecv` counts the receives that found nothing, over the whole of
  `PostRun`; with one more than `DrainTries` (10 in the code) the device is `ready`, whatever the sources do.
  Whether they may still send then is the constant `StopsInTime`, see the assumptions in section 3.

The clock is the age of each entry: `Tick` adds one to all of them at any moment, and
ages above the timeout are alike.  So a send that blocks makes entries time out in
the middle of a scan, as in the code, where every visit reads the clock.

`SubTimeFrameDelivery` says what this amounts to, without buffer, scan, clock or
thread: every STF has one fate.  `DeliverySpec` is that specification under the
mapping `FateOf`.

### STFBuilder

A step of `BuildFrame` is one word, each branch of the loop an action; `segment` is
the piece of the message between `offset` and the word, `fInputPayloads` what is
kept from earlier messages.  The stream of the module is the sequence of numbers
1, 2, ...; `KindOf` and `BeatOf` say which of them are delimiters and of which
heartbeat.  The sampler cuts it into messages of any length up to `MaxMessage` and may
lose up to `MaxLost` words.  The sends of `HandleData` are a step per attempt.  The copy for monitoring is sent before,
without a timeout: it waits in `copy` until monitoring takes it (`CopySent`, a step of the environment) or a stop interrupts
it (`CopyInterrupted`); without such a channel `NoCopy` goes on at once.

### FileSink

Three kinds of processes: the device thread (`pc`), `NThreads` workers (`working` is the
message that a worker is compressing) and the merger.  `splitter` and `merger` are the
in-process channels to and from each worker.  A worker or the merger ends (`alive`)
when it sees `newState` at the head of its loop.  Without worker threads (`fWorker` false; `ThreadModes` is what a
configuration may say, read by `InitTask`) the handler itself writes: in `copy` it sends the message to monitoring, if there is
such a channel (`Monitoring`), which has no timeout and ends as in `STFBuilder` (`CopySent`, `CopyEnds`), and then writes it (`WriteCurrent`).  `fStopRequested` is the flag that
`WriteData` sets at `max-iteration`.  `fFile` is the object of `FileUtil` with the disk; `file` is a
ghost, the sequence of the writes since the file was opened, which the branches have to add up to.

### FileUtil

Operators, no variables: each method is a function from the object, a record with the disk as
one of its fields, to the object.  FileSink's `PreRun`, `Put` and `CloseFile` are the callers.
The field `status` leaves "ok" where the code throws or has no defined behaviour.

### LogicExpression

The recursive descent of `infixtorpn` is one recursive function `Parse` of the calls (`Call`: the rule and what it begins
with), the functions of the code being the cases of `Rule`; a result is a node, of which its reverse Polish form is kept, the
null pointer or an exception.
`Commands` and `Calc` are the filtering and the stack machine of `LogiCalc`, each a walk through the commands, `MakeTable` the
enumeration of `TriggerMap`, with one bit for each signal up to the highest of the expression.
The reference is the grammar: `Readings` are the sets of combinations of signals that an expression can stand for as a sum,
where every "|" and "&" of the expression is tried as the outermost one, without a parser and without precedence built in.
An expression is `WellFormed` if it has a reading, and its `Meaning` is that reading.

### LogicFilter

One thread again; `filter` tells where it is.  `InitTask` makes the table (or throws); `Receive`
stands for the handling of a whole time frame up to the sends, which nothing can interrupt:
`Region` is the marking (`Trigger::Mark`, with the delay and the width and the unsigned arithmetic
of the code), `Scan` the search for rising edges, `NumBlocks` the numbers of heartbeat frames that all
modules have, `OutParts` the message, with the blank frames and rewritten headers of `data-suppress`.
Where the code reads flags beyond the end of an array, `junk` is anything.

### TimeFrameSlicer

`slicer` is "hbf" in the loop over the heartbeat frames, "cut" in the loops over triggers, modules and
words; `Skip` and `Take` are one turn of the innermost loop, `NextSource` its end, with the
index set back to `iKeep` if the next window overlaps, `NextTrigger` and `EndHBF` the ends of the
others.  Receiving grows `fTF` and `fLF` as the code does; whatever a container has that the
message in hand has not set is stale, and reading it is `Collapse`: to "failed" where `at()` throws,
to "undefined" where a pointer of a message that is gone, or none, is followed.  `std::sort` is not
stable, so that `Orders` are all orders by time.  `Arrive` allows every message of the form
`Messages`; this is the specification that is proved about.

### TriggerChain

Filter and slicer share the variable `link`.  `ImplementsSlicer` says that the slicer with this
filter before it is the slicer of `TimeFrameSlicer`: what the filter sends has the form of a
message, its lists ascend and its times are those of words.  So the theorems about `TimeFrameSlicer` hold in
the chain.

### Sampler

The bytes of a run are numbered, `pos` of them the module has sent, `taken` have been returned
by `recv`, in portions of any size.  The receive buffer is its first byte and its length; a receive
ends with the buffer full, with whole words after a timeout, or with an error, as in `receive`
and the loop around it.  The connection may be refused, closed or reset.

## 3. The runs

| run | question | bounds |
|---|---|---|
| `TFBCore` | are time frames assembled correctly, whatever times out, is evicted or comes late? does the builder implement `SubTimeFrameDelivery`? | 2 modules, 2 ids, depth limit 1, 2 destinations with room for 1, discard |
| `TFBLive` | do entries leave, does the device receive again and again? | no depth limit, timeout of one tick, slow consumers |
| `TFBStop` | does a stop always end the run, and does anything of one run get into the next? | 2 runs of one id each, incomplete time frames dropped; consumers and decimator may stop for good; the sources have stopped when `PostRun` leaves |
| `STFCore` | framing under loss and arbitrary cuts | 5 heartbeats of 3 words, 2 words lost, frame ids modulo 4, messages up to 3 words |
| `STFLive` | does it go on with full outputs, does it stop, are kept words dropped between runs? | 2 runs, 2 destinations that may stop for good, monitoring channel |
| `TRGChain` | is the table of a trigger the expression, are the trigger times its rising edges, are the slices the windows, does an odd frame harm the next one, does the filter keep to what the slicer takes? | all expressions of up to 4 tokens and some longer ones; 3 signals of 2 modules, one with a positive and one with a negative delay; width 2; times up to 11, with hits that mark the first and the last bin, or lie before and behind the region; window from -3 to 2; one or two heartbeat frames with up to 3 words each; 2 time frames on their way |
| `SMPCore` | do words stay whole, is every word handed on, does a stop end the run? | 2 runs of 6 bytes, words of 2, messages of 2 words, a builder that takes one at a time |
| `FSCore` | order, framing and branches of the file under all interleavings; the stop; that what is received is written | 2 workers or none, chosen anew with every `InitTask`; a monitoring channel that need not take anything; channels of length 1, an input of length 2 and as many receives in `PostRun`, 4 messages of lengths 1, 2, 4, branches of 3, 2 runs, files left from before |

The instances are small but hold the interesting cases: two modules are enough for
an entry to be complete, short by one, or late; two ids make one entry older than
another and reach a depth limit of one; with channels of length one every sender meets
a full channel.  Five heartbeats with `max-hbf` 2 and ids modulo 4 contain a wrap, two
whole STFs and a skipped beginning.  In `FSCore` `DrainLimit` is the
length of the input channel, half of the number of messages, so that `PostRun` does leave after its last receive; the senders have stopped by then
(`StopsFirst`).  The property `WrittenInOwnRun` depends on both, see Divergences.  One id per run is
enough in `TFBStop`: the ids of every run begin anew, so that it is the same id that two
runs could mix.  In `TRGChain` the times are chosen so that hits coincide, just coincide and just
miss, and windows are apart, touch, overlap and begin before time 0; the expressions are only
tabulated, time frames come with one of them (`StartedWith`), since the scan depends on the table
alone.  A second time frame is sent while the first is on its way only from a small set
(`FewFrames`).  `MaxFilterRuns` and `MaxSlicerRuns` are 1: the filter keeps nothing from run to run, and the
slicer only the containers, which a second message of the same run meets as well.  The chain is
checked for safety only; its loops are bounded by the message in hand.

`CHECK_DEADLOCK FALSE` is in every configuration because the runs are bounded: after
the last run, or with all ids used, nothing remains to be done.

### Runs that fail on purpose

Each of them shows a place where the code does something other than its
documentation says; `PROJECT.json` quotes both.

* `TFBDecimator`: the decimated channel is polled once, before the loop that waits
  for it.  If it is busy then, the device waits until the run is stopped.
* `STFDelimiters`: kept words of a skipped heartbeat frame are put before the next one.
  This needs no loss, only a message cut inside the first heartbeats of a run.
* `TRGSuppressed`: with `data-suppress` the headers of sub time frames tell fewer heartbeat frames
  than follow, because the blank frames are sent but not counted; the flags are looked up at the wrong places
  besides (`LogicFilter.cxx:1288`).
* `FSTrailer`: a run ended by `max-iteration` has no trailer and its file is not closed.

### Divergences

One of them is a fault that deserves attention before all others, although no document says otherwise, so that there is no
claim for a run to refute:

* `TimeFrameSlicerByLogicTiming.cxx:464`, `:520`, `:140`, `:194`: the slicer follows pointers that are stale or were never set.  The
  containers `fTF` and `fLF` are kept from message to message and only grow; `ParseMessages` sets the entries that the
  message in hand has, and `ConditionalRun` then reads one of every source the containers have.  After an incomplete time
  frame (`output-incomplete-tf` of the time frame builder), in which a sub time frame is missing, the entry of that
  source holds the pointer into the message before, which has been freed, or none at all if it is the first; likewise for a module
  with fewer heartbeat frames than the last one (`fNumHBF` is that of the last), and for a number without a trigger list.
  In the model these are `Collapse` and the state `undefined` (or `failed`, where `at()` throws), which nothing leaves; the run
  `TRGChain` reaches it with the frames of `Irregular`.  `RegularFramesAreSliced` and `FailsOnlyOnIrregular` say
  that it takes such a frame, and nothing is said of the frames that come after it.

Other places where the models, read off the code, do not do what the options or the
documentation say.  They follow from single lines and have no run of their own.

* `TimeFrameBuilder.cxx:382`: the count of successful time frames includes the incomplete and
  the discarded ones.
* `STFBuilder.cxx:236`: with `split` other than 0 the first STF has `max-hbf` + 1 frames.
* `FileSink.cxx:610`: with several writes per message the count steps over `max-iteration`.
* `FileSink.cxx:292`: after `max-iteration` the threads are not joined; the next `InitTask`
  destroys them (`pc = "terminated"` of the model).
* `FileSink.cxx:233`: `HandleMultipartDataMT` repeats its send for ever once the worker has
  ended (`StopEndsRun` needs `Multipart = FALSE`).
* `FileSink.cxx:96`: a worker whose send to the merger times out drops the message and goes
  on, which puts the round robin of the merger out of step with the workers
  (`WrittenInOrder` and `ReceivedIsWritten` need `SlowWriter = FALSE`).
* `FileSink.cxx:337`: `PostRun` leaves its loop at the first receive that finds nothing (346, 355), and after ten
  messages in any case; what is left, or comes later, is in the next file.  `WrittenInOwnRun` holds if the senders have stopped before
  `PostRun` receives (`StopsFirst`) and no more messages can wait in the input channel than it receives
  (`InputHWM <= DrainLimit`).  TLC finds it violated in `FSCore` without either, with `InputHWM = 3` as well as with `StopsFirst = FALSE`.
  The code guarantees neither: ten receives are far less than the default of FairMQ for the length of a channel.
* `TimeFrameBuilder.cxx:735`: `PostRun` leaves after eleven receives that found nothing, whether the builders have stopped or
  not.  An STF that comes later waits in the channel and is matched with those of the next run, whose ids begin anew:
  with `StopsInTime = FALSE` TLC finds a time frame of two runs in `TFBStop` at once (`CompleteFramesAreWhole`).
* `STFBuilder.cxx:389`, `FileSink.cxx:161`, `:208`: the copies for monitoring are sent without a timeout.  While that channel is
  full the device neither receives nor sends, also with `discard-output`, until a stop interrupts the send: `KeepsReceiving` of
  `STFBuilder` and `ReceivedIsWritten` of `FileSink` except exactly this.
* `utility/FileUtil.cxx:63`: the option `path` works for one file only; `:149`: the option
  `first-branch-number` has no effect; `:470`: a trailer that fills its branch leaves an
  empty file; `:307`: in the mode `create` a later branch that exists is not opened and the
  rest of the run is lost.

* `LogicFilter/TriggerMap.cxx:98`: a hit of a configured signal with a number above the highest of
  the expression makes the look-up fail, whatever the expression says: such a signal is a veto.
  `:49`: the table of an expression with signal 31 has size `1 << 32`, which is undefined.
* `LogicFilter/infixtorpn.cxx`: an expression that ends in an operator is accepted as what could be read of it.  (Tokens
  that are left over are not: `:148` throws.)
* `LogicFilter/Trigger.cxx:367`: `LogicFilter.md:4` says that a timestamp is added to the output whenever the expression is true
  at it; the code adds only the first time of each interval in which it is true, and that is what
  `TriggersAreRisingCoincidences` says.
* `LogicFilter/Trigger.cxx:360`: a trigger that is on from time 0 is not found, there is no time before.
  `:228`: hits within half the width of the end of the time region, or with a delay that makes them
  negative, are ignored.
* `LogicFilter/LogicFilter.cxx:1388`: `PostRun` does not empty the input: time frames that are left
  are the first of the next run.
* `TimeFrameSlicerByLogicTiming.cxx:227`: a trigger earlier than `-time-offset-begin` has a window whose
  beginning wraps around: its slice is empty, and so are the later ones of the heartbeat frame, as
  all words are passed.  `:231`: where a window begins exactly at the end of the one before, a word there is in
  the first only (`Touches`).  `:290`: a word without a time, read as the largest number,
  stops the walk before it begins (`Blind`).  `:373`: a message without parts, of a time frame without heartbeat frames, cannot be
  sent, and the loop tries until the run is stopped (`SendBlocked`).  `:356`: the send for monitoring is waited for without a limit.
* `AmQStrTdcSampler.cxx:362`: a timeout or the end of the connection in the middle of a word drops
  the bytes of it, and the rest of the run is cut at wrong places (`WordsStayWhole` and `WordsAreHandedOn` say: unless
  that has happened, `cutInside`).  `:51`: a connection that failed or was closed is not opened again
  before the next run, the loop goes on without waiting.  `:132`: the result of the send is not looked at: a
  message that a stop interrupts is lost.  `:374`: the bytes received before an error are lost.

### Fairness and assumptions on the environment

* Weak fairness of the device thread (`WF_vars(Device)`, `DeviceThread`, `Worker(w)`,
  `MergerThread`): the thread is scheduled; its waits are receives or sends with a
  timeout, so that it always takes a next step; the sends for monitoring, which have none, are no steps of it but of the environment (in `Sampler`, `recv` ends by `SO_RCVTIMEO`).
* Weak fairness of `Tick`: the clock goes on.  Of `Consume(d)` only where the property
  needs consumers (`TFBLive`; `SMPCore`, where the builder goes on receiving); for the stops of the other
  devices nothing is assumed of them.  Of `CopySent`, a monitoring device that takes its copy, nothing is assumed anywhere.  Of a module nothing is assumed: it may stop sending at any byte.
* Weak fairness of `StopUpstream`: the run control stops all devices of a run.
* What comes after a stop is an assumption of the properties that compare runs, a constant of the model so that its absence can be
  tried.  `StopsInTime` (`TimeFrameBuilder`): no STF is sent after `PostRun` has left and before the next `PreRun`.
  `StopsFirst` (`FileSink`): none is sent once `PostRun` has begun to receive; here `PostRun` leaves at the first empty
  receive, so that it has to be stronger.  The code guarantees neither, see Divergences; `TFBCore`, `TFBLive` and `FSTrailer` do without.
  In `STFBuilder`, `EndPostRun` assumes that the sampler has stopped by the last of its eleven empty receives.
* A module sends at most one STF per time frame id and run, with increasing ids
  (`SendSTF`); this is what `STFBuilder` does while its frame ids do not wrap.

## 4. The proofs

The theorems hold for all values of the constants that satisfy `ConstantsAssumption`: any
number of modules, ids, runs, sources and destinations, any timeout, depth limit and
channel depth, all options.  Two of them assume `NumSource = Cardinality(Fems)`, i.e. that
one peer is connected for each module: the device counts peers and messages, and cannot
know whether they are the modules.  Those that compare runs assume `StopsInTime`.  Each invariant used was an invariant of TLC before it
was proved, under the bounds of `TFBCore` and of `TFBStop`.

`TimeFrameBuilderProofs`:

* `TypeCorrect`: `Spec => []TypeOK`.
* `CompleteNeverWaits`: `Spec => []NoCompleteFrameWaits`.
* `IncompleteAreShort`: `Spec => []IncompleteFramesAreShort`.
* `DepthKept`: `Spec => []DepthWithinLimit`.
* `LostWithinFailures`: `Spec => []LostCountsWithinFailures`.

`NoCompleteFrameWaits` is not inductive by itself: an entry reaches `NumSource` by
`ReceiveSTF`, which makes `todo` all entries; the scan then has to keep the entries that
are complete in `todo` until it visits them, also while it sends another time frame and
`todo` rests.  `ScanInv` says so, and with it that `todo` is empty outside of the scan,
that what is being sent has the right size, and that an eviction happens only after the
scan.  `TypeOK /\ ScanInv` is inductive: `ScanNext` has one step per action.
`DepthInv` adds for the limit that only the pass which received an STF has one entry too
many, and that the send of an evicted entry comes after the eviction.
The lost counts are inductive with the types alone: a frame is given up by a time-out or an eviction, and both count it
once for the failures and at most once for each FEM.

The second half of the module is about the STFs:

* `NeverDuplicated`: `Spec => []NoSTFDuplicated`, with `StopsInTime`.
* `WholeFrames`: `Spec => []CompleteFramesAreWhole`, with one source for each module and `StopsInTime`.

They follow from `PlacesInv`, the conjunction of five invariants that are inductive only
together.  What a module sends next is new because its id is above all it sent in this run,
and nothing known is of a later run (`KnownInv`); the input channels hold STFs of the
current run with increasing ids (`InputInv`), and so does the buffer, which is empty after
`PostRun` (`BufferInv`): this is why the ids of a new run do not meet STFs of the last one.  That the channels are
empty in `ready` rests on the last receive of `PostRun`, which found nothing, and on `StopsInTime`.
From this an entry never gets a second STF of a module, and `NumSource` of them are one of
each (`FramesInv`, `OneOfEvery`); every step moves STFs from one place to the next
(`NoSTFDuplicated`).  The lemmas `Places...` treat one kind of step each.

* `KeepsItsPromise`: `Spec => DeliverySpec`, with one source for each module and `StopsInTime`.

For the refinement, `FateRead`: because the places are disjoint, the refinement mapping `FateOf` is determined
by the place an STF is in.  Then steps that move an STF between places where it is held are
stutters; a dropped entry, a drained channel and a given-up send are `Lose`; a successful
send is `DeliverWhole` or `DeliverPartial` (`Delivered`); `SendSTF` is `Accept`, `PreRun` is
`NewRun`.  The last two need `SendInv`: a time frame is sent in the run it was taken from
the buffer in.

`TimeFrameSlicerProofs`, for all windows, times, numbers of modules and of destinations, and all
messages of the form the filter sends, under `SlicerConstantsAssumption`:

* `TypeCorrect`: `Spec => []TypeOK`.
* `SlicesCorrect`: `Spec => []SlicesAreWindows`.
* `FailsOnlyIfIrregular`: `Spec => []FailsOnlyOnIrregular`.

Type correctness needs `Shape`: in the loops every module has sorted words and an index that does
not pass them.  `SlicesAreWindows` speaks of the slices made; what makes them right is `Windows`, an invariant
of the walks.  For each module behind the one in hand, its index may start the walk for this trigger
(`Starts`): all words before it are earlier than the window.  For the module in hand, the words up to
`iKeep` are earlier than the window, those from there to the index are in it and are `cut` (`Walks`).
For the modules before, the slice is right (`IsCut`) and the index may start the walk for the
*next* trigger.  The lemmas follow a walk: `SkipWalk` and `TakeWalk` are one turn; `NothingLeft` says that behind the
end of a walk no word is in the window, because the words are sorted; `EndWalkCut` and `EndWalkStart` that the
slice is right and that the index left, or set back where the next window overlaps, is a start for it, because the
triggers ascend.  Windows that touch without overlapping do not set the index back; `BorderPassed` carries
that the words at the common border are gone.  These lemmas are about sequences and numbers alone; `Windows...`
apply them to the steps, and `CutIsDue` goes from the sorted sequence to the set of words.

`FailsOnlyIfIrregular` rests on `Held`: from the receive to the last heartbeat frame the
containers are as long as the lists and the frames of the message in hand, whatever messages came before.

`STFBuilderProofs`, for all options, numbers of frames, words, destinations, losses and runs, and
messages of any length, under `STFConstantsAssumption`:

* `TypeCorrect`: `Spec => []TypeOK`.
* `FramesEndInDelimiters`: `Spec => []HBFsEndInDelimiters`.
* `ThrottlingMarked`: `Spec => []ThrottledIsMarked`.
* `BoundariesKept`: `Spec => []STFsBeginOnBoundary`, with split method 0.

The bound of the counter in `TypeOK` is not the same for the two split methods (`CounterOK`): with method 0 it
is always below `MaxHBF`, with the others it may reach it.  The delimiters rest on `Pending`: while a second
delimiter is awaited, the last word at hand is a first one, and `fdelimiterFrameId` and `fThrottling` are its own,
where the words at hand (`Kept`) are those kept from earlier messages and those of this one.  `EndOfMessage`, which
moves words from the one to the other, does not change them: this is the message cut between two delimiters.
`Framed` extends this to the frames in the making and to the finished ones, `FinishedStep` says that a step
finishes at most the sub time frame in the making.  For the boundaries, `Making` says that in a run the
counter is the number of frames gathered, and that the id was set with the first of them; outside of a run, between
`PostRun` and `PreRun`, the counter and the id are those of the last run, but there are no frames.

The second half of the module, with the same generality, is about the words themselves:

* `NeverReordered`: `Spec => []WordsInOrder`.
* `RunsNotMixed`: `Spec => []WordsOfOneRun`.
* `NothingDroppedWithoutLoss`: `Spec => []UnbrokenWithoutLoss`, under `WrapsOnBoundary`.

The words are numbered by their places in the stream, so order and gaps are statements about numbers.  `AllWords` is
every word the builder has or will get, in the order in which it will put them out: the words of the finished
frames (`Finished`: sent, in hand, waiting), those gathered for the next ones (`Gathered`: input, working, kept), the
rest of the message and what is on the wire (`Remaining`).  `Ordered` says that it ascends, up to `pos`.  A step
of the handler only moves the border between the parts, drops a piece (`OrderedWithout`) or, upstream, puts the next
word at the end (`OrderedLonger`): the kept words of an earlier message stand before those of this one, and this is
where a builder that appended them in another order would fail.

`OneRun` says which run each of these words belongs to: between `PostRun` and `PreRun` nothing is kept and the wire
is drained (`Places`); so the words not yet in a finished frame are of this run (`Fresh`), and so are those of the
frames finished in it (`Own`).

For the last theorem `Tracking` holds in a run as long as no word is lost.  The word in hand is the one that follows
the last one gathered (`Unbroken`); the flags that remember the delimiter agree with where the stream is
(`AtDelimiter`); the counter and the id agree with the number of the heartbeat (`AtBeat`).  So a frame is
skipped as off its boundary only before the first sub time frame of the run, and never between kept words.
TLC finds this false without `WrapsOnBoundary`: with split method 0 and a `max-hbf` that does not divide the 2^24 of
the frame id (3 and 4 in the model), a heartbeat frame at the wrap is skipped as off the boundary while the words kept before it
stay.  The code accepts every positive `max-hbf` (its default is 1): the assumption is one that the options of a
run have to meet, with any power of two for instance; the runs meet it (`MaxHBF` 2, `FrameIdModulus` 4).

`SequenceLemmas` holds what these proofs need of sequences.  `FlattenSeq` of the community modules is
a recursive function; `FlattenAppend`, `FlattenConcat` and the others are proved for all sequences by a least
counterexample (`LeastElement`, from the well-foundedness of the natural numbers), since an induction rule
takes an operator, which the provers cannot instantiate.  Where only the laws of concatenation matter, it has a
name of its own (`Cat`, `CatLaws`).

`SamplerProofs`, for words and messages of any size and any depth of the output:

* `TypeCorrect`: `Spec => []TypeOK` (of that module).
* `WordsWhole`: `Spec => []WordsStayWhole`.

As long as no byte was dropped, the buffer begins where what was handed on ends, at the border of a word, and
ends where what `recv` has returned ends (`Account`).  A send that a stop interrupts breaks this, but then no
receive follows in the run.

`FileSinkProofs`, for any number of workers, channels and messages, under `FSConstantsAssumption`:

* `FileInOrder`: `Spec => []WrittenInOrder`, if no worker's send to the merger times out while the merger
  lives (`~SlowWriter`); the limit on the writes may be any.
* `FramedWithoutLimit`: `Spec => []FileIsFramed`, without a limit on the writes (`MaxIteration = 0`); with one
  it is false, as `FSTrailer` shows.
* `FileOfOneRun`: `Spec => []WrittenInOwnRun`, without a limit on the writes, with `StopsFirst` and
  `InputHWM <= DrainLimit`: the senders have stopped before `PostRun` receives, and no more messages can wait than it receives.  The number
  of messages in all is not limited.
* `BranchesHoldAll`: `Spec => []NothingLost`, if existing files are opened (`Openmode = "recreate"`).
* `BranchesFull`: `Spec => []SplitInTime`, if files are opened whether they exist or not and are not given by a path, for
  the split by size.
* `EarlierRunsSafe`: `Spec => EarlierRunsKept`, without further assumptions.
* `TypeCorrect`: `Spec => []TypeOK`, without further assumptions.

The first three rest on `Types`, which says of the threads that they live only from `PreRun` to `Join`, unless a limit has
ended the run.  For the order, the channels and the hands of a worker are put together to its `Pipe`: what
waits for the merger, what the worker is compressing, what waits for it, what the handler is dealing out to it.  A
step of a worker moves a message along the pipe and does not change it (`PipeWorker`).  `Flow` says that the pipe of
worker `w` holds, in ascending order, exactly the messages received of `fNOutput`, `fNOutput` + 1, ... that are `w`
modulo the number of workers (`Carries`), but for the very last one, which a stop may have interrupted on its way.
So the first in the pipe of the worker whose turn it is is the message that follows the last one written
(`FlowMerge`, `Behind`); `Base` ties the counters of this run to the numbers of the messages.  Without workers the
handler writes, and the next message follows because the input is in order (`InputInOrder`).

`Framing` follows the file through the states of the device: a header and messages until the threads are joined, then the
trailer.  `Own` says that the input, the pipes and the file hold messages of the current run only; the count of
the messages drained makes the input empty at the end of `PostRun` (`Drained`, `Emptied`), which is what the next
run needs.

The methods of `FileUtil` are functions on a record; one lemma for each says what it makes of the fields
(`CloseFileUtil`, `NameFileUtil`, ...).  `OpenOutcomes` has the three outcomes of `Open` that nobody looks at: it
throws, leaves an existing file alone, or opens it; `WriteOutcomes` those of `Write`.  `FileSteps` says which steps touch the file.  For the files of earlier
runs, `NamesOK` follows the name: one that is kept although no file is open is the path given, or that of an existing file
that was left alone and will be left alone again; and while the device may write (`Running`), the open file is one of the run.
For what the branches hold, `Branched` numbers them: the file of each has its index as branch number, so the next one never
empties one that was written, and only the last is open (`BranchedAdds`, `BranchedNext`, `Divided`).  `Sized` follows the lengths: with
files that always open, a full branch is always followed by an empty one.  In the mode `create` a later branch whose file exists is not opened, and what is written to it is lost: the
assumption of the two theorems is needed (see the divergences in section 3).

In `TypeCorrect` the bounds on the counters are the hard part, because a stop drops messages on the way and a run may end
with messages in the channels.  `CountsOK` compares, for each worker, what was dealt to it (`Given`, a cardinality) with
what was taken from it and what it still holds: from this `fNOutput` is never beyond `fNReceived`.  `WrittenOK` bounds what was written by this, and `Typed` the branch number by what
was written.

`TriggerChainProofs`, for any expressions, signals, widths, delays, time regions and time frames of the builder, under
`ChainConstantsAssumption` and that of the slicer:

* `ChainTypeCorrect`: `ChainSpec => []ChainTypeOK`.
* `ChainImplementsSlicer`: `ChainSpec => ImplementsSlicer`, a refinement: the slicer's own specification, which lets any
  message arrive, is implemented by the slicer behind the filter.
* `ChainSlicesCorrect`: `ChainSpec => []SlicesAreWindows`, from this and `SlicesCorrect`.
* `RegularFramesAlwaysSliced`: `ChainSpec => []RegularFramesAreSliced`.
* `TableCorrect`: `ChainSpec => []TableIsExpression`.
* `TriggersRise`: `ChainSpec => []TriggersAreRisingCoincidences`, if time frames are only sent
  with expressions of the grammar whose signals are below the last id (`Grammatical`).

The assumption says that the time frames are those of the builder (no lists, no more sub time frames than announced, each header
counting its heartbeat frames, the same number of sources in all), and that the unsigned times do not come around:
`2 * (TimeRegion + MarkLen) < WordSize` and delays of at most half of `WordSize`.

The refinement needs that a filter sends only messages (`OutPartsType`), and there the ascending lists are the point.
`ScanLists`: the walk of `Scan`, as the function it builds (`Collects`), has collected at each time the rising times up to
it, in order; by a least counterexample, as in `SequenceLemmas`.  `RegularFramesAlwaysSliced` joins two proofs: the slicer
fails only if the containers are too short for a message (`FailsOnlyIfIrregular`), and `SentInv` follows what is on its way: it was
made of a frame of the builder, with as many lists as `NumBlocks` says, and the containers of the slicer have the length of the
sources that all frames announce.

For the trigger times, `MarksAre` is the arithmetic: the bins that a hit marks modulo `WordSize` are those within half the width,
and a hit that is negative after its delay marks none; so the signals of `Region` are those that are `On` (`RegionIsOn`).
`TriggerInv` carries the table from `InitTask` to the time frame in hand.  That this table is the meaning of the expression
is `TableCorrect`: `InfixTable` says what `InitTask` makes of an infix expression, from the two theorems that follow, and `TableInv`
that no later step touches it.  The lemmas `Same...` say that the filter's instance of `LogicExpression` is that of these theorems.

`LogicExpressionProofs`, for expressions of any length and depth and any `NsigMax`:

* `TableIsMeaning`: an expression of the grammar whose signals are below the last id has one reading; the parser accepts it;
  the table is on for exactly the combinations, of signals up to its highest, of that reading.
* `AcceptedIsWellFormed`: what the parser accepts is of the grammar, or ends in an operator.

Both are inductions over the data.  The induction rules of the library are out of reach of the provers, so each is made by
hand as a least counterexample.  First the recursive functions have to be known to satisfy their equations, which `CHOOSE` alone
does not say: `LocalRecursion` means that what a definition gives at `x` depends only on values of smaller rank, and
`Solution` that a function satisfying it then exists.  `ReadsUnfolds` is this for the grammar, by the length of an expression, and
`ParseUnfolds` for the parser, whose rank is twice the number of tokens left, and one more for "or", which calls "and" on the same tokens.
That a loop is called with fewer tokens than the call it goes on from depends on the operand having taken some, so termination
and what the parser answers (`Outcomes`) are shown together, in `RuleSound`.

`ParseSound` goes from the parser to the grammar: what a call has read is a sum, a term or a factor, unless all tokens are used up
and the last is an operator (`Broken`); the null pointer comes only for no tokens.  `ParseComplete` goes back: for every reading of
`s`, and whatever stands behind `s`, the parser reads exactly `s` and leaves commands that compute that reading.  For this to hold by induction
on the length, it is stated in the middle of a loop: parsing `s` and what follows is the loop going on from the node of `s` (`TermParsed`, `SumParsed`),
for a sum if no "&" follows.  The commands of a reading are those that push its value on whatever is on the stack (`Computes`),
so that those of the operands can be put behind each other, and they hold the same signals as the expression (`Good`), so that
the highest of both agree (`HighestOfCommands`).  That the reading of an expression is unique, although every operator is tried as the outermost one, comes out at the
end: all readings are computed by the same commands.

Of the invariants and action properties of the passing runs none is only model-checked; those of the runs that fail on purpose are false.
Liveness (`EntriesLeave`, `StopEndsRun`, `ReceivedIsWritten`, `KeepsReceiving`, `WordsAreHandedOn`) stays with TLC: it needs
fairness and `ENABLED`, which the prover does not treat.

## 5. Plan

In this order, most important first:

1. `TimeFrameBuilder`, `STFBuilder`, `FileSink`, `FileUtil` with their runs (done), the
   first theorems (done).
2. Composition: several `STFBuilder`s and a `TimeFrameBuilder`; heartbeats lost by one of
   the modules; the ids that the builders agree on; sequence numbers as ids.
3. `AmQStrTdcSampler` (done).
4. `TimeFrameSlicerByLogicTiming` (done, with its theorems); sub time frames that are slices already.
5. `LogicFilter`: expression, table, search, composition with the slicer (done); `remove-hb`, several
   destinations.
6. The file players on files as `FileSink` writes them; the common loop of the filters;
   `Scaler`, `InputRegister`, `RingBuffer`.
7. Proofs: the safety properties and the refinement of `TimeFrameBuilder`, those of `STFBuilder`, `Sampler`,
   `TimeFrameSlicer`, `FileSink`, `FileUtil`, `LogicExpression` and `TriggerChain` (done); the composition of item 2.

## 6. Not modelled, and why

The copies for monitoring of `TimeFrameBuilder` (sent only if there is room); those of the other devices are modelled as waits,
without their contents;
the Redis database and the logs, the contents of the TDC words other than
delimiters, throttling flags, channels and times, permissions and dates of files.

* `LogicFilter`: the option `remove-hb` (the code says of itself that it has a problem), several
  destinations (the loop is that of the time frame builder), modules of other types than V3.
* `TimeFrameSlicerByLogicTiming`: sub time frames that a slicer has made (type META), other types than V3.
* `fltcoin`, the device that `LogicFilter` was made from, shares the `Trigger` with it; `ExprParser` and
  `SignalParser` are unused or only split text.
* `FilterTimeFrameSlice*`: one device skeleton with many rules of acceptance, each of one experiment.
* File players, `Scaler`, `ScalerSQ`, `InputRegister`, `RingBuffer`: not yet, see the plan.
* The emulators and displays have no protocol of their own; `EventBuilder` is not built; `sqlite`
  is vendored, and with some 267000 lines it is nine tenths of all that the repository contains.
