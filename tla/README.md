# A verification of asyncapi-enrich

`asyncapi-enrich` learns an AsyncAPI document by listening: one command records
WebSocket sessions into a file, another infers a document from it. These modules
model the code at the level of its control, TLC checks them on small instances, and
TLAPS proves for every size what matters most about the recorder, the masker, the wire parser,
the sessions file over runs that may be killed, and the document over repeated
enrichment. Paths and line numbers are those of the repository.

## The system

| Part | State it keeps | Operations |
| --- | --- | --- |
| Recorder (`record.go`) | the sessions it was given, shared by a goroutine per session under one mutex; per goroutine a connection, a deadline, counters, a report | `Record`, `Session`, and inside them the skip check, dial, reset, send loop, `listen`, `close` |
| Stop condition, report (`until.go`, `report.go`) | none | `Validate`, `satisfied`, `newSessionReport`, `Complete` |
| Sessions, frames (`sessions.go`) | URI, frames, unsubscribe payload | `Validate`, `sends`, `dial` |
| Sessions file (`file.go`) | the file | `LoadFromFile`, `WriteToFile` |
| Masker (`mask.go`) | field names | `URL`, `MaskURI`, `Value`, `Frame` |
| `asyncapi-record` (`cmd/asyncapi-record`) | none beyond the file | load, record with a `Save` that writes the file, write again, exit |
| Enrich (`enrich.go`) | the document in memory | `ensureServer`, `ensureChannel`, `ensureMessage`, `ensureOperation`, `resolve` |
| Schema inference and merge (`schema.go`, `merge.go`) | the schemas of the document | `newSchemaFromJSON`, `mergeSchema` |
| Binary detection, protobuf validation (`binary.go`, `protovalidate.go`) | `contentEncoding` of a schema | `detectBinaryEncodings`, `validateProtoSchemas` |
| `asyncapi-enrich` (`cmd/asyncapi-enrich`) | the document file | load, enrich, validate, write |
| Duration, NewDocument, vendored libraries | none of interest | |

**Interactions.** `asyncapi-record` loads the file and calls `Record`. Each goroutine
talks to its own server, asks the stop condition after every frame, masks what it keeps
and calls `Save` under the mutex; `Save` marshals the sessions of *all* goroutines and
rewrites the file. The next process starts from that file: its skip check and its send
frames are whatever earlier runs and crashes left. `asyncapi-enrich` reads the same file,
changes a document, marshals and reloads it, and writes it for the next run.

**What is hard.** Goroutines interleave on shared frames; a Save happens in the middle;
deadlines, interrupts and broken connections race messages; masking is done in several
places and its result feeds back into later decisions; processes die and writes fail
between any two steps; several runs follow each other with different conditions.
Enrichment ranges over Go maps in any order, and must find again what it or a
maintainer named. PROJECT.json lists each such hazard at its line.

**What makes each part correct.** Recorder: Saves are serialised and see a consistent
file; nothing unmasked is kept; one connection per capture; tally, report and frames
agree; it stops when it should, and always. Command: a crash loses no more than the
frame in flight, unless it falls inside a write of the file, where the code breaks that promise
(`CrashLosesOneFrame`); authored frames survive, with the same exception; a rerun of a complete
recording is free.
Enrich: the document describes the recordings, all references in it resolve, and calling
again extends and never duplicates. Merge: `required` is what all samples have, whatever
their order. Masker: every covered field and nothing else is replaced.

## Modules

| Module | What it is |
| --- | --- |
| `Ranks` | how many members a set has up to a place, and its n-th member |
| `Frames` | payloads, frames, wire messages; `payload`, `discriminate`, masking, `sends`, `countReceived` |
| `Until` | the stop condition and the report, over Go ints of either sign |
| `Recorder` | one call of `Record`: an action per critical section, Save, network operation and outside event |
| `SessionLog` | the abstract promise: a session's frames are kept, or discarded once and then only extended |
| `RecorderProps` | the recorder's properties and the refinement mapping to `SessionLog` |
| `RecordCommand` | `Recorder` inside processes that load, save, crash and start again |
| `EnrichDoc` | `Enrich` run again and again over one document |
| `JsonTokens` | tokens, how deep they lie, and the names whose values are credentials |
| `MaskTokens` | the token machine of `Masker.Value` |
| `MaskProps` | what it must return, said of the payload as a whole |
| `ProtoWire` | varints, protobuf wire format, what a `.proto` says of it, and what one schema's examples decide: the mark for base64, a problem with its declared message |
| `WireProps` | what the parser must return, said of all the bytes at once |
| `SchemaMerge` | inference and merge, and the walks that mark and check all of a schema, as operators over schemas |
| `PayloadSchema` | the way of payloads into a document: masked, inferred, merged, marked, checked, written; run after run |
| `PayloadSchemaProps` | its properties, with reference definitions on trees and sets |
| `MC...` | instances for TLC |
| `RanksProofs` | the n-th member exists and is the only one of its rank |
| `FramesProofs` | what `sends`, masking, counting and the stop condition do to frames |
| `RecorderProofs`, `RecordedFramesProofs` | theorems about one call of `Record` |
| `RecordCommandProofs` | theorems about any number of runs over one file |
| `MaskProofs` | the masker returns what it must |
| `WireProofs` | the wire parser returns what it must, and so does what is decided by it |
| `EnrichDocProofs` | theorems about any number of runs of `Enrich` over one document |

`Recorder` EXTENDS `Until` EXTENDS `Frames`, which with `JsonTokens` EXTENDS `Ranks`; `RecordCommand` EXTENDS `RecorderProps`,
leaves out the recorder's own completion of Save (`Saved`) and joins it with the write of
the file. `EnrichDoc` meets the recorder through the sessions file
only, whose contents are its `Inputs`. `PayloadSchema` EXTENDS `MaskTokens` and
`SchemaMerge`, which EXTENDS `ProtoWire` (`MaskTokens` is proved about by itself, as `MaskSpec`, and so is `ProtoWire`, in `WireProofs`);
it follows one message's schema, and what
`EnrichDoc` keeps of that schema (the shapes merged into it, and the refusal) is what
`SchemaMerge` decides in full.

**How PayloadSchema's state maps to the code.** `input`, `pos`, `stack`, `out` are the
decoder, `stack` and `buf` of `Masker.Value`, and a `MaskStep` is one turn of its loop.
`schema` is the message's entry in `doc.Components.Schemas`, `saved` the same in the file.
`EnsureMessage` is `newSchemaFromJSON` and `mergeSchema`; `Save` and `Mismatch` are the
end of `Enrich` from `detectBinaryEncodings` on, with the write. `Describe` is a
person's edit between runs, which the code expects (`enrich.go:28-35`). `seen`,
`savedSeen`, `recorded` and `payload` are history.

**How Recorder's state maps to the code.** `frames[s]` and `uri[s]` are the fields of
`ss[s]`. `mu` is the holder of the mutex. `pc[s]` says where in `session`, `listen` or
`close` the goroutine is; `tally[s]` is `count`, `notJSON` and `seen`; `inflight[s]` the frame between
`ReadMessage` and the end of `commit`; `reports`, `failed`, `result` what `Record`
collects. `expired` and `interrupted` are the two ways a context ends; `readErr` the read
error a gorilla connection keeps and returns from every later read. `epoch` names the run
whose clock a frame's `At` was measured on. `wire` is history: no guard reads it.

A goroutine is split at every `Lock`, at every call of `Save` and at every network
operation; what lies between touches only its own variables and is merged into the step before. So
`Commit` locks and appends, `SaveFrame` is the return of `Save`, the unlock, and the
counting. Others wait while `mu` is held, but Save's own read of the file's sessions falls
in between, which is why `HeldMeansStill` is worth checking.

**Data.** A payload is whether the strict JSON decoder takes it (`json`), only
`Compact` does (`lax`, for example a duplicate member name), or it is a quoted string;
its kind; and whether it holds a secret, clear or masked. That is all the recorder can
tell apart. A URI is invalid, plain (an environment reference, or no credential), literal,
or masked. In `EnrichDoc` keys are pairs of a base and a suffix, `HostKey` and
`SchemaName` are functions that may collide, and a schema is the set of shapes merged into it.
In `PayloadSchema` a payload is a JSON tree whose names and texts are members of small
sets; `FormatOf`, `IntegerTexts`, `NumericKeys` and `BytesOf` say what `stringFormat`,
`Atoi`, `isNumericKey` and base64 make of them. Bytes are numbers from 0 to 255.

## Runs

Deadlock checking is on everywhere: `Finished`, `NoMoreRuns` and `NoMorePayloads` are the only
places where a model may rest.

Runs that pass:

| Run | Bounds | Shows |
| --- | --- | --- |
| `recorder` | 2 sessions, 1 message each, files with and without an earlier capture, one session with an unsubscribe, a discriminator the masker covers | `SavesSerialised`, `HeldMeansStill`, `KeptMasked`, `OneClock`, the refinement `ImplementsSessionLog`, `RecordReturns` under `FairSpec` |
| `recorder_data` | 1 session, 3 messages, every class of file, message and stop condition with counts -1 to 2 | `FramesStayValid`, `TallyIsTheFile`, `ReportsDescribeFrames`, `ClosedFeedIsAnError`, `CrossedInOrder`, `StopsWhenMet`, `TypeOK` |
| `command` | 2 sessions, 3 processes, 2 stop conditions, a file with and without an earlier capture, kills and failing writes anywhere | `LossBounded`, `OneClockOnDisk`, `MaskedOnDisk`, `AuthoredSurvive`, `RerunSkips`, `DiskTypeOK` |
| `schema` | 7 families of payloads, 2 to 4 of a family in any order and split over any number of runs; single payloads with brackets nested four deep, names covered, not covered and repeated; 5 declarations; words of 16 bits, for the parser 9 different bytes in strings up to 3 and 6 of them in strings of 4 | `MaskIsExact`, `Summarises`, `DescribesSamples`, `ExamplesHonest`, `WireTiles`, `EncodingEvidence`, `SavedMatchesDeclared`, `AlarmIsReal`, `OnlyWidens`, `SchemaTypeOK` |
| `enrich` | 3 runs of 1 or 2 recordings out of 7, two hosts with one key, from nothing and from a maintainer's document | `OneServerPerHost`, `DescribesRecordings`, `NothingDangles`, `OnlyExtends` |

Runs that find what a comment or a test says and the code does not do:

| Run | Property | What happens |
| --- | --- | --- |
| `recorder_stall` | `TimeoutEnds` | a write has no deadline, so the timeout does not end it (`until.go:16`, `record.go:218`) |
| `command_torn` | `CrashLosesOneFrame` | a process killed between the truncation and the write leaves nothing, not even the authored frames (`record.go:40`, `main.go:97`, `file.go:48`) |
| `command_unsub` | `KeepsOnlyAuthored` | a recorded unsubscribe is played by the next run (`record.go:195`) |
| `enrich_drift` | `OneOperation` | with two hosts each rerun adds operations (`enrich_test.go:24`, `enrich.go:326`) |
| `schema_required` | `DescribesEverySample` | a map by number ends the merge before `required` is looked at (`merge.go:25`, `merge.go:115`) |
| `proto_drift` | `ToldImmediately` | once a field has three examples, nothing new is compared with its declared message (`enrich.go:32`, `merge.go:198`) |
| `enrich_silent` | `SafeToCallAgain` | a nil messages map is written to (`enrich.go:24`, `enrich.go:297`) |

Smaller disagreements the models contain and no run singles out: after a read timeout
`close` waits for nothing, as the connection returns its error again (`record.go:306`,
`AwaitNothing`); any read error that calls itself a timeout, that of a peer the transport gave up on
too, passes for a quiet feed (`record.go:259`, `391`); a message that arrives during the send
loop is filed after all that was sent, where the wire had it earlier (`sessions.go:39`, `record.go:217`); a format survives when formatted values meet objects, if they came
first (`merge.go:190`); fields merged into a map by number are lost (`merge.go:11`); a
schema that has met only null loses its title at the next merge (`merge.go:44`, against
`mergeString`); of a field that repeats within one example only the first is compared, so that
one whose second has another wire type passes, and strings that are not base64 never (`protovalidate.go:17`, `114`, `130`); a number is masked to a string,
so masking does not keep the shape (`schema.go:40`); `listen` counts kinds
before masking and a rerun after it, so with a masked discriminator `RerunSkips` and
`TallyIsTheFile` fail (`record.go:278`, `317`); a frame with a duplicate member name is
dropped with its session (`record.go:271`, `343`); text that is not UTF-8 panics
(`record.go:363`); send frames go out masked (`record.go:196`, `218`); two kinds whose names differ
only in case or separators share a schema (`enrich.go:282`); the credential documented is
the first of a map, not of the URI (`enrich.go:177`, `185`); an operation a maintainer called
`send` or `receive` is extended with the messages of that direction whatever its action says, if
it is on the same channel (`enrich.go:320-333`).

**Bounds, and why they are enough.** Two sessions give every pairwise interleaving on the
mutex; nothing in the code counts or orders goroutines, and the safety theorems hold for
any number. `MaxReceive` is how many messages a connection delivers before it falls
silent: it is above every count a condition asks for, so conditions are met, missed by
one, and overshot by nothing. `MaxRuns` covers record, rerun, and rerun after a failure
or under another condition. For Enrich, one run makes an entry, the second finds it, and
the third shows drift (the repository's own test runs three times for that reason).
`MaskedDiscriminator` is TRUE where nothing depends on the kinds of recorded frames.
For `schema`, four payloads are one more than the examples kept, and three are enough to
have two merged and a third that meets the result, before or after a reload (two payloads where
credentials lie within, as masking looks at one payload at a time); the families
are those in which the merge takes different branches: scalars of every type with formats,
nested objects and nulls, maps by number, arrays, credentials at every depth and under
other spellings, repeated names, and byte strings that agree, disagree, break off or
repeat a field. Scaled words keep what matters: the longest varint has more bits than a
word, as 10 bytes have against 64 bits, and every kind of value can end with the data,
before it, or past it. For the masker, four levels are enough to have a bracket
within a credential's value within a bracket that goes on afterwards; a third part of a bracket would meet
the same stack as the second. `Summarises` is stated where a place holds one kind of value;
`DescribesSamples` also where kinds mix, but for the two cases in which the code fails it.
`OneClockOnDisk` and `MaskedOnDisk` speak of a file that is not torn: a torn one holds nothing, and ends every later
run at `LoadFails`. What is lost with it is not left out: `LossBounded` says when a file may be torn at all, namely
while a write is behind its truncation or was left there, `AuthoredSurvive` that the frames are in memory meanwhile, and
`CrashLosesOneFrame`, the promise of the comments without any such condition, is refuted.
`recorder` has one message per connection, as two sessions that fetch, wait for the mutex and save are what it is about;
`recorder_data` has three.

`KeptMasked` speaks of frames this run captured at all times, and of the whole session
from the reset on. An authored frame with a secret is in the file unmasked until then:
that is how it was written.

## Fairness

`FairSpec` assumes what the runtime and the code give: a runnable goroutine runs (weak
fairness of `Validate`, `Return`, `Private`), Save and the dial return (the dial has the
context), the Close frame has a write deadline, deadlines pass (`Expire`) and end a read
(`ReadEnds`, which covers both the read deadline of `listen` and the grace period of `close`). Taking the lock is
strongly fair: a Go mutex in starvation mode hands itself to the longest waiter. No
message is ever promised, so a silent server is included. Writes before the
Close frame have no deadline: `FairWrites` is an assumption on the server, stated apart, and
`StallSpec`, which lacks it, is what refutes `TimeoutEnds`.

## Proofs

| Theorem | Module | Says |
| --- | --- | --- |
| `TypeCorrect` | `RecorderProofs` | `Spec => []TypeOK` |
| `SavesAreSerialised` | `RecorderProofs` | `Spec => []SavesSerialised` |
| `FramesCrossedInOrder` | `RecorderProofs` | `Spec => []CrossedInOrder` |
| `ClocksNeverMix` | `RecordedFramesProofs` | `Spec => []OneClock` |
| `EverythingKeptIsMasked` | `RecordedFramesProofs` | `Spec => []KeptMasked` |
| `FramesRemainValid` | `RecordedFramesProofs` | `Spec => []FramesStayValid` |
| `TallyAgreesWithFile` * | `RecordedFramesProofs` | `Spec => []TallyIsTheFile` |
| `ReportsAreTrue` * | `RecordedFramesProofs` | `Spec => []ReportsDescribeFrames` |
| `ClosedFeedFails` * | `RecordedFramesProofs` | `Spec => []ClosedFeedIsAnError` |
| `RecordingStopsWhenMet` * | `RecordedFramesProofs` | `Spec => StopsWhenMet` |
| `FileStillDuringSave` | `RecordedFramesProofs` | `Spec => HeldMeansStill` |
| `RecordImplementsSessionLog` | `RecordedFramesProofs` | `Spec => ImplementsSessionLog` |
| `FileTypeCorrect` | `RecordCommandProofs` | `CommandSpec => []DiskTypeOK` |
| `FileKeepsOneClock` | `RecordCommandProofs` | `CommandSpec => []OneClockOnDisk` |
| `FileIsMasked` | `RecordCommandProofs` | `CommandSpec => []MaskedOnDisk` |
| `LossIsBounded` | `RecordCommandProofs` | `CommandSpec => []LossBounded` |
| `AuthoredFramesSurvive` | `RecordCommandProofs` | `CommandSpec => []AuthoredSurvive` |
| `CompleteIsNotRerun` * | `RecordCommandProofs` | `CommandSpec => RerunSkips` |
| `EnrichLeavesNothingDangling` | `EnrichDocProofs` | `Spec => []NothingDangles` |
| `EnrichAddsNoDuplicate` | `EnrichDocProofs` | `Spec => []OneServerPerHost` |
| `EnrichOnlyExtends` | `EnrichDocProofs` | `Spec => OnlyExtends` |
| `EnrichDescribesRecordings` ** | `EnrichDocProofs` | `Spec => []DescribesRecordings` |
| `MaskExact` | `MaskProofs` | `MaskSpec => []MaskIsExact` |
| `ParserTiles` | `WireProofs` | `parseProtoWire` takes exactly the bytes that are fields from end to end, and returns those fields |
| `DataTiles` | `WireProofs` | `[]WireTiles`: so it does for the bytes the runs compare |
| `LooksMeansIs` | `WireProofs` | samples look like protobuf exactly when they are fields that agree on their wire types |
| `ConflictMeansContradiction` | `WireProofs` | what is reported is what contradicts the declared message in the first field of a number; what contradicts it and is not reported repeats a field |
| `MarkedOnEvidence` | `WireProofs` | a string is marked as base64 exactly when two or more examples, and all of them, are protobuf that agrees |
| `ProblemMeansContradiction` | `WireProofs` | a schema fails exactly when it declares a message and does not agree with it; one that fails holds a contradiction |
| `CompleteWhenSatisfied` | `FramesProofs` | a report is complete exactly when what was asked for was satisfied |
| `SatisfiedIsStable` | `FramesProofs` | a condition once met stays met as counts grow |

Those marked * are proved under `MaskedDiscriminator = FALSE`: without it they are false,
as the runs' instances with a masked discriminator show (`record.go:278`, `317`). The one marked
** is proved for documents in which an operation called `send` or `receive`, if there is one,
has that action (`PlainMeans`): `ensureOperation` takes that for granted (`enrich.go:320-333`), and without it
the messages of one direction end up in an operation of the other.

They hold for any number of sessions, any sets of messages, conditions and starting
files, any number of runs, and for `Enrich` any recordings, any collisions of host keys
and schema names, and any of the orders in which Go may range over a map. They assume only the named assumptions on
the constants: `Nil` is no kind, payload, number, report or set of names, and marks a truncated file apart from a written one
(`TornAssumption`); the set of kinds is finite;
starting frames are frames, and the receive frames of a starting file all carry one
earlier epoch; the sessions `Enrich` reads hold frames with a payload, and the documents it
starts from are finite maps whose references resolve; the payloads the masker is given are
JSON as far as a decoder that checks it lets them through (`IsJson`: brackets balance, and in an object
names and values take turns); and of the sizes of the wire format, that the longest varint is the least that holds
a word (`WordAssumption`) and that a fixed value of 64 bits is two of 32 (`SizeAssumption`); base64 decodes to bytes (`BytesAssumption`). TLC evaluates each of these on every run
of its modules.

`TypeOK` and `SavesSerialised` are proved together, as `IInv`: the type of a report needs
that a condition is there once goroutines run, and that is not in `TypeOK`, so `IInv` adds
`ReadyInv` (no goroutine has started while the call validates; a condition exists once
it runs; a frame is in flight where `Commit` expects one; from the reset to the end of
the send loop a session holds only send frames, which is what makes the payload
that `Send` writes a payload). On top of it `FramesInv` says per session what its frames
look like in each stretch of `session`: before the reset as earlier runs may have left
them (`Captured`: of one earlier run, and masked unless they were in the file from the
start); from the reset to the end all masked, received in this run if at all, and the URI
masked; when done, one or the other. What is left at the end is `Captured` again, now
by this run, which is what lets the invariant be used over many runs. `OneClock`,
`KeptMasked` and `FramesStayValid` are each too weak to be inductive: that the frames
share a clock says nothing of what an append does, unless one knows from `pc` that the
reset has happened and what it left. Each lemma takes one action, or a group that
disturbs nothing, through the invariant; the theorems combine them.

`CrossedInOrder` speaks of `wire`, which no guard reads, so its invariant `WireInv` ties the
wire to the rest label by label: in the send loop it holds the texts of the first frames,
as many as the loop's index has passed, and the session nothing but send frames; from `listen` on each item is the frame of the same
place (`Matched`), and so it stays but for the item that waits in `inflight` for its commit (`OneAhead`), or that
is an unsubscribe the masker refuses (`Refused`); a Close comes after them (`Crossed`). A frame that
was sent is kept as it went out, since the reset masked it first; a message is masked between the read and the commit.

The refinement is proved in `RecordedFramesProofs`. That a committed frame is one `SessionLog`
lets in is not visible where it is committed, so `OriginInv` is added to `IInv`: a frame
waiting for the mutex was received on this run's connection and masked, or is the
unsubscribe. Then every step is one of four: it leaves the frames alone and moves at most
its session's phase ahead (`QuietMoves`, `AheadRefines`); it discards (`ResetRefines`,
where the frames masked before a refusal are an initial segment, `MaskedPrefix`); it
commits (`CommitRefines`); or it fetches what will be committed (`FetchRefines`). `HeldMeansStill`
follows from the same split, as the only two steps that change what is shared need the mutex.

**The tally** (the second half of `RecordedFramesProofs`). `CountInv` says for each session what a count of its frames
finds, compared with what `listen` counted: nothing was counted before `listen`; the two
agree in `listen` and `close`, but between the append and the return of its `Save` the
frames are one ahead, of the kind that waits in `inflight`; a read starts only while the condition
is unmet; a report was made from the counts of then, and after it nothing received is
appended; it is short only where the context is done or a read timed out (`Ended`). All four theorems follow from it. What it rests on is that an append adds one to the count of its
kind (`AppendCounts`) and that the frame is of that kind after masking, which is where a
masked discriminator breaks it.

**Runs over one file** (`RecordCommandProofs`). Every step of a process that records is a
step of `Recorder` or leaves its variables alone (`RunsAreNext`), so `IInv` and
`FramesInv` carry over; what is new is how a process starts and ends, and what reaches the file. `CommandInv` adds that
the file, when not torn, is `Captured` by the runs so far, and that between processes
nothing is in memory. `LossBounded` needs the lag between the file and memory (`LagInv`):
none, but one frame for a session that waits for its `Save` or ended because it failed; a
`Save` of any session writes them all, and so only takes lags away. That the file is torn only behind a
truncation needs to know what a failed write leaves (`TornInv`): an error of its session, or, for an unsubscribe, that
there was one to send. `AuthoredInv` says
that the authored frames come first wherever a session's frames are: `Sends` keeps the
order and what comes last stays last (`SendsAppend`), the send frames of send frames are
themselves (`SendsOfSends`), and masking twice is masking once. `SettledInv` says that
after a run that ended well and complete the file satisfies that run's condition in every
session, which follows from `ReportsAreTrue`'s invariant and `CompleteWhenSatisfied`, and
that a process that asks for the same has nobody past the count; so nobody writes
anything else, and it stays so until a run with another condition.

**Enrich** (`EnrichDocProofs`). `DocumentInv` is what the searches of the code rely on:
the document's maps are finite, its references resolve, no server a run added shares
its host with another that is not a reference, and no channel a run added names a server
another such channel names. `CurInv` says what the run has in
hand: the keys of the server and channel of the session it is at are in the document, and
the messages it has met so far are in that channel. `uniqueKey` finds a free key because of one suffix more than there are
entries one is unused, and the least of those is what it returns (`FreeKey`). Added
entries are no references, so the next search finds them (no duplicate); entries are only
ever added or replaced by an extension of themselves, and extension is transitive, from one write
of the document to the next (only extends); an operation's key is either the channel's own or
one that was free, so no channel takes another's (nothing dangles, not even between two
steps of a run that fails).

That the document describes the recordings needs to know what a run is through with.
`DescribeInv` says that the document in memory describes what earlier runs saved and the sessions of this one
that are done (`SoFar`), the one on disk what earlier runs saved, and that within a session the server has its
host, the channel that server, and what was collected for the two operations is what the
items met so far show (`Met`), each of them merged into its schema. An addition that leaves the operations
alone leaves a description true, since hosts, channels and shapes only grow
(`DescribesExtended`); the one step that touches them puts the names under one operation of that
direction and channel (`OperationPut`), and those names were all just seen there
(`CollectedShown`).

**The masker** (`MaskProofs`, about `MaskSpec`, whose steps are the masking steps of
`PayloadSchema`). `MaskIsExact` knows no stack: which tokens are names follows from
depths and places in the payload. So `MaskInv` says what the machine knows (`Knows`): its stack has one entry for
each bracket open at this position, outermost first, each saying whether it is an object and, if
it is, whether the place within it is a name's, by the parity of what came before. And it
says what was written (`WroteUpTo`): the image of all that is to be written before this position.
`KnowsOpen`, `KnowsClose`, `KnowsToken` and `KnowsSecret` take the first through each
kind of token, the last over a whole skipped value, which is where it matters that `SkipValue`
stops at the first position of the same depth (`ValueEndIs`, `SecretValue`).

**The wire parser** (`WireProofs`). `parseProtoWire` reads from the left and decides at each byte; `WireTiles`
knows no reading. It calls a set of byte positions a tiling if the last byte is in it and between
any two neighbours lies one field: a varint, whose value is a number and a wire type, and a value of that
type, with nothing left over. `ReadVarintIs`, `FieldEndIs` and `ReadFieldIs` say when a read succeeds: exactly when
there is a piece from there, whose end and field are then the only ones. So a tiling from a position
has its least member where the read ends, and the rest of it is a tiling from
there (`TilingSplits`); its k-th piece is the other's k-1st (`NthWithoutLeast`). With
`AgreesAtEnd`, `AgreesOnField` and `AgreesOnFailure` for the three ways a turn of the loop ends, what the parser returns from each
position agrees with the tilings from it, from the last position down to 0 (`ParseTiles`).

The loop and a varint's value are recursive functions whose domain is a set of numbers. That such a function
exists, and that it satisfies its equation, is not a given but proved
(`RestExists`, `SumExists`), as what it is built from goes one way through a
finite interval; the inductions are over sets of positions (`Upward`, `Downward`, from `LeastElement`), and so need no
operator as a parameter. `LooksMeansIs` and `ConflictMeansContradiction` then carry the result to the
two places that use the parser: whether a field is marked as protobuf, and whether a declared
message is contradicted. Only the first field of each number is looked at (`protovalidate.go:127-134`), so what is reported is
exactly what contradicts the message there (`ContradictsFirst`, `FirstFieldsLead`), and all that contradicts it (`Contradicts`) where no number repeats with
another wire type. `MarkedOnEvidence` and `ProblemMeansContradiction` say the same of one schema and its examples; `Agrees`,
which the second is about, is half of what `SavedMatchesDeclared` says of every place in the saved document; the
other half, that the same holds of all that was recorded there while no more than three values were, is left to TLC.
That every place is looked at is left to TLC, as the walk is recursive over the tree.

`Sends` is defined through ranks and not as a recursive filter, because facts by
induction over a recursive definition are out of the prover's reach; for the same reason the depth of a token is a
difference of two ranks. `RanksProofs`
proves what is needed of them: the k-th smallest element exists and is the only one of its rank;
and `FramesProofs`, that `Sends(fs)` holds the send frames of `fs`, in order and none left out.

**Only model-checked:** liveness (`RecordReturns`), which is out of the prover's reach under
fairness; and the run
`schema`, but for `MaskIsExact` and `WireTiles`: `SchemaMerge` is recursive over trees, not over numbers, and
what such a definition computes for every input would need induction with an operator
as its parameter, which the installed provers cannot instantiate.

## Not modelled

- The text of anything: JSON, URIs, durations, errors, the printed report.
- Masking a URI (`mask.go:90-149`) but for its result: parameters and their encoding.
- Compilation of a .proto, base64, and the parsers behind `stringFormat`: libraries.
- Enrich: pathname and TLS extension of a server, sorting; what makes a document valid, and a crash
  while the document is written.
- Vendored libraries, beyond what the code does with their answers.
- The order of Save's marshalling and the system's page cache: a write that returned is
  taken to be on disk.

## Plan

Done, in this order, most important first: `Frames` and `Until`; `Recorder` with its
properties; `SessionLog` and the refinement; the proofs of `IInv`, `FramesInv` and the
refinement; `RecordCommand`; `EnrichDoc`; then `SchemaMerge`, `MaskTokens`, `ProtoWire` and
`PayloadSchema`, which bring the masker, the inference, the merge, binary detection and
the check of declared messages together; the proofs of the tally, of the runs over one
file, and of `EnrichDoc`; the proofs of the order on the wire, of the masker, and that the
document describes the recordings; the proof of the wire parser.

To do:
1. The enrich command's own write and what a crash during it leaves; validity of the
   document as a predicate and not as one of the ways `ResolveFails` stands for.
2. `EnrichDoc` over `SchemaMerge`'s schemas instead of sets of shapes: it multiplies two state
   spaces that meet in one variable.
3. The masker's handling of URI parameters, at the level of names.
