# A verification development of reborn-protocol

TLA+ modules, TLC configurations and TLAPS proofs for the Python library
`reborn_protocol`: the wire codecs of the Reborn game protocol, the property
streams that travel in its packets, and the two script engines (GS1 and GS2).
`PROJECT.json` ties each definition to the source lines it models.

To check a module: `tlc -config X.cfg M`; to check the proofs: `tlapm M.tla`.

## The system

| Component | Source | State | Operations |
|---|---|---|---|
| Packet cipher | `encryption.py` | `RebornEncryption`: key, iterator, limit | `reset`, `limit_from_type`, `encrypt` = `decrypt` |
| Compression | `encryption.py` | none (`CompressionPolicy` is fixed per session) | `compress`, `compress_data`, `decompress_data` |
| Framing | `codec.py` | `PacketBuffer._buffer` | `_frame`, `add_data`, `get_packets`, `clear` |
| Client codec | `codec.py` | `Gen5Codec`: two ciphers | `set_key`, `send_packet`, `recv_packet` |
| Server codec | `codec.py` | `ServerCodec`: two ciphers, `_first_decode` | `set_key`, `encode_packet`, `decode_packet`, `reset_decode_state` |
| Older codecs | `codec.py` | Gen4: ciphers; Gen3: iterator; Gen2, Gen1: none | `set_key`, `send_packet`, `recv_packet` |
| Reader, builder | `codec.py` | cursor; byte array | G-type integers, strings, positions |
| Properties | `props.py` | none (tables and stream policies) | `decode_value`, `payload_len`, `encode`, `parse_prop_stream` |
| Coordinates | `coords.py` | none | tile and pixel arithmetic |
| GS1 lexer, parser | `gs1/lexer.py`, `parser.py` | `Lexer`: cursor and state stack; parser: none between calls | `tokenize`, `parse` |
| GS1 engine | `gs1/interp.py`, `runtime.py` | `Context` (shared), `VarStore`, one `Interpreter` and generator per run | `run_event`, `run_event_resumable`, `resume` |
| GS2 engine | `gs2/` | `GS2VM`: globals, functions, operation count; one frame per call | container parsing, decoding, `call`, `iter_call`, `run_toplevel` |
| Constants | `constants.py` | none | enumerations |

How they interact. A host (pyReborn is the client, pygserver the server; both are
outside the repository) owns a socket, a `PacketBuffer` and a codec. Bytes go
into the buffer; each payload that `get_packets` returns goes to the codec's
`recv_packet` or `decode_packet`; a decoded bundle is split and read with
`PacketReader`; property packets go through `props`. Scripts run in a GS1
`Context` or a GS2 machine, which call back into the host's `Host` object.
Everything is synchronous Python. What runs concurrently are the two ends of a
connection, and the GS1 executions and GS2 coroutines that are suspended while
their host does something else.

What is hard about it:

* **Two ciphers a network apart.** There is no resynchronisation. Each packet
  must advance the sender's `out_codec` and the receiver's `in_codec` by the same
  number of steps; that number depends on the compression type, the limit and the
  length. Dropped bundles, plain packets in the middle, packets of an unknown
  type and a key change during the login must not break it.
* **Segmentation and reconnection.** A packet may be cut anywhere, and what a lost
  connection left in a buffer or in `_first_decode` meets the next one.
* **Executions that share a `Context`.** A GS1 `sleep` suspends a Python generator.
  The current object, function parameters, the event flag, the step counter and
  the cancel flag are in the shared `Context` and not in the generator.
* **Budgets.** GS1 counts statements per slice, GS2 operations per call; nested
  calls, loops and coroutines sit on their boundaries.
* **Alignment.** One property decoded with the wrong length spoils the rest of its
  stream; the G-type integers and the pixel encodings have edges of their own.

* **Modes.** The GS1 lexer decides character by character whether it reads code, an
  expression, a variable name or a raw string, from tables that each command and
  message code brings along; one pop too few and the rest of the script is text.
* **Stack discipline.** GS2 scripts interleave values, lists, loops and `with` blocks
  on one operand stack, and references outlive what they refer to.

The properties that make each component correct:

* cipher: encryption is undone by a cipher in the same state; the state after a
  packet depends on its type and length only;
* framing: payloads come out unchanged, once and in order, whatever the segments;
* sessions: both ends in step; what is accepted is delivered; a login always works;
* properties and reader: encode then decode gives the value back or its documented
  clamp; the cursor never passes the end; one bad property is contained as the
  stream's policy says;
* lexer: its modes follow the nesting of the script, and each argument is read as
  what the command takes;
* GS1: a cancel erases the sleep it is meant for and no other; scopes are found
  as they were left; slices are bounded; every suspended execution ends;
* GS2: the operation budget bounds a call and everything it calls; an error ends
  what the documentation says it ends; frames and with-stacks are balanced.

## Modules

```
BundleChannel (abstract) <── UpLink, DownLink of Gen5Session
                         <── Link of OldSession
                         <── Link of PacketStream

Cipher ─┬─ Gen5Session ── MCGen5Session, Gen5SessionProofs
        └─ OldSession ─── MCOldSession,  OldSessionProofs

PacketStream ──────────── MCPacketStream, PacketStreamProofs
GType ─┬─ PacketFields ── MCPacketFields, PacketFieldsProofs
       └─ PropStream ──── MCPropStream,   PropStreamProofs

GS1Lexer ──── MCGS1Lexer, GS1LexerProofs
GS1Sleep ──── MCGS1Sleep, GS1SleepProofs
GS2Machine ── MCGS2Machine, GS2MachineProofs
GS2Operands ─ MCGS2Operands
```

### Wire

**Cipher** is `RebornEncryption` as operators on a record. A body is a sequence of
blocks; one block stands for the bytes that are XORed with one value of the
iterator (four, or fewer at the end of the body), because the code advances the
iterator and counts the limit in that unit. The width of the iterator, the
multiplier and the limits are constants; `CipherAssumption` asks of the exclusive
or only that it undoes itself. `Lcg` is a recursive function, so that it can be
proved about.

**BundleChannel** is what a host may expect of one direction of a connection: a
FIFO queue of accepted bundles. `None` in the queue is a packet of a foreign peer
that the codec must answer with `None`. `Lose` empties the queue.

**Gen5Session** composes `Gen5Codec`, `ServerCodec` and two pipes of whole packets.
One action per codec method; the hosts' part is only the order the docstrings
prescribe: the client sends a plain zlib login and calls `set_key`
(`ClientLogin`); the server decodes it (`ServerDecode`), calls `set_key`
(`ServerSetKey`), and answers with a plain zlib response (`ServerRespond`); both
then send at will. `phase` records how far each host has got; between decoding
the login and `set_key` the server host decodes nothing else. `ForeignUp` and
`ForeignDown` put in packets no codec of this library sends: empty, and with an
unknown type byte. `Disconnect` drops everything in flight, and the server's host
calls `reset_decode_state` and keeps its ciphers for the next connection. A bundle is a
model value with a size and a compressed image per type; `Image` must be injective
per type, as a compression is, and a body that is no image decompresses to an error
(zlib, bz2) or to `Garbage` (uncompressed). `upSent` and `downSent` are history: the
bundles the packets in flight stand for.

**OldSession** is the other four codecs over one direction. `gen` picks the one in use:
Gen4 arms the bz2 limit for every bundle and checks the size before it encrypts;
Gen3 inserts a filler byte at a position drawn from the same LCG, on the way to the
server only (the server's removal is outside the repository and taken from the
class docstring); Gen2 hands on what zlib refuses; Gen1 sends bytes as they are.
`ForeignSend` is a Gen2 bundle that is not compressed, or a Gen4 bundle that is no bz2.
`Gen3Message` is what hosts send over Gen3: the run keeps it to bundles that fit (see
below for one that does not).

**PacketStream** is the layer below, byte by byte: `_frame`, TCP segments of any
length, `PacketBuffer` and the host's loop. Bytes are the digits of the length
prefix, so a payload can look like a prefix. `Receive` is one socket read:
`add_data` followed by `get_packets`, since the buffer is only ever used that way.

**GType** holds the G-type integers, one operator per `write_` and `read_` method, with
the code's clamps, capped lanes and carries. The ranges are those of the code and its
docstrings (`write_gshort`: 28767, `write_gint3`: 3682399); `src/README.md:106-107` gives
smaller ones (16383 and 2097151), what the lanes hold without going above seven bits.
A GINT5 is a pair, what is above its lower 28 bits and those bits: any integer may be
written, and `Clamp5` brings it to 32 bits. **PacketFields** is a `PacketBuilder`
that writes fields of any kind, a packet that is cut or has bytes appended, and a
`PacketReader` that reads it back field by field or in a `while has_data()` loop.
`fields` and `got` keep what was written and what was read, so that a property can
compare them.

**PropStream** is `props.py`: a writer's properties, `[id, value]`, go through
`encode_value`, arrive whole, cut anywhere or with junk behind them, and
`parse_prop_stream` takes one step per property. `TableOf` gives the player, NPC and baddy
tables. A policy has the fields of `StreamPolicy`: the width of COLORS, the highest
id, the three checks (`check_alignment`, `require_ascending`, `require_full_consume`), the exempt
and the empty-handled ids; `unknown_payload_len` keeps its default of 1. Every handler
is there and takes every value; `out` has one entry per property walked, the call of its
handler or `None`. `ends` is history: where each property ended when it was written.
`Legal` is what a descriptor can carry, and what hosts are taken to write: text no longer than
its length byte counts (223, of two bytes 28767, a head's name 123), pixels up to
14383 either way, a first effect color that is not negative (`encode_value` writes a
negative one as 0, which a reader takes for the short form), an image that is not
`None`, a power below the bias without an image and not negative with one. All other numbers may be any integer;
`ReadBack` says which clamp the reader sees of them. The exception is a number of five
lanes, which fits 32 bits: `_gbyte` does not clamp it as `write_gint5` does, and writes a
greater one with a top lane that a reader cuts off. Both use the lanes of `GInt5Lanes`.

### GS1

**GS1Lexer** is the state stack of `gs1/lexer.py`. A script is unbounded: an *author*
opens and closes constructs (blocks, commands with their argument modes, functions,
message codes, strings, brackets), never more than `MaxDepth` inside one another, and
writes only what the grammar allows there; each lexeme goes through the lexer's
`Push`, `Pop` and mode functions. Lexemes are classes: a word, an operator, a
comma. The author's stack says what is meant, the lexer's what is read, and the
properties relate the two: a construct of the author's has the arguments left and the
braces or parentheses opened in the present one, a state of the lexer's what
`push_command` saved. `Commands`, `CallForms`, `Functions` and `Codes` are the mode
strings of the generated tables, in the run one of each shape. `GS1LexerAssumption` says what shapes
those are: what takes the rest of a construct (L, R, Z, P) comes last; a function's and a
code's arguments are parenthesised, of types E, S, V, P and L, and an optional `<` has
another argument after its own; what is written as a call does not end in a special literal, M or Z.
Every entry of the tables is of these shapes, but for the code `#U`, whose form is among those
listed below that swallow the rest of a script.

**GS1Sleep** is one GS1 `Context` with several executions. A script is its
statements in textual order, with "end" closing a block; control is a place in it
and a stack of frames, and a frame holds what the `finally` clause of its block
restores. A statement is one action, but while an execution is `running` nothing
else can happen, since Python is single-threaded here. The three outcomes
of `_step` are guards: the statement's own action, `Preempt`, or `StepLimit` (the
RuntimeError; it unwinds, and leaves the `ResumableExecution` not done). `Signal`
is `BreakSignal` or `ReturnSignal` passing through with blocks and functions.
`Drop` is the host giving up a suspended execution, which closes its generator.
Executions in `Resumable` are started by `run_event_resumable`, those in `Sync` by
`run_event`. `doomed` and `slice` are history variables.

### GS2

**GS2Machine** is control: several `GS2VM`s, one of which has joined another's class;
a stack of frames, each with its machine, its function and whether it is a
coroutine's; the operation counter `_ops_used` of each machine and its error count.
Calls of the script, of a joined class, of a function the host calls in the middle of a run,
`sleep` and `waitfor` in a coroutine, instructions that raise, and the
budget. `Reentry` says whether the host enters a machine that has a frame on the stack; a
machine in which a coroutine waits has none, and any event or call may use it. `used` and
`failed` in a frame are history: what its run should have been charged. So is `taken`, the
coroutines whose machine was used while they waited.

**GS2Operands** is data: the operand stack, references (`_VarRef`, `_CellRef`), scopes,
lists with identity, array growth, `foreach`, `with`, `copyfrom` and the comparison
of mixed values. A script is any sequence of the statement shapes the compiler emits;
a statement is one action, composed of operators for its instructions. Numbers count
in units of `SCRIPT_EPSILON`, `Unit` of them to 1.0, so that an index can be fractional.

Definitions marked `Fault` are not part of the model: each is a variant of the
definition that follows it with a plausible mistake in it, and PROJECT.json names
the property that must fail when it takes that definition's place.

## Runs

| Run | Shows | Bounds and why they are enough |
|---|---|---|
| `gen5_session` | `TypeOK`, `InStep`, `SessionInv`; both directions refine `BundleChannel` with its fairness | iterator of 2 bits (4 states, and a multiplier and key that visit all of them), 2 keys, 4 messages: two logins, one uncompressed that is longer than the limit, one bz2 that is oversize; limits 2, 1, 1 blocks; pipes of 2 and 1 packets, so that an encrypted packet queues behind the login; with one packet in flight from the server nothing can overtake there, and that order rests on `DownRefines`, which holds for pipes of any length |
| `old_session` | `InStep`; every codec refines `BundleChannel` with its fairness | the same iterator, 2 keys; 3 messages: an empty one, one longer than the cipher's limit, one oversize (for Gen3 only the other two); 3 in flight, more than there are iterator states a limit can hide |
| `packet_stream` | `TypeOK`, `NoHeldPacket`, refinement of `BundleChannel` | 1-bit bytes, payloads of length 0 to 4, of which 3 is the maximum and 4 is dropped; 3 payloads queued: a segment can hold the end of one packet, a whole one and the start of a third |
| `packet_fields` | `ReadsBack`, `CursorAligned`, `NoControlByte`, `ForwardOnly`, `LoopEnds` | 2 fields, so that one can misalign the other; values on both sides of every width's and every lane's edge; loops over at most 8 bytes, longer than any fixed field |
| `prop_stream` | `Aligned`, `ValuesArrive`, `TruncationSeen`, `CleanWhenWhole`, `WriterAgrees`, `NoNewline`, `WalkForward` | all three tables, 2 properties of every wire form with values at its edges, cut at any byte, an ill-formed length, 3 policies: with all three checks, with `check_alignment` only and with `require_full_consume` only |
| `gs1_lexer` | `ModesInStep`, `ReadAsMeant` | one signature of each shape in the tables, 4 constructs inside one another: a block, a command, its function and the code in that; scripts of any length |
| `gs1_sleep` | `TypeOK`, `CancelErases`, `CancelOnlyDoomed`, `ScopeIntact`, `Unbound`, `SliceBounded`, `Finishes` | one resumable and one synchronous slot; 4 scripts with nested blocks, a loop, break, return and a timer assignment without a budget, 2 straight ones with a budget of 2; 30 steps before the limit |
| `gs1_lost_cancel` | `CancelErases` is violated with two resumable slots | as `gs1_sleep`, 12 steps |
| `gs2_machine` | `TypeOK`, `CounterIsOwn`, `SuspendableRight`, `Terminates` | a script's machine, the class it joined and another one; 1 coroutine; 2 operations per run; the first error is one too many; frames 4 deep: event, own function, class function, host callback |
| `gs2_budget` | `RunBounded` is violated when the host re-enters a machine | as above, frames 3 deep; no coroutine, so that re-entry alone shows it |
| `gs2_operands` | `Balanced`, `GrowthBounded`, `NameReadsBack`, `Cloned` | 4 statements over `x` and `this.x`, one host object; 2 lists in use with 4 cells (and 4 more lists for what a statement makes), 1 open block; the highest index is 1, and 8 (two whole units) lies past it, as both of two indices too: rows of 3 cells and lists doubled to 4 are among the states, longer than the cap of 2. `GrowthBounded` looks at what every statement would make of a state, kept within these bounds or not |
| `gs2_null` | `NullStaysInside` is violated | as `gs2_operands` |

Other bounds: `MaxInFlight` and `MaxQueued` only stop senders; `Context.steps` stays at
`MaxSteps + 1` once it gets there, where every later statement raises
whatever its exact value. The runs that switch deadlock checking off
(`packet_fields`, `prop_stream`, `gs2_operands`, `gs2_null`) model one packet, one stream or one script,
which end.

Fairness. In `Gen5Session` and `OldSession`, weak fairness of the decoders, and in the
former of the login handler: a host feeds every packet of `get_packets` to its
codec in a loop. Sending, losing the connection and foreign packets have none. In
`PacketStream`, weak fairness of reading and of that loop. In `PacketFields`, weak
fairness of the reading loop: a `while` within one call. `PropStream` needs none. In
`GS1Sleep`, weak fairness of a running execution, which is a Python call that goes on
by itself, and strong fairness of `resume`: the host's timer fires for each
execution it keeps, and other events only come in between. In `GS2Machine`, weak
fairness of the running frame, for the same reason; starting events and resuming a
coroutine have none, and `Terminates` is about runs.

## What the runs found

Each of these has a run whose counterexample shows it.

* **Lost cancel** (`gs1/interp.py:1202`, `gs1_lost_cancel`): `sleep_cancelled` is one flag
  per `Context`, and any execution that yields clears it. With two resumable executions
  the cancel of a pending sleep is lost when the other one sleeps after it, or is
  consumed by only one of two sleepers.
* **Reset budget** (`gs2/vm.py:415`, `gs2_budget`): a host that calls a function of the
  machine it was called from sets that machine's `_ops_used` to 0, and the outer run
  goes on from there. An event on a machine in which a coroutine waits does the same to
  the coroutine (`:414`; there is no check in `call` or `iter_call`), and a coroutine that
  sleeps loses nothing, for its count begins anew. As long as no machine that has a
  frame on the stack is entered, the budget bounds every other run with all
  its calls (`gs2_machine`, whose `CounterIsOwn` leaves out the runs in `taken`).
* **Escaping null** (`gs2/vm.py:532`, `gs2_null`): the sentinel is collapsed before a
  reference is followed, so `null` in a list cell reaches a host function as it is.

The rest was met while the code was read against its own comments; the items on codecs,
properties and GS1 were reproduced with the library. No run shows them: but for the
last one, the models leave out the inputs that lead to them, so a passing run says nothing
about those inputs.

* *Codecs.* Gen3's `send_packet` advances the iterator before `_frame` drops an oversize
  bundle (`codec.py:657`), and every later filler is removed from the wrong place; Gen4
  and Gen5 check the size first. `write_position2` clamps to an odd maximum, whose
  low bit is the sign (`codec.py:345`): the largest positive position comes back negative.
* *Properties.* A tile at −11 puts a newline into the stream (`props.py:503`, against
  `:501`); a GSTRING longer than 223 misaligns what follows (`props.py:467`); a bare power value
  is written back as the text `None` (`props.py:479`).
* *GS1 executions.* `this_obj` and parameters are not set again on resume
  (`gs1/interp.py:300`), so two interleaved executions see each other's. The result of `_step()`
  at a loop head is ignored (`:251`), and a loop with one statement under an odd
  budget never yields. A timer assignment also ends an execution that was
  preempted and never slept (`:1213`). A resumed execution reads the flag of whatever
  event was fired last (`:400`).
* *GS1 lexer.* In the call form of the special-literal commands, as in
  `setskincolor(white)`, the closing parenthesis becomes a token (`lexer.py:982`, where `:128`
  says wrapper parentheses are syntax); `putnpc2(…, {…})` does the same. An unquoted raw
  argument in a call form, `say2(hello);`, and `#U(text)` swallow the rest of the
  script. Grouping parentheses in a direction argument, `shootarrow((a+1)%4)`, end the call
  early, as does the first parenthesis closed inside `playersays(a(b),c)`. A character of
  no token costs its own token in a statement or an expression (`:467`, `:693`), but raises, and
  with that costs the script, in a variable, a special literal, a parameter list and where
  a parenthesis of a call must come (`:771`, `:993`, `:1078`, `:1103`, `:1114`); the
  author writes one only where it is contained.
* *GS2.* The error limit only leaves the current frame, and a joined machine's
  `_errors` add up over events (`gs2/vm.py:549`, against `:301`). An instruction that raises is
  skipped, and its function goes on with whatever it left on the operand stack
  (`:544`–`:551`, against `:23`). A `null` that a script returns to the host through
  `iter_call` is not collapsed either.
* *GS2 lists.* `OP_ARRAY_MULTIDIM_ASSIGN` grows a row up to any index (`gs2/vm.py:1503`), though
  `:68` speaks of a cap on any index-driven growth, "applied wherever a script
  index controls array size"; `addarray` has no limit either (`:1843`), so that `x.addarray(x)`
  doubles a list. These two are in the model and in `gs2_operands`; `GrowthBounded` names
  them (`Uncapped`) as what it does not speak of. A script can therefore have longer lists
  than the comment promises, and the property is that nothing else adds to that.

## Proofs

Everything here is proved by TLAPS for every value of the constants that satisfies the
modules' assumptions (`CipherAssumption`, `SessionAssumption`, `OldAssumption` and so on:
any modulus, keys, messages, pipe bounds; any payloads, base and lengths; any machines
and programs; any scripts whose blocks nest; any argument strings of the tables' shapes, nested to any depth). Some theorems have a hypothesis besides, which
the passing run satisfies and a run or an item above shows to be needed:

| Hypothesis | Of | Why |
|---|---|---|
| `Gen3Fit` | all of `OldSessionProofs` | Gen3 advances its iterator for a bundle it then drops as oversize |
| `Legal`, in `PropsAssumption` | all of `PropStreamProofs` but `DecodeSafe` | longer text misaligns the stream, see *Properties* above; a pixel loses its sign, a negative effect color its list |
| `PositionsFit` | `FieldsInvariant`, `FieldsReadBack`, `ReaderAligned` | a clamped position loses its sign |
| `~ Reentry` | `CountersKept`, `CounterOwn`, `BudgetKept` | `gs2_budget`: re-entering a machine resets its count. For the same reason all three speak of runs not in `taken`: using a machine in which a coroutine waits resets the coroutine's |
| `OneResumable` | `CancelErasesSleep`, `ScopesKept`, `NothingBound` | `gs1_lost_cancel`; interleaved executions share `this_obj` |
| `Without("timeout")` | `CancelsOnlyErased` | a timer assignment also ends what the budget had suspended |
| `Without("while")` | `BudgetHolds` | a loop head ignores what `_step` answers |

The last two speak only of scripts that are fired under a statement budget.

* **The cipher** (the lemmas at the head of both session proofs, which have no module in
  common but `Cipher`): the types of its operators, and `CryptInverse`:
  decrypting in the same state undoes encryption. `Lcg` is a recursive function on
  `Nat`, whose existence needs induction. The induction theorems of the library take
  an operator parameter, so `NatSet` restates induction for a set (here and in the other
  modules that need it), and derives it
  from the well-foundedness of `<` (`WFMin`): a set of naturals whose complement is not
  empty has a least element outside. `TableExists` and `TableUnique` then build the
  iterator's table up to n, and `LcgType` follows.
* **Gen5SessionProofs**: `TypeCorrect` (`Spec => []TypeOK`), `SessionInvariant`
  (`Spec => []SessionInv`), `CiphersInStep` (`Spec => []InStep`), `UpRefines` and
  `DownRefines` (`Spec => UpLink!Spec`, `Spec => DownLink!Spec`). `InStep` is not inductive: it
  speaks of empty pipes only. The inductive invariant `TypeOK /\ SessionInv` says for
  every packet in flight where it takes the iterator (`Sealed`), and that the packets of
  a pipe lead, one after the other, from the receiver's iterator to the sender's
  (`Chained`: there is a sequence `at` of iterator values from one to the other).
  Sending appends a link, decoding removes the first. While the login is under way the
  receiver is the codec the server *will* have (`UpReceiver`); `LoginFirst` and `KeyPending`
  say that the login is the first packet, the only plain one, and carries the
  client's key. The refinements follow because the head of a chained pipe decodes to the
  bundle it stands for.
* **OldSessionProofs**: `OldTypeCorrect`, `OldSessionInvariant`, `OldInStep` and `OldRefines`
  (`Spec => Link!Spec`), by the same chain over one pipe, where the step a body takes
  depends on the generation: Gen4's on its limit, Gen3's is one, Gen2's and Gen1's none.
* **PacketStreamProofs**: `StreamTypeCorrect`, `NoPacketHeld`, `StreamInvariant`, `StreamRefines`. The
  invariant `StreamInv` says that the buffer and the wire together are the frames of what was
  sent and not read, one after the other (`Framed`), and that the buffer holds no whole
  frame. `GetPackets` is a recursive function on sequences, which exists because each round
  shortens the buffer (`CutShorter`, and `NatSet` on the length); `GetPacketsSplits` shows by the
  same induction that it takes off exactly the frames in front.
* **PacketFieldsProofs**: `GCharRoundTrip` to `GInt5RoundTrip`: each G-type integer is written
  in printable bytes and reads back as the number or its clamp; `ReadsNonNegative`. A number
  at the end of a width's range needs lanes above their seven bits. `Carry7`, `Carry14` and
  `Carry21` say that what a capped lane leaves is still in the range of the lanes below
  it, which is what makes the clamps (28767, 3682399, 471347295) the right ones.
  `GInt5RoundTrip` is of any integer, with the clamp to 32 bits.
  `NoControlBytes` (`Spec => []NoControlByte`) and `ReaderForward` (`Spec => ForwardOnly`) need
  `ReaderInv`: the packet is a sequence of bytes, and the reader is inside it. `FieldsReadBack`
  (`Spec => []ReadsBack`) and `ReaderAligned` (`Spec => []CursorAligned`) need `FieldsInv`: what was
  written lies in the packet field behind field, and the cursor is on the boundary of
  one or at the end.
* **PropStreamProofs**: `PayloadReadBack` says, for every wire form, every legal value and
  whatever bytes come behind, that `decode_value` returns `ReadBack` of what `encode_value` was
  given and stops where its bytes end, and that `payload_len` asks for no more. It has one lemma per
  form; `LanesOf` and `SumOfLanes` are recursive functions, and the lemmas of one to four
  lanes unfold them. Its other half is what happens when the data end inside a payload: the
  position comes to the end or past it, and past it by `payload_len`, but for an image
  form cut behind its power. `DecodeSafe` asks nothing of the bytes: whatever they are, the
  walk does not move back, which with the id's byte gives `Forward` (`Spec => WalkForward`) and
  `TypeCorrect`. `Invariant` proves `PropInv`: the properties lie one after the other in
  the data (`Streams`); the walk stands at `EndOf(Len(out))`, having called what was `Wanted`, up
  to a property that was cut (`InPlace`); a cut that was passed has been noticed
  (`Noticed`); a clean walk is at the end or past it (`Ended`); a whole ascending stream is clean
  (`WholeClean`). `StaysAligned`, `EveryValueArrives`, `TruncationIsSeen` and `WholeIsClean` are
  its consequences, `WritersAgree` and `NewlineOnlyThere` those of `TypeCorrect` and of
  the lanes. The last shows that the nudge of 223 guards a byte that is no newline (it is
  255), and that the byte that is one, 234, is the only one.
* **GS1LexerProofs**: `InStep` (`Spec => []ModesInStep`) and `AsMeant` (`Spec => []ReadAsMeant`),
  with `Invariant` (`Spec => []IInv`). `ModesInStep` compares
  the present mode and the counts with what the author has open, and is not inductive: leaving a
  construct brings back the mode, the counts and the comma flag saved when it was entered, and
  what some lexemes do depends on the last token. `IInv` says that the whole lexer is a
  function of the author, `lexer = Lex(author, lexer.last)`: one state for each construct that is
  open, its saved fields those of the construct around it; that the author's stack
  is well formed (`Shaped`); and that the last token is one after which the author may
  write what comes next (`Follows`). `PushLex`, `PopLex`, `NextLex`, `OpenLex` and `GroupLex` show
  that the operations on the stack commute with `Lex`; the rows (`ExprRows`, `ListRows`, and so on)
  are what each mode does with each class of lexeme; one lemma per action, `WordStep` to
  `SemicolonStep`, puts them together.
* **GS2MachineProofs**: `FramesNest`, `MachineTypeCorrect` and `SuspendableIsRight` of any program and any
  re-entry. `MachineInv` says how frames nest: an event at the bottom, a synchronous call on
  a host frame, a coroutine's frames on its own; a suspended coroutine keeps its
  frames as they were. `CounterInv` adds, without re-entry, which machine holds each
  run's count: the frames of a machine lie together, and the counter of a run is
  that of the last machine it came to. A coroutine that waits has its count in the machine
  it waits in until that machine is on the stack again: then it is in `taken`, and stays
  there until it has slept, ended or been dropped and the stack is empty. `CounterOwn` and
  `BudgetKept` (`Spec => []UntakenBounded`, a part of `CounterInv`) follow.
* **GS1SleepProofs**: `ExecutionsFit` and `SleepTypeCorrect`, of any scripts and any number
  of executions. `ExecInv` says that the frames of an execution are those of the blocks open
  at its place in the script, from the outside in (`Fits`), so that a `break` or a
  `return` lands inside the blocks whose frames it keeps, and a script ends with none.
  Each action is then shown to be one of six kinds of step (`StepIs`: go on, suspend, end,
  start, wake, close), and each of the other invariants is preserved by kind, not by
  action. `DoomInv` (what is doomed still sleeps, under a flag that still stands) gives
  `CancelErasesSleep`; `FlagInv` (what is suspended under that flag is doomed) gives `CancelsOnlyErased`
  (`Spec => CancelOnlyDoomed`); `SliceInv` (the counter has counted the slice) gives
  `BudgetHolds`; `ScopeInv` gives `ScopesKept` and `NothingBound`: every frame would restore what the
  frames below it bind (`Chained`), what is suspended starts from the NPC, and what runs
  starts from what is suspended (`Left`).

Each of these invariants was checked by TLC on the instance of the module's run before it
was proved. Two were found not to be inductive then and were strengthened: `Fits` now says which
kind of block each frame belongs to, and `SleepAssumption` that a script's blocks form a tree.

Only model-checked: liveness (the fairness halves of `UpChannel`, `DownChannel`,
`StreamChannel` and `Channel`, and `LoopEnds`, `Finishes`, `Terminates`), which is out of the
prover's reach; and `GS2Operands`, whose comparison and execution are recursive operators, which
the prover does not take.

## Not modelled

Generated tables (`gs1/_tables.py`), enumerations (`constants.py`), `coords.py`, the GS1
parser (no state between calls; its recovery is text handling), the GS2 container
and disassembler, the test suite and its tools, and the hosts. Logging, wording and
the text of errors. In particular:

* `Gen5Session`, `OldSession`: how a compressed image relates to its bytes; a
  decompression that exceeds its size limit counts as damaged.
* `PacketFields`, `PropStream`: text beyond its bytes (latin-1 and its replacements), and
  the two helpers that make up image names.
* `GS1Lexer`: characters, the text of tokens, the forms listed above, and mode X, which no
  entry of the tables uses.
* `GS1Sleep`: `for`, `if` and `switch`, calls inside expressions (whose yields are
  swallowed), `tokenize` state and `charprop_source`; the variable store.
* `GS2Machine`: what instructions compute; errors go on as `_run` does, but the bound is
  reached by the first one. `GS2Operands`: string, formatting, bitwise and mathematical
  instructions, `_NameVivifyRef`, script functions as values, and `foreach` over objects.

## Plan

1. *VarStore* (GS1 scopes and the comma-list functions), *Container* (the GS2 section walk
   and the instruction decoder), *Coords*.
2. *Connection*, which composes `Gen5Session` over `PacketStream` and refines the pair of
   channels end to end.
3. `GS2Operands` with its recursion as folds or functions over bounded lists, so that `Balanced`
   and `GrowthBounded` can be stated as theorems.
