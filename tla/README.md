# WasmEdge-EVMC: verification project

WasmEdge-EVMC is an Ethereum virtual machine behind the EVMC interface: a
client (a node, a test tool) hands it a message and a contract in Ewasm, it
runs the contract on the WasmEdge engine, and the contract reaches the
blockchain through the host functions of the Ethereum environment interface
(EEI). This directory holds TLA+ modules of that runtime, TLC configurations
that check them, and proofs for TLAPS.

## 1. Inventory

| Part | Source | State it keeps | Operations |
|---|---|---|---|
| EVM environment | `include/eeienv.h`, `lib/eeienv.cpp` | gas limit and gas used (by reference), caller, value, call data, address, code, return data, depth, flags, kind, revert flag | `setEVMCMessage`, `consumeGas`, `returnGas`, getters |
| EEI call helper | `include/eeibase.h` | none of its own | `callContract`, `addCopyCost`, `getMaxCallGas`, loads and stores of linear memory |
| EEI host functions | `lib/eeifunc.cpp`, `include/eeifunc.h` | none of their own | 35 functions: calls, creations, copies, getters, log, storage, finish, revert, selfDestruct, useGas |
| EEI module | `lib/eeimodule.cpp` | the environment | the import module `ethereum` |
| EVMC virtual machine | `tools/wasmedge-evmc/evmccreate.cpp` | one environment and one engine per activation of `execute()` | `evmc_create`, `execute`, `destroy`, `release` |
| EVMC ABI | `utils/evmc/include/evmc/evmc.h` | messages, results, the host's function table | |
| EVMC C++ wrappers | `evmc.hpp` | ownership of a result and of a VM, the cached transaction context | moves, `release_raw`, destructors, `HostContext` |
| EVMC loader | `utils/evmc/lib/loader/loader.c` | the last error message (global), open libraries, VM instances | `evmc_load`, `evmc_load_and_create`, `evmc_load_and_configure`, `evmc_last_error_msg` |
| EVMC helpers | `helpers.h` | none | null-tolerant wrappers |
| Mocked host | `mocked_host.hpp` | accounts, storage with a dirty bit, bounded records | the host interface |
| Example hosts | `test/evmc/`, `tools/soll-runtime-test/` | accounts, logs | the host interface; `call` re-enters the VM |
| Keccak | `utils/keccak/` | sponge state and block buffer | `addData`, `digest` |
| Instruction tables | `utils/evmc/lib/instructions/` | constant tables for each revision | two lookups |
| Test tool, tests | `soll_runtime_test.cpp`, `evmcTest.cpp` | | drivers |

How they interact. The client calls `execute(host, context, message, code)`.
`execute` builds an engine, an `EEIModule` and its `EVMEnvironment`, loads and
instantiates the code and runs `main`. Each host function the contract calls
works on the environment, on linear memory and on the host. `callContract`
calls the host, and the host may call `execute` again: executions nest, one
environment for each, and a whole call tree is one thread. The result of an
inner `execute` is the host's result, which `callContract` turns into gas
given back, return data and a status.

What is hard. No two threads share state here; the difficulty is in long
chains of legal calls that cross four layers. The gas of one execution is
counted twice, by the EEI in the environment and by the engine in its
statistics. Charges may fail half-way through a call. A call can trap before
or after the host has acted. Static mode, depth and gas must hold across every
kind of call and through a host that may do anything its interface allows.
Return data outlives the call that set it. `PROJECT.json` lists these hazards,
each with its line.

What makes each part correct:

- environment: its meter neither passes its limit nor wraps; giving back never
  creates gas beyond what was lent and the stipend;
- call helper: what is lent and what is kept add up; depth; static mode;
- host functions: nothing is written below a static execution; failures leave
  the meters within the limit;
- virtual machine: the result says how the contract ended, how much gas is
  left and what it returned; nested executions end;
- loader: an instance that is not returned is destroyed, the code of a live
  instance stays loaded, the last message is the last call's, and options
  arrive as they were written;
- wrappers: whatever is handed out is ended exactly once;
- `HostContext`: one execution sees one block, however often and from
  whatever place in it the transaction context is asked for;
- mocked host: the status of a write tells what the item went through in the
  transaction; the records hold what came first; recorded calls point at inputs
  that are still there;
- Keccak: the digest does not depend on how a message was cut into calls, nor
  on what the block buffer was used for before;
- tables: names and metrics define the same opcodes; the stack heights they
  require cover what instructions take; a revision keeps what the one before it
  defined.

## 2. Modules

| Module | Models |
|---|---|
| `EVMEnvironment` | one frame, that is one activation of `execute()`: its environment, the engine's cost and its phase; the operations on it as operators |
| `EEI` | the host functions, one action each, on the innermost running frame; `callContract` is cut in two at `Host.call` (`CallContract`, `CallReturns`) |
| `EwasmVM` | `execute()` from message to result, the engine and the host around it; a stack of frames |
| `EwasmVMProps` | the properties |
| `MCEwasmVM` | instances for TLC |
| `EwasmVMProofs`, `ResourceProofs` | the inductive invariant and the theorems; those about the whole stack: its gas, and that it is used up |
| `EVMCLoader` | the loader's functions, and a client with the create functions and raw pointers it got from them |
| `EVMCClient` | composes the loader with objects of the C++ classes `VM` and `result` |
| `EVMCClientProps`, `MCEVMCClient`, `EVMCClientProofs` | likewise |
| `NumberLemmas` | induction over numbers, for the proofs about sums and lists |
| `CallTree` | abstract: calls as levels that lend one another gas; what `EwasmVM` implements |
| `CallTreeProofs` | that it does, step by step |
| `MockedHost` | the host interface of `mocked_host.hpp`, with the records, and what a test does with the public members |
| `HostContext` | composes one mocked host with the `HostContext` object of every execution in progress |
| `HostProps`, `MCHost`, `HostProofs` | likewise |
| `Sponge` | abstract: a hash of whole padded messages; what `Keccak` implements |
| `Keccak`, `KeccakProofs` | the block buffer of `Keccak.cpp`, its properties and their proofs |
| `Instructions`, `InstructionProofs` | the instruction tables of all revisions, and a program that runs under two of them; the proofs about them |
| `MCUtilities` | `Keccak` and `Instructions` on small instances, in one run |

The families share no state. A client (`EVMCClient`) owns an instance, and
inside its `execute` the runtime (`EwasmVM`) runs; the host of that runtime may
do whatever the interface allows, of which `MockedHost` is one way. `HostContext`
looks at the same calls from the host's side, where the order of what several
executions ask matters. The two utilities are called by clients and hosts.

State. `frames` is the C++ call stack: every frame but the innermost is inside
`Host.call` (phase `call`). A frame holds the message, `CallValue` (kept
reversed, as `setEVMCMessage` does), `used` (the environment's `GasUsed`),
`cost` (the engine's `TotalCost`), `returnData`, `isRevert`, its phase, and
for a waiting frame the message it sent (`out`) and the gas it had when the
call function was entered (`before`, a history field that no action reads).
`reply` is the result on its way to the innermost waiting frame, or to the
client when the stack is empty. `storage`, `logged` and `destructed` are what
the EEI changes in the host.

Actions. Every host function is one action: its static cost (charged by the
engine before it enters the function), its own charges, its early returns in
the order of the code, its effect. Functions that only read and store to
memory share `Reading`; the copy functions share `Copying`. `Execute`,
`HostExecutes`, `HostAnswers` start an execution or answer for the host;
`CodeReturns`, `CodeTraps` end the contract's code; `Return` builds the result.
There is no concurrency to interleave: exactly one frame runs, so an action may
stand for a whole function, but for the gap at `Host.call`.

State of the client. `lastError` is the loader's global message, `opened`
counts the references to each library, `origin` and `destroys` say which
library created an instance and how often it was destroyed. `call` is
`evmc_load_and_configure` between two options (its fields `text` and
`accepted` are history), every other function is one action. `held` and `kept`
are the C++ objects; `raw`, `rawResults` and `functions` what the client holds
without one. `allocated` and `releases` follow the memory of results. The
client may do anything the headers allow: it uses what it holds, forgets what
it has ended, and never assigns a result to itself, as `evmc.hpp` demands. The
loader "is not thread-safe", so its functions do not overlap.

The abstract call tree. `CallTree` says what calls below a message promise
without host functions, costs or kinds of call: a level spends (`Spend`), lends
to one level below it with a gift that may come along (`Lend`), the loan becomes
a level (`Enter`) or is answered without one (`Decline`), a level ends with an
answer (`Leave`) and the lender gets no more back than the answer says
(`Resume`). A static level writes nothing, and lends only to static levels or a
CREATE2. `EwasmVMProps` maps a frame to a level (`LevelOf`: its gas limit, the
gas its environment has left, its depth and static flag, and for a waiting frame
the message it sent as the loan), the stack to `Levels` and the reply to
`Answer`; gifts are the stipend of 2300, or none. `CallsFormTree` is `Tree!Spec`.
Host functions map to `Spend` or a stutter, `CallContract` to `Lend`,
`CallReturns` to `Resume`, `HostExecutes` to `Enter`, `HostAnswers` to `Decline`,
`Return` to `Leave`.

State of the hosts. `storage` holds for each item its value and dirty bit, as
`storage_value` does; `inputs` with `capacity` and `generation` is the vector
that keeps the inputs of recorded calls, where the generation counts how often
the vector has moved, so that a pointer into it is a place and a generation.
`accessed`, `history` and the `sent` field of a recorded call are history: all
accesses, the values an item went through in the transaction, and the input
itself. `cached` is the transaction context of each `HostContext`, zero when
fresh, and `block` the first answer with a timestamp it gave. There is one action
for each host method and one for each thing a test does with the public members:
it adds an account, sets the context, clears the record of calls. Any of them
may happen between two host calls of any execution, since a host answers a call
with an execution, which makes its own host calls.

State of Keccak. `A` is the sponge state, as the bytes it absorbed; `buffer` and
`bufferLen` are the object's; `input` is what a call of `addData` has still to
copy, for each turn of its loop is a step (`CopyTurn`). A digest leaves the
buffer's content in place, as the code does. `Sponge` has the message itself and
the padding by its definition; the refinement maps the message to what is
absorbed followed by what the buffer holds.

State of the tables. The code repeats all 256 rows for each revision; here a
revision is the table before it with the rows that differ, and names are the
opcodes that have one. A client that interprets EVM code takes one program
through two revisions at once (`ExecuteOpcode`), the older of which goes on;
`height`, `extra` and `upset` are what this does to stack and cost.

What is abstract:

- A file name is one of its kinds: unusable, not a library, a library without
  a create function, one whose instances have another ABI version, take no
  options, or take options. Messages are the code they describe; whether one
  fits its buffer depends on names, so either happens. Option texts are
  sequences of a letter, the comma and the equals sign.
- Linear memory. An access may be out of bounds whenever the code makes one;
  the function then fails at that point, with what it has charged by then.
- Byte vectors are members of a small set; only being empty, a digest, a
  module, with a start section, with a memory is told apart. Addresses are a
  set with two special members. Words have `WordLen` bytes; only byte order, being null and
  the upper half matter.
- The status a call function returns to the contract (0, 1, 2) is not kept:
  the contract may do anything next.
- Balances: the host's answer is `enough`, `short` or `huge` (a number over
  128 bits, on which the conversion fails).
- What the mocked host only hands out (balances, code, code hashes, call
  results) and the contents of logs: such a method leaves the trace of its
  account access.
- The permutation `keccakf`: what a digest is computed from is kept instead.
- A transaction context is its timestamp and its block number.

What is external, and assumed:

- The engine charges `StaticCost` before each host function when
  `CostMeasuring` holds, and refuses the call with the cost left at its limit
  (`Affordable`, `Charged`, `OutOfCost`). Whether a build measures costs is
  the engine's configuration, so it is a constant and the theorems hold for
  both. Wasm instructions cost nothing: `execute` sets an empty cost table.
- The engine runs a start function during instantiation, as WebAssembly says;
  `execute` refuses such a module only afterwards, so its host calls happen.
- `finish`, `revert` and `selfDestruct` end the contract through
  `ErrCode::Terminated`, which the engine reports as success.
- The host answers with at most the gas of the message, possibly negative,
  and none with a failure; or it runs the message in this VM with any code. It does not
  roll anything back in the model: rolling back is the client's task, and the
  properties about storage are about what the EEI lets through.
- The client's first message has a depth of at most 1024.

## 3. Runs

Words have two bytes, the gas costs are the code's own. The first message has
a depth of 1022 or 1023, so the stack is two or three frames high and meets the
limit of 1024: whatever a frame does it does relative to its caller, so two
levels show every pair and the third shows what passes through a level.

| Run | Checks | Why these bounds |
|---|---|---|
| `calls` | `TypeOK`, `MeterWithinLimit`, `CallFunding`, `ResumeGas` | 9050 gas pays the transfer of value and then not the gas lent, so the failing charge happens; the host may answer -1; between calls the contract copies nothing or more than it can pay for, reads, and self-destructs |
| `stack` | `DepthDiscipline`, `StackGas`, `NoWriteUnderStatic`, `CallsFormTree` | three levels, every kind of call, a stipend at each level, almost no other gas; storage writes everywhere, and logs with none and too many topics, with none and too much data |
| `metering` | `ResultContract`, `CallsEnd`, `CallsUseUp` | costs measured; 1600 gas is two calls of 700 and some getters, or one `useGas` too much; a creation whose output, or a callee's return data, is data, a module, or one with a start section |
| `client` | `TypeOK`, `InstancesOwnedOnce`, `ResultsOwnedOnce`, `CodeStaysLoaded`, `MessageOfLastError`, `OptionsAsWritten` | one file of each kind; two instances and two objects of each class, for an assignment needs two; one block of memory; each library loaded once; texts of up to two options, with no value, a value and one that holds a delimiter |
| `host` | `TypeOK`, `DirtyTellsHistory`, `StatusTellsHistory`, `OneBlockPerExecution`, `RecordsFirstAccesses`, `InputsStayValid` | two executions, a context without a timestamp and two with one; the limits of 200 accesses and 100 calls are scaled to two and two, and three accesses pass both; an item takes three values, so it can change, go back and change again; of the records without a limit one entry |
| `utilities` | `BufferHasRoom`, `DigestsWholeMessage`, `LoopEnds`, `TablesAgree`, `StackCovered`, `UpgradeKeepsPrograms` | blocks of three bytes and messages of up to five, so that a message ends in each place of a second block and padding takes one, two or three bytes; twice in a row, over a used buffer; all 256 opcodes, all pairs of revisions, a stack of 18, one more than SWAP16 needs |
| `loan`, `gas_left`, `output`, `delegate_value`, `static_create2`, `deployed_start` | one property each, violated | see below |

`NoWriteUnderStatic` compares a storage write with every frame of the stack;
`ResumeGas` compares the gas before a call with the gas after it, whatever
happened in between; `StackGas` sums the stack; `CallsFormTree` is the refinement; `CallsEnd` is
liveness, and `CallsUseUp` the reason for it that no fairness is needed for. The mutants in `PROJECT.json` name, for each property, a slip in the code that it
catches: a charge that does not clamp, a refund that wraps, a cap left out, a
depth check off by one, a static check that forgets creations, a verification
that overwrites a revert, a callee at its caller's depth, a cost that is never
recorded. The engine's cost meter is not the code's own and has no invariant in the
runs; where it reaches the code, in the gas an execution reports as left,
`ResultContract` bounds it.

Deadlock is checked: the client can always start the next message, and can
always ask for the last error message. Loader and wrappers promise nothing
about what must eventually happen, so no fairness is stated for them; instances,
objects and blocks are interchangeable there and declared symmetric.

For `client` the slips are an instance kept when it refuses an option, a
`release_raw` that still releases, a library closed although it is used, a
message that is not reset, a token that keeps its delimiter, and a create
function returned where there is none. `OptionsAsWritten` compares the two
nested calls of `get_token` with the inverse operation, `WrittenList`, defined
from the syntax in `loader.h`.

For `host` they are a record that takes one entry more than its limit, a
deleted item taken for a clean one, a dirty bit that is not set, a context asked
for again each time, and a vector without reserved room. `StatusTellsHistory`
compares the status with the whole history of the item, of which the code keeps
one bit, by the table in `evmc.h`. `InputsStayValid` is about the comment
"Iterators will not invalidate" in `mocked_host.hpp`; it holds as long as no
more inputs than the record holds have been copied. A test that clears
`recorded_calls` (the copies are private and stay) and goes on past that has
pointers that dangle, which the precondition of the property leaves out. The
executions are interchangeable and declared symmetric.

For `utilities` they are a buffer that is absorbed and stays full, padding over
an earlier block's bytes, a loop that leaves the last byte free, a metrics row
that is missing, a LOG that requires one stack item too few, a name table that
starts from the wrong revision. Keccak and tables have nothing to do with each
other, and each is explored while the other is at rest.

Fairness: `addData` runs its loop to the end (weak fairness of `CopyTurn`, with
which `LoopEnds` says that every turn copies something). For the runtime
(`FairSpec`): it returns from `execute` and `callContract`, both straight-line
code, and the host answers a call or runs it. Nothing is assumed of the
contract's code, which may loop for ever, or of the client.
`CallsEnd` therefore says: with costs measured, either the stack is empty again
and again or from some time on one contract computes by itself. With
`CostMeasuring = FALSE` it does not hold, since a call may give back
all the gas it took.

Disagreements found. Each has a run whose property quotes the text.

- `loan`: `eeibase.h` line 187 says the gas for the callee is ensured to be at
  most what the caller has; it is capped before the 9000 and 25000 of a value
  transfer are charged, and the result of charging it is ignored.
- `gas_left`: the result's gas is computed from the engine's cost alone;
  `execute` binds the environment to copies of the engine's numbers.
- `output`: return data of an earlier call becomes the output of a contract
  that ends without `finish` or `revert`.
- `delegate_value`: `getCallValueEVMC` copies the reversed value unreversed.
- `static_create2`: CREATE2 is missing from the static check and starts with
  no flags.
- `deployed_start`: the verification of deployed code accepts modules WITH a
  start section and refuses those without; `execute` itself refuses the former.

## 4. Proofs

`EwasmVMProofs` proves, for every value of the constants that satisfies the
assumptions (any gas arguments, lengths, depth of the first message up to
1024, word length, host answers, with or without cost measuring): `TypeOK`,
`MeterWithinLimit`, `DepthDiscipline`, `CallFunding`, `ResumeGas`,
`NoWriteUnderStatic` and `ResultContract`; `ResourceProofs` adds `StackGas` and
`CallsUseUp`.

The argument. None of the invariants is inductive by itself: that a refund
does not exceed the caller's meter's range needs the callee's gas to be the
message's, that needs caller and callee to be linked, and the bound on a reply
needs the meters of the frame that made it. `Inv` has these parts:

- every frame is well formed (`OK`): its meters are within the limit, a
  waiting frame's message is the successor of its own (depth plus one, below
  the limit; static passed on unless it creates), and what it lent and kept is
  funded by `before`, which is no more than its message's gas;
- neighbours are linked: the upper frame runs the message the lower one sent,
  so it has its depth, gas, kind and flags;
- depth counts levels; static mode passes from level to level (`StaticBelow`);
- a reply for a waiting frame leaves no more gas than that frame lent.

One lemma per action shows that it preserves `Inv`, by way of three lemmas on
changing, pushing and popping the top of the stack; the action properties
follow from `Inv` and from what each action may change.

`StackGas` sums over the stack. Each waiting frame and the one it waits for have
together what the first was given and a stipend (`LevelGas`, from `Inv`), and
these add up by induction over the height (`StackIsFunded`). The induction
theorems of the library take an operator, which no prover here can instantiate;
`NumberLemmas` has one that takes a set instead, from the theorem that a well
founded relation has minimal elements. With it the recursive function that sums
is shown to be what its recursion says (`SumsUnfold`).

That calls come to an end has a safety half, which is proved for all constants.
What an execution can still use up is a triple: the cost the engine may still
charge, how far it is from its next charge (`Stage`), and the gas of its
environment. `CallsUseUp` says that with costs measured every step lowers the
stack of these triples (`Remainders`) in the order that compares the outermost
execution first: a refund raises the third part of a caller whose second part
has fallen, and a new execution only appears below one that is unchanged. A host
function with a static cost lowers the first part by that cost; `useGas`, which
has none, lowers the third, and `useGas(0)` is a stuttering step. The proof
(`CallsAreUsedUp`) has one lemma per group of actions. `RemaindersAreBounded`
says that the stacks are no higher than depth allows, and `LoweringEnds` that the
order is well founded on stacks of bounded height, by induction over that height:
the least first triple (`LeastRemainder`) reduces a stack to what is above it.
The three together leave no chain of calls, refunds and creations without end;
what `CallsEnd` adds, and TLC checks, is that whoever has a step to take takes it.
With `CostMeasuring = FALSE` none of this holds, as said above.

`DelegatesCarryReversed` says how far the finding of `delegate_value` reaches: in
every instance a delegated call carries the value reversed, so the promise is
kept exactly when the value reads the same from both ends. Its invariant
(`Values`) is that the environment keeps what `setEVMCMessage` stored.

`CallTreeProofs` proves that the runtime implements the call tree
(`CallsAreATree`), for the same constants. `Inv` gives what the mapping needs: a
lender's message is one deeper and static where it must be, and a reply leaves
no more than was lent. One lemma per action of the runtime names the step of the
tree it is; what an action does to the top frame is turned once, by lemmas on
the mapping, into what it does to the levels.

`EVMCClientProofs` proves `InstancesOwnedOnce`, `ResultsOwnedOnce`,
`CodeStaysLoaded` and `MessageOfLastError` for any files, instances, objects
and blocks, from `FilesAssumption` and the assumptions that the distinguished
values are distinct. Its invariant states ownership owner by owner for one
instance or block (`InstanceOK`, `MemoryOK`), which the solver can check action
by action, and adds what makes it inductive: nothing is destroyed or released
before it exists, the library of an instance is open even after the instance is
destroyed, and no message is pending while options are set. Two lemmas turn it
into the properties as stated.

`ClientTypes` then proves `TypeOK`: what is new is that the two parts `get_token`
makes of a text are texts, which needs that there is a first delimiter
(`PositionIsFound`). `OptionsAreAsWritten` is `OptionsAsWritten` for any lists of
options whose names hold no delimiter and whose values hold no comma
(`ListsAssumption`; a value may hold an equals sign): a text before the first
comma is what the first option was written as (`FirstToken`, `LastToken`), that
text is split into name and value again (`WrittenIsSplit`), and so, option by
option, what is accepted is the beginning of the list and what is left is
written from the others (`SplitOK`).

`HostProofs` proves all six properties of the `host` run, for any addresses,
values, executions and limits. The invariant has one part for each part of the
state (`StorageInv`, `AccessInv`, `CallInv`, `ContextInv`, `RecordInv`), and
frame lemmas say that an action that leaves a part alone preserves it. What
makes it inductive: that room for the inputs of recorded calls is reserved
before the first is copied, and that a context with a timestamp is the one the
execution was first given.

`KeccakProofs` proves that the buffer always has room (`RoomInvariant`) and that
Keccak implements `Sponge` (`KeccakIsSponge`), for any block length and
messages. The first is inductive and bounds every write to the buffer; the
second needs that writing into the buffer appends to the message, that what a
turn copies and what it leaves are the input, and that the padded buffer is the
padding by definition, at the end of a block too. The code absorbs words of eight
bytes, so its block lengths are multiples of eight; the proof needs no more than
one byte.

`EveryTurnCopies` is the half of `LoopEnds` without fairness: in every state a turn
of `addData`'s loop copies at least one byte and no more than are left, and while
some are left every step of the object shortens them.

`InstructionProofs` proves `TablesAgree`, `StackCovered` and `UpgradeKeepsPrograms`
for any stack limit, hence for the 1024 of the EVM too, where TLC takes 18. The
256 rows are not enumerated: a fact about the rows of the first revision is
established range by range, as the table lists them, and each later table is the
one before it with a few rows changed, which are looked at once (`ChangedRows`, one
lemma for each table, collected in `NextRevision`). Facts about two revisions
follow by induction over those between them (`LaterRevisions`). The invariant (`ProgramInv`) has both runs at one height within the stack,
the extra cost a natural number, and neither run upset.

Only model-checked: `CallsEnd` and `LoopEnds`, which are liveness under fairness.
Of both the part that needs no fairness is proved, as said above. The violation
runs are counterexamples and need no proof.

## 5. Not modelled

- The permutation `keccakf`: bit arithmetic without control. A test vector
  shows more of it than a model.
- The classes of `evmc.hpp` for addresses and words, with their comparisons
  and hashes; the string conversions of `eeienv.h`, used for logging only; the
  getters of `VM`; the helpers that call a function pointer or test it.
- `evmc_create`, `destroy`, `release` and `get_capabilities` of the VM: they
  allocate, free, or return a constant.
- The example hosts and the host of the soll tool: doubles of a client, covered
  as one of the hosts that `EwasmVM` and its properties allow.
- The command line tool `soll_runtime_test`, the tests and the build files: no
  behaviour of the system. Tests were read as evidence of what is intended.
- Memory the repository does not say anything about: whether `&Data[0]` of an
  empty vector may be taken, and whether `log` and `selfDestruct` should work in
  static mode, are in the list of hazards without a property.
