# NodeBooster in TLA+

NodeBooster is a library, `libnodeboost`, cut out of Bitcoin Core 0.9, and a
server stub around it. This directory holds TLA+ specifications of the library's
parts, those that keep a state and those that only compute, TLC configurations
that check them on small instances, and proofs, checked by TLAPS, of what holds
for instances of every size.

Paths below are relative to `src/src/bitcoin/` unless they say otherwise.

## The system

`src/src/nodeboost/NodeBoostMain.cc` binds a ZeroMQ REP socket, prints a line and
exits. `src/test/TestMain.cc` runs a test suite that holds no test. Everything
else is the library:

| component | source | state it keeps | operations |
|---|---|---|---|
| locked page manager | `allocators.h`, `allocators.cpp` | histogram of lock counts per page, a mutex, the system's page locks, the singleton | `LockRange`, `UnlockRange`, `GetLockedPageCount`, destruction; called by `LockObject`, `UnlockObject`, `secure_allocator` |
| data stream | `serialize.h:806-1098` | `vch`, `nReadPos`, `state`, `exceptmask` | `read`, `ignore`, `write`, `+=`, `<<` of a stream, `insert`, `erase`, `resize`, `clear`, `GetAndClear`, `Compact`, `Rewind`, `exceptions` |
| buffered file | `serialize.h:1224-1366` | a ring buffer, `nSrcPos`, `nReadPos`, `nReadLimit`, `nRewind`, `state`, the position of the `FILE*` | `read`, `FindByte`, `SetPos`, `Seek`, `SetLimit` |
| serialization formats | `serialize.h` (the rest), `version.h` | none; `CAutoFile` keeps a `FILE*` and a failbit | `CompactSize`, `VarInt`, strings, vectors, maps, `CAutoFile` |
| keys | `key.h`, `key.cpp` | `CKey`: `fValid`, `fCompressed`, 32 secret bytes; `CPubKey`; `CExtKey`, `CExtPubKey` | `Set`, `MakeNewKey`, `SetPrivKey`, `Load`, `Sign`, `SignCompact`, `RecoverCompact`, `Derive`, `Neuter`, `Encode`, `Decode` |
| block Merkle tree | `core.h:396-453`, `core.cpp:220-268` | `vtx`, which is public, and `vMerkleTree`, a cache of its hashes | `BuildMerkleTree`, `GetMerkleBranch`, `CheckMerkleBranch`, `GetTxHash`, `SetNull` |
| transactions and amounts | `core.h`, `core.cpp` (the rest) | values | `CompressAmount`, `DecompressAmount`, `IsNewerThan`, `GetValueOut` |
| scripts | `script.h`, `script.cpp` | a byte vector; the templates of `Solver`, built on first use | pushes, `GetOp2`, `FindAndDelete`, `GetSigOpCount`, `SignatureHash`, `Solver`, `ExtractDestination`, `CScriptCompressor` |
| big numbers | `bignum.h`, `uint256.h` | values | arithmetic, shifts, comparison, `SetCompact`, `GetCompact` |
| settings | `util.h`, `util.cpp` | `mapArgs`, `mapMultiArgs` | `ParseParameters`, `GetArg`, `SoftSetArg`; hexadecimal and base 64, which keep nothing |
| chain parameters | `chainparams.h`, `chainparams.cpp` | `pCurrentParams` | `SelectParams`, `SelectParamsFromCommandLine`, `GetBlockValue` |
| addresses | `base58.h` | values, read with the current parameters | base 58 with and without checksum, `CBitcoinAddress`, `CBitcoinSecret` |
| HTTP client | `rpcprotocol.h`, `rpcprotocol.cpp` | the stream it reads | `HTTPPost`, `ReadHTTPStatus`, `ReadHTTPHeaders`, `ReadHTTPMessage` |
| hashes | `hash.h`, `hash.cpp` | running SHA contexts | `Hash`, `Hash160`, `MurmurHash3`, HMAC-SHA512 |
| formatting | `tinyformat.h` | none | third-party `printf` replacement |

How they interact: keys put their secret bytes in storage that the locked page
manager pins, through `LockObject` (stack and members of `CKey`) and
`secure_allocator` (`CPrivKey`, `SecureString`), from any thread. Everything that
is hashed, sent or stored goes through the serialization templates into a data
stream, a hash writer, a `CAutoFile` or out of a buffered file. Blocks hash
their transactions into a Merkle tree. Addresses and secrets in base 58 take
their prefixes from the chain parameters current at the time, which the command
line selects through the settings. In `script.cpp` the interpreter and the
signing half (`EvalScript`, `CheckSig`, `SignSignature`, `CombineSignatures`,
`IsMine`, the signature cache) are commented out, as are the server half of
`rpcprotocol.cpp` and the JSON functions; they are not part of the program.

### What is hard in it, and what makes each part correct

* **Locked page manager.** Any number of threads; memory locks do not stack, so
  the counter per page is all that keeps one object's release from exposing
  another's key; asserts that end the process if the books ever fail to balance;
  an `mlock` that fails unnoticed. Correct: counters are exact at every step,
  key material is pinned from the first byte written to the last cleansed, no
  lock is leaked, no assert fires.
* **Data stream.** Four operations move `nReadPos`, five clear the buffer on the
  way, one reuses bytes already read. Correct: it is a queue of bytes, of which a rewind
  brings back exactly the last that left it.
* **Buffered file.** A ring that wraps, refills in pieces, keeps bytes for a
  rewind and can be moved by `Seek`. Correct: the bytes read are those of the
  file; every rewind that is accepted is honoured; searches end and find the
  first match.
* **Serialization formats.** Every encoding must be read back as what was
  written, and only one encoding of a size be accepted; integers have widths; a
  damaged file must not make the reader allocate what the file does not hold; the
  handle of a `CAutoFile` is closed once.
* **Keys.** `fValid` must say whether the bytes are a key through every failing
  path; derivation from the private and from the public side must agree;
  recovery must accept what signing produces, up to the candidate it refuses.
* **Block Merkle tree.** The cache is valid only while `vtx` is unchanged, and
  nothing marks it as stale; odd rows double their last node. Correct: the root is
  that of the tree, every branch leads to it, a stale tree stays harmless.
* **Transactions and amounts.** Amounts must survive compression; a signature
  must cover exactly the parts its type names, through copies that are blanked,
  cut and resized; records are read over old ones, or half of them.
* **Scripts.** Parsing must never run past the end, a script cut short in a push
  included; removal of a signature must respect instruction boundaries; what the
  templates recognise must be what the makers make.
* **Big numbers.** Shifts, carries and borrows across words; the sign bit in the
  byte forms of `CBigNum`; widths that overflow.
* **Settings and chain parameters.** `ParseParameters` inserts into the map it
  iterates over, so the outcome depends on the order of the names; the network is
  read out of what comes of it.
* **Addresses.** An object keeps the version bytes of the network it was made on
  and is asked about on another; zeroes, spaces and version bytes of several
  lengths are handled apart from the number.
* **HTTP client.** A reply cut short, negative or huge lengths, a header that
  appears twice or is left from the reply before.

The hazards are listed one by one, each with its line and the properties that
cover it, in `PROJECT.json`.

## Modules

| module | what it is |
|---|---|
| `PinnedPages` | abstract: the promise of the locked page manager to its users |
| `LockedPages` | `LockedPageManagerBase` and its users, one action per step of a loop |
| `ByteQueue` | abstract: the promise of `CDataStream`, a queue of bytes whose last bytes can come back |
| `DataStream` | `CDataStream` |
| `DataStreamProofs` | its types, the refinement of `ByteQueue` and `RewindUndoesRead`, proved |
| `BufferedFile` | `CBufferedFile`, one action per iteration of a loop |
| `MerkleTree` | the tree of a `CBlock` |
| `MerkleTreeProofs` | its properties, proved for blocks of any number of transactions |
| `Settings` | the command line: `ParseParameters`, `SoftSetArg` |
| `ChainParams` | the parameters of the three networks, `GetBlockValue` |
| `Startup` | composes `Settings` and `ChainParams`: `SelectParamsFromCommandLine` |
| `Base58` | base 58 and its checksum, `CBase58Data` |
| `Addresses` | `CBitcoinAddress`, `CBitcoinSecret`, the extended keys' text, while the network changes |
| `Http` | reading replies from a connection that is cut |
| `Node` | composes `Startup`, `Addresses` and `Http` |
| `NodeProofs` | settings, network, subsidies, replies, addresses and base 58, each proved by itself and of the node |
| `ModularInt` | abstract: arithmetic modulo a power of two |
| `Numerals` | natural numbers in digits of any base, and the powers of one |
| `BigNum` | `CBigNum` and the bytes it exchanges with OpenSSL |
| `Numbers` | `uint256` word by word next to a `CBigNum` |
| `Encoding` | compact sizes, VARINTs, strings, vectors, pairs, maps, sets; reading that fails |
| `EncodingProofs` | each format is read back, in one form only, whatever bytes follow, proved |
| `Serialization` | a `CAutoFile` through which they are written and read |
| `SerializationProofs` | its properties proved, and after them those of `BufferedFile` |
| `Script` | `CScript`: pushes, instructions, deletion, counting, canonical forms |
| `Standard` | `Solver`, destinations, the compressed form |
| `Scripts` | a script under the calls that change it |
| `Transaction` | `CTransaction`, `CTxOut`, amounts, undo records |
| `SignatureHash` | what a signature of each type commits to |
| `Transactions` | a transaction that is signed, changed, read; an undo record |
| `TransactionsProofs` | its values, its signature hash and its reading, proved |
| `Curve` | the part of OpenSSL that keys rely on, external |
| `Key` | `CPubKey`, `CKey`, `CECKey` |
| `ExtKey` | derivation, `CExtKey`, `CExtPubKey` |
| `Keys` | a private and a public extended key under every operation |
| `KeysProofs` | its properties, proved for every curve of prime order, and after them those of `LockedPages` with the refinement of `PinnedPages` |
| `Induction` | induction over sets of numbers, rows of equal length, division, digits: what several proofs need |
| `MCMemory` | the instance of `Keys` and of `LockedPages` (over `MCKeys`, which the violation runs use by itself) |
| `MCBlocks` | the instance of `BufferedFile` and of `MerkleTree` (over `MCBufferedFile`, likewise) |
| `MCEncodings` | the instance of `Numbers` and of `Serialization` |
| `MCTransactions` | the instance of `Transactions` and of `DataStream` |
| `MCNode`, `MCScripts` | the instances of `Node` and of `Scripts` |

Two modules hold the proofs of two components each, the two that deal with files and the
two that deal with secrets. So that nothing has two meanings there, the parts of `LockedPages` and
`BufferedFile` that every specification has carry a prefix: `PagesInit`, `PagesNext`, `PagesSpec`,
`PagesTypeOK`; `BufferInit`, `StreamInit`, `NumbersInit` and so on.

Four instances put two components next to each other that belong together in the program but have no variable
in common: the keys and the locked memory their bytes are in, the file blocks are read from and the tree of a
block, the numbers and the encodings, the transactions and the stream they are written to. One of the two moves
while the other is as it was at first. Nothing is lost by that: no guard and no property of the one reads a
variable of the other, so each of their interleavings has the same steps of each.

The layers follow the headers: `Script` stands on `Encoding` and `BigNum` (numbers
are pushed as `CBigNum` bytes, scripts are written as byte vectors), `Standard` on
`Script`, `Transaction` on `Standard`, `SignatureHash` on `Transaction`.
`Numerals`, `Encoding`, `BigNum`, `Base58`, `Script`, `Standard`, `Transaction`, `SignatureHash`,
`Curve`, `Key` and `ExtKey` have no variables: they are the functions of the code
as operators, recursive functions where it loops, and the module with the
variables that extends them has the objects these functions work on.

Each module of a component also holds, next to the definitions they vary,
operators commented "Slip": the same operation with one plausible mistake in it.
No specification uses them. Substituting a slip for the original makes one
property of a run fail, which shows that the property depends on that line of
the code; `PROJECT.json` pairs them under `mutants`.

Several properties are conjunctions of named ones. The names of the parts are
given with each below; a part is documented where it is defined.

### LockedPages

*State.* `histogram`, `mutex` and `osLocked` (the pages for which `mlock` is in
force) belong to the manager; `pc[b]` and `page[b]` are the program counter and
the loop variable of the thread that works on block `b`, the storage of one
object; `dirty` is the set of blocks whose bytes hold key material; `manager`
and `aborted` record the end of the process. No two threads work on the same
object, so one program counter per block covers any number of threads.

*Actions.* `Allocate` and `Free` are the life of the storage; `EnterLockRange`
and `EnterUnlockRange` take the mutex, handle `!size` and compute the first
page; `LockFind`, `MlockPage`, `BumpPage`, `LockReturn` are the steps of the loop
at `allocators.h:53-65` and `UnlockFind`, `DropPage`, `MunlockPage`,
`UnlockReturn` those of the loop at 76-88; `Write` and `Cleanse` are what the
users do with the bytes; `DestroyManager` is the static destructor. `mlock`
returns any value in `MlockOutcomes`. `munlock` does not fail: it is called on
mapped pages only.

*Checked.* `Memory`: blocks that share a page, span three, are empty,
lie alone and reuse another's bytes, in every interleaving. `PagesTypeOK`,
`HistogramExact` (a page's counter is the number of blocks counted on it at that
very step, also in the middle of the loops), `NoAssertFails`, `SecretsPinned`,
`LocksNeeded` (the system's locks are exactly those needed whenever nobody holds
the mutex), `NoRemains` and `KeepsPromise`, the refinement of `PinnedPages`.
`RangeReturns` holds under weak fairness of the steps inside the
critical section; they wait for nothing, so a scheduler that runs every runnable
thread eventually is all that is assumed. No fairness is assumed of who gets the
mutex, nor of the users. The run takes `MlockOutcomes` to be `{TRUE}`; what
becomes of the other outcome is said under the findings.

*Proved*, for every set of blocks and every layout: `PagesTypeOK`, `HistogramExact`,
`NoAssertFails`, `NoRemains`, and, if `mlock` never fails, `SecretsPinned`,
`LocksNeeded` and the refinement. The inductive invariant has four parts beyond the
types: the block in a critical section is the one that holds the mutex; its loop
variable lies between its first page and one past its last; every counter equals
the cardinality of the set of blocks counted on the page; and the control point
agrees with the counter just looked up (`"mlock"` is reached with a counter of 0,
`"munlock"` too, `"bump"` and `"drop"` with a positive one). They are `MutexHeld`,
`CursorInRange`, `HistogramExact` and `FoundIsFresh`. `HistogramExact` alone
is not inductive: without the fact that the mutex admits one block to the loops
nothing keeps the counter looked up by `LockFind` as it was. With `mlock` that
never fails there is a fifth part, `OsFollows`: the locked pages are those with
a positive counter, plus the page about to be unlocked.

### DataStream

*State.* `vch`, `nReadPos` and one bit each of `state` and `exceptmask` (the program
uses only the failbit); `last` records the operation and what it returned.
A second stream that is appended or shifted in is a record of its own `vch` and
`nReadPos`. Positions given as iterators are offsets from `begin()`.

*Actions* carry the names of the methods; the two overloads of `insert` and of
`erase` are `InsertVector`/`InsertRange` and `EraseOne`/`EraseRange`.
`nReadPos + nSize` is computed modulo `Wrap`, which stands for 2^32, and the
assumption `MaxLen + MaxArg < Wrap` says that streams are shorter than 2 GB.

*Checked.* `Transactions`: bytes 0 and 1, arguments up to 3, vectors up to 4
bytes, enough for every special case (front, middle, end; room at the front or
none; reads that stop short of the end, reach it or go past it). `IsQueue` is the
refinement of `ByteQueue`, which has no buffer and no position: bytes that leave it at the
front stand behind it until it is empty, read or erased, and a rewind brings back the
last of them, exactly, or none. What `<<` adds is what `+=` would add, and the one step
excepted by name (`ShiftsReadBytes`) is a `<<` with a stream that has been read from:
`DataStream_shift` shows that it does not do what its comment says. `RewindUndoesRead`
relates a rewind to the read before it. There is no liveness: every operation returns at once.

*Proved*, for every alphabet, every bound on arguments and every length below 2 GB:
`StreamTypeOK`, `IsQueue` and `RewindUndoesRead`. The type invariant is all the induction the
refinement needs: the queue and what stands behind it are the vector cut at the position,
and each special case (`Spliced`, `Fronted`, `Rewound`) is a fact about taking, dropping
and concatenating. The assumption on `Wrap` is used once, where `read` adds. For
`RewindUndoesRead` the invariant is strengthened by `ReadBefore`: after a read, while
bytes are unread, what it delivered still stands in front of the position.

### BufferedFile

*State.* The fields of the class (the failbit of `state` is `failed`); `pc`, `left`, `wanted` and `got` are the locals
of a `read` or `FindByte` under way (`got` is what has been copied to the caller's
buffer), `start` the position where the call began, `base` the target of the
last `Seek`, `reached` the furthest position read since. The last three are
history: no guard looks at them.

*Actions.* `ReadBytes` (`read`) and `FindByte` are the entries, with the checks of
`serialize.h:1287-1290`; `Fill`, `Copy`, `ReadReturns` and `FindLook` are the steps
of the loops; `SetPos`, `Seek` and `SetLimit` are one step each. `fread` returns
what there is up to the end of the file or, with `ShortReads`, any smaller number,
0 included, which is an error and throws.

*Checked.* `Blocks`: a file of seven distinct bytes and rings of 2 to 5 bytes
with 0 to 2 bytes of rewind, so that every run wraps several times and hits the
end of the file; reads of 0 to 3 bytes, all useful targets of `SetPos`, a limit,
four of `Seek`, one past the end. `RingHoldsWindow`: every byte from `nRewind`
before `reached` up to `nSrcPos`, but none from before the last `Seek`, is in its
cell. `ReadsTheFile`: the bytes delivered are those of the file from where the call
began, also when it has thrown, at every position from the target of the last `Seek` on.
`FindsFirst`: from there on, `FindByte` stops at the first occurrence. `CallEnds` holds under weak fairness of the steps of a call, which
run in one thread and wait for nothing. Every mix of `SetPos` and `Seek` is there,
rewinds behind the target of the last `Seek` included: that `read` then delivers other
bytes than the file's is shown by `BufferedFile_seek_rewind`, which checks `ReadsTheFile`
without its restriction (`RewoundReadsTheFile`). `BufferedFile_rewind_guarantee` is another
finding.

*Proved*, for every file, ring, amount of rewind and set of arguments: `BufferTypeOK`,
`RingHoldsWindow` and `ReadsTheFile`, whatever `Seek` and `SetPos` do. The inductive invariant adds
to `RingHoldsWindow` that what was read since the last `Seek` lies within the file
(`WithinFile`) and that reading is never further behind `reached` than the ring can
go back (`NearReached`): `Fill` leaves room counted from `nReadPos`, and only
`NearReached` turns that into room counted from `reached`.
The step that matters is `Fill`: a byte it writes and a position it must keep are
less than one ring apart, so they fall into different cells (lemma `ModDistinct`).

The model assumes `nRewind < nBufSize`. With any other pair no call to `read` with
a byte to read can succeed, and `FindByte` runs over cells never read (see the findings).

### MerkleTree

*State.* `vtx` and `vMerkleTree`, a transaction being its hash; `built`, what `vtx`
was when the tree was made, and `reply`, what the last call returned, are history.
Two hashes make a pair, so that hashes do not collide (`PairHash`).

*Actions.* `BuildMerkleTree`, `GetMerkleBranch` (which builds only if there is no
tree), `GetTxHash`, `SetNull`; `PushTx` and `Unserialize` are the writes to `vtx`
by others, which leave the tree alone. The loops over the rows are the functions
`nSize`, `RowAbove` and `Tree`; `Top` is the row at which they stop. An access past
the end of the vector is `inside = FALSE`.

*Checked.* `Blocks`: all blocks of up to five transactions out of two, the smallest size at
which two rows have an odd number of nodes. `TreeProves` (with the types):
`BuildsTheRoot` compares with another definition of the root, the perfect tree
over the transactions padded to a power of two, and `BranchProves` says that a
branch leads from its transaction to the root, also one taken from a stale tree of
the same size. `StaleUnlessGrown`: a stale tree is read out of bounds, or an inner
node taken for a transaction, only if `vtx` has grown; both asserts of `GetTxHash`
may hold then. `RootCommits`: blocks with the same root are the same but for a
doubled end.

*Proved*, for blocks of any number of transactions: `TreeProves`, `StaleUnlessGrown` and,
if hashes do not collide, `RootCommits`. That hashes do not collide (`NoCollisions`) is
the idealisation under which a Merkle root commits to anything; `PairHash` of the instance
satisfies it. The inductive invariant `BInv` says that `vMerkleTree` is
always the tree of `built`, whatever has become of `vtx`, and that the last reply was
as promised. What remains is about the functions: the number of rows, where each row
begins in the vector, and that a row of the code, which doubles its last node when it
is odd, is the beginning of the row of the perfect tree. They are recursive functions
over rows, and each fact about one is an induction over the set of the rows for which it
holds (`Induct` and `InductTo` of module `Induction`).

### Settings, ChainParams, Addresses, Http: the run `Node`

*Settings.* State: `mapArgs`, `mapMultiArgs`; `pc` and `entry`, the loop of
`ParseParameters` and its iterator; `argc` and `soft` count and remember what was
done. A name is its number of dashes, its number of "no" and a base, of which only
the order relative to "no" matters; the map's order of keys is `Precedes`.
`ParseOption` and `Expand` are one turn of the first and of the second loop,
`ParseEnds` and `ExpandEnds` their ends, `ParseParameters` a new call, `SoftSetArg` a
later default. *ChainParams* adds the current network and `GetBlockValue`, *Startup*
`SelectParamsFromCommandLine`, which asks the map for two of its options.

*Addresses.* State: an object of one class (`class`), its version and data bytes
(`data`), and `last`, what it was last told and on which network. Actions:
construction, `SetDestination`, `SetSecretKey`, `SetExtKey`, `ReadText` (`SetString`
of any text), `ReadBack` (`SetString` of its own text, with spaces around it) and
`ChangeNetwork`, `SelectParams` by anyone. Base 58 is base `Base`, whose conversion
goes through `CBigNum` (module `BigNum`) as in the code, with the byte for the sign
appended and the leading zeroes counted apart. The checksum is a constant, four
bits of it in the instance, so that some damaged texts do have a valid one.

*Http.* State: what can still be read (`wire`), what was meant (`replies`), how much
was lost (`cut`), what the calls returned (`got`). `ReadHTTPStatus` and
`ReadHTTPMessage` are one action each; the peer sends replies in a row
and the connection ends anywhere. A line counts as one character where a body is
read from it. The map of headers is handed from one call to the next.

*Checked.* `Node`, with one part moving at a time apart from the network, which
the command line chooses and addresses see; `MCNode` says which of the three are at
their initial state. They share no other variable, so that their interleavings
add nothing.
Command lines of up to three options with one or two dashes, up to two "no", a base
before and two after "no", on or off: three spellings of one option meet, and inserted
names fall before and behind the iterator. `GivenKept`: what the user wrote last for a
name stays (`GivenStays`), every given option is expanded (`GivenExpanded`), and a
derived option is the opposite of its negative, also if `-nofoo` and `--nofoo` disagree
(`NegationAgrees`). `NetworkAsAsked`: however -regtest and -testnet are spelled, the
network is the one they ask for, and both together change nothing.
`ExpansionEnds` holds under weak fairness of the walk through the map, which runs in
one thread and waits for nothing. `SupplyIsBounded`: all subsidies of a network add
up to less than twice those of the first interval, the shift running to its width.
Texts are valid ones of every class and network, each with one character changed,
inserted or removed, and all texts of up to three characters. `ValueSurvives`
(`AddressSurvives`, `SecretSurvives`, `ExtendedSurvives`): what was set comes back
through text where the version bytes are known, and as nothing else where they are
not. `TextIsObject` (`TextIsCanonical`, `NothingOfBefore`, `OrderIsOfText`): no two texts
are the same object, and an object that refused a text holds nothing of before.
Up to three replies out of ten, cut anywhere: `RepliesAreTheirOwn` (`RepliesInStep`,
`CutIsPadded`, `OwnHeaders`, `ConnectionSettled`). `Settings_double_dash` is a finding.

*Proved*, for every set of bases and values and any number of dashes, "no"s and arguments:
`GivenKept` of `Settings`. Its parts `GivenExpanded` and `NegationAgrees` speak of the end of
the walk and are not inductive. `PassedExpanded` says during the walk that what was given
and lies behind the iterator has been expanded; a turn passes no other given name than
its own, because the order of the keys is linear (lemmas `Linear`, `PassesNext`), wherever
insertions fall. `Derived` says of each entry that nobody gave where it came from: from a
given name with more dashes, or from its negative, of which it is the opposite.

`NetworkAsAsked` of `Startup` follows from the same invariant with three parts more: what
has been said of -regtest and -testnet is in the map as soon as the walk has passed it,
the plain spelling is reached if it was ever meant (`PlainReached`), and the network is
the one of the two entries as the call found them (`ChosenFits`). One assumption matters
and is the code's: "regtest" and "testnet" sort after "no", so that their negatives
are visited before them. `chosen` is forgotten when someone selects another network.

`SupplyIsBounded` is proved for every first subsidy, halving interval and width of the
shift, and lemma `PaidStays` for every number of blocks: by induction over the heights,
what has been paid stays within the bound together with the subsidy of now for the rest
of the interval and for one interval more, which is all that later ones can pay.

`RepliesAreTheirOwn` is proved for replies of any number, headers and length, cut
anywhere. The invariant `HttpInv` says where the stream stands: as long as all replies
read announced their length, what can still be read is what was sent from the end of the last
on (`AtReply`), or behind its first line once that has been read (`AtMessage`).
A header that occurs twice counts once, with its last value, as in the map.

`Node` composes them and `NodeInv` the three invariants. A step of one part leaves
the variables of the others alone, except that `ChangeNetwork` selects a network behind
the back of `Startup`; `PartsStaySound` states the three properties of the whole.

`ValueSurvives` and `TextIsObject` are proved for every version, every length of the data, every
set of values and texts, and every base. The invariant `AddrInv` says what the object was last
told and what it therefore holds: an address of a destination the version of the network of
then and its bytes, and so on for each class (`AddressTold`, `SecretTold`, `ExtendedTold`), an object read from a
text what `SetString` makes of that text on an empty one (`ValueTold`). It survives a change of the
network because it names the network of then. The rest is about base 58, from the inside out:

* A number is determined by its digits and they by it, whatever the base, but for zeroes in front
  (`Induction`, in its last part). The bytes of a `CBigNum` are digits from behind, and a conversion
  between two bases keeps the number of zeroes in front (`ConvertedBack`).
* `TextHoldsBytes`: the text of any bytes, between any spaces, is read as those bytes.
  `BytesHoldText`: what is accepted is the text of the bytes read, so that no two texts are the same.
* With the checksum: of bytes that carry their checksum the length is enough to find them again
  (`Checked`). `ChecksumFits`, which says that it is `CheckBytes` bytes long, is a hypothesis of both theorems,
  and nothing else is said of the hash.
* `AddressAssumption` says of the versions what `chainparams.cpp` has: those of addresses and secrets are
  one byte on every network and no key's is a script's; those of extended keys are as long on every
  network. If a key's version were a script's elsewhere, `AddressSurvives` would be false.

Next to them stand three facts about `CBigNum` that hold of every integer: `BytesHoldNumber` (`setvch` reads what
`getvch` gives), `BytesAreFewest` (no fewer bytes would be read as the same), `TextHoldsNumber` (`SetHex`
reads what `GetHex` writes). They cover `BytesReadBack` and a part of `HexReadsBack` of `Numbers` for every number.

### Numbers

*State.* `pn`, an array of words, `bn`, a `CBigNum`, and `op`, the operation applied last.
*Actions.* Every operator and conversion of the two classes: the words are negated,
carried, shifted and compared word by word as the loops do it; `CBigNum` has OpenSSL's
integers, and its conversions go through the bytes the code puts together,
with the length and the sign bit (`setint64`, `setuint256`, `setvch`, `SetCompact`,
`SetHex`).
*Checked.* `Encodings`: three words of two bits, bytes of two binary digits, an `int64_t` of
four bytes: all 64 values of a number, `CBigNum`s up to 130 in absolute value, which is
beyond every width, and shifts by less than a word, a word, more, and all. Three
words are the fewest with an inner one. `NumbersImplement`:
the words refine `ModularInt`, in which the same operators are arithmetic modulo
2^Bits, and the operators of `CBigNum` compute those of the integers (`IntegersKept`).
`NumbersReadBack` (with the types): `ComparesNumbers`, `HexReadsBack`, `BytesReadBack`,
`CompactKeepsLeading` (the compact form keeps the leading digits, and keeps a number
that it can hold), `IntClamps`.

### Serialization

*State.* The handle of the `CAutoFile`, its failbit, the handles still open, the bytes
of each file from its position on, the values these bytes are if they were written
here (`pending`), and the variable of each type that is read into.
*Actions.* Write and read of eight formats, through the module `Encoding`: reading
returns the value as far as it came with `ok = FALSE` when the bytes end or a size is
refused; what it leaves in the variable read into is part of it. Writing may stop
anywhere, a full disk. `fclose`, `release`, assignment and destruction move handles.
*Checked.* `Encodings`: bytes of two bits, so that a size has 1, 3, 5 or 9 bytes in reach of `MAX_SIZE`
= 128, vectors of objects are resized in blocks of 2, and an integer has four bits, so that a VARINT
of four digits can overflow. Files of any bytes up to six, and of every two values written one behind the other.
`FileIsHeld` (with the types): the file held is open, and the standard ones are never
closed (`HeldIsOpen`). `BytesMeanValues`: `WrittenIsReadable`, `OneFormOnly` and
`IntegersHaveOneEncoding` (no two byte strings are the same size or integer, but for VARINTs
that overflow), `IntegersAreTheirDigits` (every VARINT, one that overflows too, is the sum at
`serialize.h:248` as far as its type keeps it), `Normalised` (a map read is the map of its pairs in whatever order),
`SizesAgree` (`GetSerializeSize` against the bytes written), `BogusSizeBounded`
(what is allocated for a size that the file does not back). `ReadsWhatWasWritten`:
reading a file of values gives them in the order in which they were written.

*Proved*, for every set of handles, every set of values of the eight formats, every radix of a byte,
every bound on sizes and every width of a VARINT: `FileIsHeld`, `BytesMeanValues` and
`ReadsWhatWasWritten`. `SerializationAssumption` says what the code's constants satisfy
(a byte tells more values than the short sizes, `MAX_SIZE` fits eight bytes), and that the values written have
the type of their format and no size above `MAX_SIZE`: longer ones the code writes and then
refuses to read, so that the property is false of them. What arrives in a file from elsewhere is any bytes.

* Each format by itself (`EncodingProofs` for numbers and byte vectors, the first part of
  `SerializationProofs` for what is made of them): the bytes of a value followed by any others are
  read as that value and leave the others (`ValueReadBack`, from `ValueWritten` and a lemma for each
  format), and a reading that succeeds has consumed a form of what it returns (`ValueFound`). A VARINT is
  the sum of its digits, modulo the range of its type, after each of them (`VarIntIsSum`). A
  list is read by induction over its elements; a map is written in the order of its keys and inserted
  pair by pair, so that what the reader holds after n pairs is the map of the first n in whatever order and
  however often they come (`InsertedIs`), which for a map that was written is the map itself (`MapReadBack`).
  `BytesMeanValues` is then a statement about any bytes (`BytesMean`).
* The file: the inductive invariant `FilesInv` says what is open and held (`ObjectIs`) and, for each file
  of which the values are known, that its bytes are the encodings of these values one behind the other
  (`PendingIs`). It takes a sequence of places in the bytes to say so (`Pends`, `Links`): writing appends a
  link (`OneMorePends`), reading removes the first (`OneIsRead`), and a write that stops halfway, bytes from
  elsewhere or a reading of another type leave the file unknown, or empty.
* `ReadsWhatWasWritten` is an action property: a step that reads from a file whose values are known
  delivers the first of them, if it is of the type asked for, and leaves the bytes of the others (`StepReads`).
  It follows from the invariant before and after the step, and `ValueReadBack`. That such a reading never
  fails is `WrittenIsReadable`, a part of `BytesMeanValues`.

### Scripts

*State.* `script`; `items`, what was pushed since it was empty; `made`, what it was made
for; `last`. *Actions.* The pushes of every type (`PushNumber`, `PushOpcode`, `PushBlob`,
`PushPlain`, `PushPubKey`), `Join`, `Delete` (`FindAndDelete`), `SetDestination`,
`SetMultisig`, and reading a compressed script over the old one. What only asks
(`GetOp`, `GetSigOpCount`, `IsPushOnly`, `HasCanonicalPushes`, `Solver`,
`ExtractDestinations`, `CScriptCompressor`) is in the properties.
*Checked.* `Scripts`: bytes, opcodes and lengths are the real ones; the hash is a toy of 20 bytes
and half of the compressed keys have a point. Two items are pushed, of lengths
around 76 and 256; scripts from elsewhere are the standard forms, cut short or with a
byte more, and signatures with each byte changed. The form of four bytes of
a push is read, but nothing so long is pushed. `PushesAreInstructions` (with the
types): `PushesReadBack`, `CanonicalUnlessTiny`, `StaysInside` (no read past the end,
whatever the bytes). `FormsAreRecognised`: `DestinationReadBack`, `MultisigReadBack`,
`RedeemCounted` (signature operations of a redeem script), `CompressedReadBack`,
`OneForm` (a script is of one standard form), `SignatureForm` and `KeyForm` (the
canonical forms; the first is compared with another definition on scripts of at most
14 bytes). `DeletesExactly`: deletion compared with a definition by
instructions.

### Transactions

*State.* `tx`, `signed` (what was signed: the transaction of then, the code, the input and
the type) and `undo`. *Actions.* `Sign`; every change of a part, inputs and outputs added
and dropped; `Read`, which reads a transaction over the old one from a stream that ends
behind any of its fields; `ReadUndoRecord`. A scriptPubKey, an amount and an undo
record go through their compressed forms in full.
*Checked.* `Transactions`: four transactions of up to two inputs and outputs, signed for each input and
one that does not exist, with the six types; then one of its parts changed. `SignatureCommits`: a change leaves
the hash alone exactly if it concerns parts the type does not sign
(`CommitsExactly`, the one exception being the constant hash of an input or output that
does not exist). `ValuesAreExact`: `AmountsReadBack` for every amount up to 20,000 in a word of
17 bits, zeroes being counted in base 4, of which three take the place of nine, `ValueOutExact`, `DustIsBelow546`,
`CleaningUpIsFree`, `NewerHasHigherSequence`. `ReadingReplaces` (with the types):
`NothingLeftBehind`, `UndoReadBack`, and the size written before the code is its length
without separators (`CodeIsDelimited`).

*Proved*, for transactions with any number of inputs and outputs, any scripts, values and
bases, and for every base of the digits, width of the words and amount of money that
fits them: `ValuesAreExact`, `SignatureCommits` and `ReadingReplaces`. The invariants are small:
`TxInv` says what shape `tx` and `signed` have, fields torn by the end of a stream
included (`ReadKept` is its one hard step), `ReadingInv` that `undo` has its fields, a height of
one bit less among them, and that code is code; the rest holds of every transaction, script
and record:

* Amounts: the exponent is the largest power of `Ten` that divides the amount up to `MaxExp`,
  and quotient and last digit are read off the form again (`AmountsRead`); no amount of
  money wraps in a `uint64_t`. A form of an amount above `MAX_MONEY` may wrap, so that
  the converse is claimed of the forms of money.
* `GetValueOut`: as soon as one sum is out of range so are all that follow, and no sum
  of two amounts in range reaches 2^64.
* `IsNewerThan`: behind each input `Knows` says what the loop knows, the lowest sequence so far and
  whose it is.
* `ComputePriority`: an input of up to 110 bytes of script is taken away as large as it
  was counted. Only the size of the count before the inputs is not: where one
  input more makes that count longer by two bytes (the 253rd), the size grows by them. The
  statement is of the size without it.
* The signature hash: what is hashed determines how many inputs and outputs there are, and then
  each part. It takes code that is more than separators to tell the input that is signed
  from those blanked; of other code `CommitsExactly` says nothing.
* VARINTs: from any digit on, reading adds up to what writing took apart (`BeforeIs`, `DigitsAre`,
  `VarIntWritten`), and the first byte without the top bit is the last one (`VarIntFound`); so
  `VarIntReadBack`, whatever bytes follow. The lemmas stand in `EncodingProofs`, for both components.
* Undo records: a script is read back from its short form or its long one (`ScriptReadBack`, with
  `CompressibleRestored` for the forms with a hash or a key), an output that is money with
  it (`TxOutReadBack`), and each field from where the one before ended (`UndoBack`).
* The code that is hashed: the loop that counts separators, the one that writes and the one that
  deletes go through the script each in its own way. From each place on, what is written and
  what is counted never exceed what is there; if all instructions end, they make it up and what is
  written is what deletion leaves (`Delimited`, by induction from the end of the script).

Assumed is what the types say: bytes are below 256, and the versions and script lengths of the
records written, and an `unsigned int`, fit the widest VARINT.

### Keys

*State.* The fields of an extended private key and its `CKey`, those of an extended public
key and its `CPubKey`, a signature, the hash it signs; `skipped` remembers that `Load` was
told not to check, `op` what the last call returned. A member no constructor writes is
`Unset`. *Actions.* All operations of the four classes, with secrets in and out of range,
DER keys that are sound, do not match or do not parse, public keys of every
header and length. *Checked.* `Memory`: a curve over 19 elements of order 13 with real coordinates,
of which one abscissa lies above the order, so that all four candidates of a recovery
occur; a depth wraps at 3. `KeyIsSound` (with the types): `ValidIsDefined`, `LoadMatches`.
`SignaturesVerify`, over every nonce: `SignedLow`, `CompactRecovers` (of the three candidates that are looked
at), `RecoveredVerifies` (what `RecoverCompact` leaves when it returns true: an invalid key exactly
if it found infinity, and else a key that accepts the two numbers exactly if both are in range). What
the comments promise beyond that does not hold: `Keys_recovered` and `Keys_fourth` show it.
`KeysAreOne`: `OneFormOfEach`, `DerivationsAgree` (private and public derivation, failures
included), `EncodingReadsBack`, `SerializedReadsBack` (a key is read back over any other, and nothing of the
other is in use then), `FormsAgree` (`Decompress` keeps the point).

*Proved*, for every curve, secret, hash, nonce, hash function and width of a byte: `KeyIsSound`,
`SignaturesVerify` and `KeysAreOne`. Of the curve the proofs take what `CurveAssumption`
says: the order and the field are odd, scalars have inverses, the field is larger than the order and at
most twice as large (Hasse), and a point and its negative share their abscissa. The first
half of the module is arithmetic modulo the order: a signature with s or with its
negative verifies, and of the points with the abscissa that was signed the one that
was used is recovered. In the second half the invariant `KInv` says of each member what
it holds as long as it claims to be valid (`Members`), a `Load` that failed included.

## Bounds

Every bound is a constant of a cfg or a definition of an `MC` module, named there.
Widths are scaled and keep their order: a byte is at least a digit, a word some bytes,
`MAX_SIZE` above the widest short form. Where the real widths decide (scripts, signatures)
they are the real ones. An instance that restricts what follows what (`MCNode`,
`MCTransactions`, `MCKeys`, `MCMemory`, `MCBlocks`, `MCEncodings`, `MCScripts`) says so in a comment
headed "Bound" or "Bounds"; the unrestricted `Next` stands in the component's module.

## Findings

Six have a run that shows them, in which TLC finds the property violated that states what the comment says:

* The rewind guarantee (`serialize.h:1316`): the limit counts from the source
  position, and `Fill` reads ahead, so going back by `nRewind` bytes or fewer may be
  refused although `RingHoldsWindow` says that the bytes are still there.
* `--nofoo` next to `--foo` (`util.cpp:292`): if foo sorts after "no", `-foo` is set from
  `--nofoo` before `--foo` is visited. `--notestnet --testnet=1` selects the main
  network, whatever the order of the arguments; `--nodebug --debug=1` turns debug on.

* `SetPos` after `Seek` (`serialize.h:1316`, `BufferedFile_seek_rewind`): `Seek` moves the source position without
  reading, so that the ring holds nothing for the positions before its target, but `SetPos`
  goes back there all the same and the next `read` delivers what the ring held before.
* `stream << stream` (`serialize.h:1068`, `DataStream_shift`) writes the bytes already read of the other
  stream too, which `+=` does not; the comment at 1066 says they do the same.
* `Recover` (`key.cpp:267`, `Keys_recovered`) succeeds with the point at infinity, and with numbers no
  signature may have: `RecoverCompact` returns true, the public key is invalid or verifies nothing, and the comment
  at 269-270 guarantees both.
* The fourth candidate of a recovery is refused (`key.cpp:273`, `Keys_fourth`) though signing may choose
  it, and the header it writes is listed at `key.h:263`. `CompactRecovers` says that this is the only case.

The others were met while modelling. The models do what the code does, or leave the case
out by an assumption named here, and the properties above are stated so as to say it:

* `mlock` failing (`allocators.h:58`): the result of `locker.Lock` is dropped and
  the page counted as locked, against the class's description. `LockedPages` has the
  outcome, and the proofs of what does not depend on it cover it.
* An allocation that fails after `mlock` succeeded (`allocators.h:59`) leaves a locked page
  without a counter.
* `nReadPos + nSize` wraps for streams of more than 2 GB (`serialize.h:1016`); `DataStream`
  assumes shorter ones.
* `FindByte` (`serialize.h:1363`) ignores the limit of `SetLimit`.
* A rewind that is not smaller than the buffer: no `read` succeeds (`serialize.h:1254`).
* A VARINT that is too long is read as another number (`serialize.h:302`), against the
  comment at 252: `IntegersHaveOneEncoding` speaks of those that do not overflow, `IntegersAreTheirDigits` of all.
* A public key read from an empty vector is the one that was there before, and 33 bytes behind the header of a
  long key keep its tail (`key.h:119-120`): `SerializedReadsBack` speaks of valid keys and of vectors as long as
  their header says, or too long.
* Extended keys have a version of four bytes and `SetString` takes one by default
  (`base58.h:210`): `ExtendedSurvives` says that only four read them back.
* `Load` leaves a valid key when it returns false (`key.cpp:426`).
* A reply that is cut is returned with `HTTP_OK` and zeroes (`rpcprotocol.cpp:204`):
  `CutIsPadded`.

## Only model-checked, and not modelled

Proved are the properties of `LockedPages`, `DataStream`, `BufferedFile`, `MerkleTree`, `Settings`,
`Startup`, `Addresses`, `Http`, `Serialization`, `Transactions` and `Keys` named above, but for liveness, and the bound
on the supply. The proofs take the layout, the number of blocks, the bytes, the file, the ring, the names of options, the
replies, the transactions and the curve as they come; what they assume of the constants is
in those modules, evaluated by TLC in every run, but for `NoCollisions` and `ChecksumFits`, which
speak of infinitely many values and are hypotheses of their theorems.

What a recursive function computes is proved by induction over the set of numbers for which it is
right: `Induct` in module `Induction`, which rests on there being a least number in every
set that is not empty. The induction theorems of the library take an
operator and are of no use to the provers installed.

Only model-checked are:

* Liveness: `RangeReturns`, `CallEnds`, `ExpansionEnds`. TLAPS has no rules for fairness.
* `Numbers`: `NumbersReadBack`, `NumbersImplement`. Powers with a variable
  exponent are in every definition, and the provers know nothing of `^`.
* `Scripts`: `PushesAreInstructions`, `FormsAreRecognised`, `DeletesExactly`. Of what they are made
  of, the compressed form of a script and the loops over instructions are proved for
  `Transactions`. They speak of the real opcodes and lengths, a few hundred cases of which the
  provers would have to be led through one at a time; TLC goes through them.

Not modelled in the components above: heap exhaustion inside `std::map`, `boost::call_once`,
the lazy initialisation of `Solver`'s templates by two threads, Windows' `VirtualLock`, `nType`
and `nVersion`, `getdouble`, tuples, block headers and locators, the names of opcodes.
Not modelled at all: `tinyformat.h` (third-party formatting), the server stub (it
has no behaviour yet), the test runner, the hash functions (opaque to any model),
`HTTPPost` (it formats text), and hexadecimal, base 64 and number parsing in `util.cpp`. The
interpreter, signing and keystore parts of `script.cpp`, the server half of `rpcprotocol.cpp`
and its JSON functions are commented out in the source.

## Plan

1. Proofs: `StaysInside` and `DeletesExactly` of `Scripts`; the words of `Numbers`.
2. Base 64 and hexadecimal of `util.cpp` next to `Base58`.
3. `Keys` and `LockedPages` in one model and not only in one run: the bytes of a `CKey` between `LockObject` and
   `UnlockObject` through copies and failing loads.
4. Block headers and locators; two threads in the first call of `Solver`.
