# Verification of yac and its neighbours

This directory models and verifies the programs of this repository in TLA+.
The repository is a personal collection; the program in it that has state,
sharing and failure worth verifying is `src/laruence.com/yac_laruence/pytonic`:
a transcription of *yac*, a key-value cache in shared memory, written as a PHP
extension in C. All PHP worker processes of a host map the same memory and use
it without any lock. Around it are a second PHP extension (*taint*), the Zend
headers whose macros both build on, a web page with a touch-highlight script, an
installer, and notes.

The transcription of yac does not compile: names are misspelled (`z_strlen_p`,
`utin`, `zedn_parse_parameters`) and files are missing. The rule followed here:
a misspelled identifier is read as the name it stands for; anything else that
differs from upstream yac (a `memcpy` where a comparison is meant, swapped
arguments, a missing `return`) is the code, and is modelled as it is written.

## 1. Inventory

### yac storage (`storage/yac_storage.c`, `.h`)

State, in shared memory: an array of slots (`yac_kv_key`: hash, checksum, ttl,
lengths, flag, address of the value block, key bytes), value blocks
(`yac_kv_val`: access time, lengths, bytes), and the counters `hits` and
`miss`. Slots are found by double hashing: a primary slot and up to three
probes.

| operation | in the repository | what it does |
|---|---|---|
| `yac_storage_startup` | yes, 37-61 | sizes the slot array from the first segment, zeroes slots and counters |
| `yac_storage_find` | yes, 133-196 | copies the primary slot, compares hash, length and key, checks ttl, copies the value, compares a checksum, touches the block, counts |
| `yac_storage_update`, `_delete`, `_flush`, `_get_info`, the allocator, the second hash | no: only prototypes (`yac_storage.h` 96-104) | external |

Correct when: a lookup returns only what was stored under its key; what is in
the cache, live and intact, is found; an entry is removed only when it is
expired or deleted; the counters do not exceed what happened; every lookup
ends and none dereferences null. Hard because nothing is locked: every access
of a lookup may come before or after any access of any other worker, memory is
recycled under a reader, and a worker may be killed half way through a write.

### yac extension (`yac.c`, `php_yac.h`)

State per process: the ini settings (`enable`, `debug`, sizes,
`compress_threshold`) and whether the storage is attached; per object: the key
prefix. Operations: `add`, `set`, `get`, `delete` and their array forms,
`flush`, `info`, `__construct`, module start and stop, ini handlers. It composes
a key from prefix and key, encodes a value by its type (compressing long ones
and packing type, compression and original length into one flag word), calls
the storage, and decodes what it finds. Correct when: what is set is what is
got; two keys never become one; `add` never overwrites and `set` always does;
a ttl is obeyed; a failure of one key of many is reported; the storage is
attached whenever a method goes through it, and detached once; the settings of
a request end with it. Hard because of boundaries (48-byte keys, 26-bit
lengths, unsigned sizes), of partial failure in the array forms, and of one
flag, `enable`, that is tested at many times and can change in between.

### Zend headers (`php_extension/zend.h`, `zend_API.h`) and taint (`laruence.com/taint`)

State: zvals with a reference count and a reference flag, string buffers, the
symbol table; for taint also the operand of the running handler and what it has
to free. The macros separate, copy, replace and bind zvals; taint marks the
strings of a request and unlocks operands. Correct when: a count is the number
of holders, a buffer has one owner, and a write through one variable shows in
the variables bound to it and in no other. Hard because each macro is a short
sequence of steps on shared zvals whose order matters, and errors show only
several calls later.

### Others

| component | state | operations | correct when |
|---|---|---|---|
| touch highlight (`demo-start.html`) | the highlighted element, its class, a move count, pending timers | touchstart, touchmove, touchend, timer | one element is highlighted at a time and none for ever |
| ODP installer (`install_odp.sh`) | files and directories | parse options, check them, unpack and install | not modelled, see section 8 |
| yac deployment scripts | one line of php.ini | enable the extension | not modelled |
| samples, exercises, build files, shell environment, notes | none of their own | - | not modelled |

Components interact through calls only, except the workers of the storage,
which interact through shared memory alone. The methods call the storage
(`YacApi` takes it as a map, `YacCache` says what it is); module startup calls
its sizing; taint works on zvals by the macros of the Zend headers.

## 2. Plan

1. `YacLayout`, `YacStorage`: the lookup, step by step, among concurrent
   updates, deletes, flushes and kills. **Done**, with `YacStorageProofs`
   (types, hits), `YacSharedProofs` (counters, null blocks, torn slots) and
   `YacSequentialProofs` (a worker that runs alone).
2. `YacEntry`: flag word, lengths, encoding and decoding; `YacKey`: prefix and
   key in 48 bytes. **Done**.
3. `YacApi`, which extends both: the methods over an atomic storage, with
   partial failure of the array forms, the order of `ttl` and `add`, and what
   `set` returns. **Done**, with `YacApiProofs`.
4. `YacCache`: the abstract cache (a lookup returns nothing or some value
   stored under the key), implemented by `YacStorage` under a refinement
   mapping. **Done**, with `YacCacheProofs`.
5. `YacSizing`: startup sizing; `YacModule`: globals, ini handlers, start and
   stop, requests. **Done**, with `YacModuleProofs`.
6. `PhpVariables`: what a script sees of its variables; `ZendValues`: the zvals
   and macros that implement it; `Taint` over them. `TouchHighlight`. **Done**,
   with `TaintProofs`.

Left: the opcode handlers of taint and the parts of the Zend headers of section
8, should the repository ever define or use them; a proof that the storage of
one worker finds what it has stored in a secondary slot, once line 186 of
`yac_storage.c` compares keys.

`YacApi` and `YacStorage` are not composed into one state machine: `YacApi`
calls an atomic map, and `CacheImplemented` is why its hits may be trusted.
What the map does not show is that an entry may be missed (`missed`), which
`YacApi` allows for by `Kick`.

## 3. The storage: model and code

`YacLayout` holds the pure part. The hash functions are constants `Hash1` and
`Hash2`, as the storage depends only on which keys meet in which slots; a run
chooses them. The checksum is ideal on the bytes it sees: the model compares
`Sample(d)`, the bytes that `yac_crc32` feeds to crc32, so a collision of crc32
itself is outside the model and what sampling loses is inside. `Window` stands
for the 128 of `crc_contents`.

`YacStorage` has the slots, the blocks, the counters, the clock, and for every
worker a frame: where it is and the local variables of `yac_storage_find`.
Each action makes at most one access to shared memory, so that TLC interleaves
workers wherever the processes can.

| action | lines | access |
|---|---|---|
| `FindStart` | 139-144 | read the primary slot |
| `ReadVal` | 145-152 | read the block's lengths; compare key, deletion mark and lengths of the copy |
| `Verify` | 154-156 | read the clock |
| `Expire` | 157 | write the slot's ttl, as the slot is now |
| `Copy` | 163-165 | read the block's bytes, compare the checksum |
| `Touch` | 171 | write the block's access time |
| `Probe` | 181-184 | read hash and length of the next slot |
| `Deref` | 185 | read through the slot's address, as the slot is now |
| `Clobber` | 186 | write the key into the slot; the branch is never taken |
| `CountLoad`, `CountStore` | 150, 158, 167, 175, 193 | load and store of a counter |

Reads that race with writes are undefined in C and are a choice here. A copy
of bytes out of a block that an update is filling takes each byte from the old
or the new contents (`ByteCopies`). A copy of a slot that is being published
takes, when `TornCopies` is TRUE, each field from the old or the new slot
(`SlotCopies`). A killed worker leaves a mixture behind (`Kill`).

The rest is external, from what `yac_storage_find` relies on:

- an update fills a block and then publishes a slot; the allocator may give it
  a block that a live slot names, but not one that another update is filling;
- an update takes the slot that holds its key, else the first empty slot on
  the key's path, else any slot of the path. A lookup stops at an empty
  primary slot, so nothing may lie behind one;
- one update at a time publishes a given slot;
- a deletion sets the ttl to 1, or to an expiry; a flush zeroes the slots.

History variables: `stored` (what updates were asked to store), `finds` and
`writes` (calls made). `MaxTime`, `MaxFinds` and `MaxWrites` bound the clock
and the calls; they appear in guards only.

`YacCache` is what a caller may rely on: a lookup is asked, is answered by a
miss or by something given for its key, and is left. The mapping is at the end
of `YacStorage`: what was given is `stored`, and a lookup is *found* from the
checksum that accepted its value (165) until it returns, *missed* from the
exit that counts a miss, *dead* after a null dereference. A hit is shown by its
flag, its length and the bytes the checksum covers (`View`). The updates in
progress, the blocks, the clock, the counters and every deletion are stutters.

Abstracted away: the fields nothing reads (`size`, `fails`, `kicks`), the
memory of the returned copy (its allocation is freed on every path that does
not return it).

## 4. The extension: model and code

`YacEntry` holds the encoding. A value is a record of what the code tells
apart: type, length, the length it compresses to, whether it serialises, and a
number for its contents. `Encodings(v)` is the entry that `yac_add_impl`
stores, `Decodings(e)` the value that `yac_get_impl` makes of it; each is a set
that is empty when there is none. The spans of the two packed words (`flag`,
`len`) are constants: TLC has 32-bit integers and gets small ones, the proofs
hold for the real ones. `YacKey` holds `snprintf` into the key buffer: `%s`
stops at a NUL, and the last byte of the buffer is always NUL.

`YacApi` has one frame per worker: the method it is in, its arguments, the keys
still to do, the answers so far. The storage is a map from store keys to
entries, each call of it one step; `YacStorage` is about what happens inside.

| action | lines of `yac.c` | what it does |
|---|---|---|
| `AddBegin`, `GetBegin`, `DeleteBegin` | 467-516, 528-571, 589-606, 627-645 | a method begins, with a key or an array, or returns false when disabled |
| `AddNext` | 95-210, 227-236 | one pair is encoded and taken by the storage |
| `AddFail` | 99-103, 129-146, 195-206, 237-242 | a pair is refused, by the length of its key, its value, or the storage; the method returns at once |
| `GetNext` | 252-351, 371-391, 610-616 | one key is looked up and decoded |
| `GetSkip` | 608-622 | `get` of a key that is neither array nor string returns an uninitialised `ret` |
| `DeleteNext` | 399-414, 429-442, 649-657 | one key is deleted; a key that is too long is skipped |
| `DeleteDie` | 431 | a string key in an array: its length is used as its address |
| `End` | 524, 585, 618-622, 659 | the method returns; `set` returns nothing |
| `Flush` | 662-671 | the storage is emptied |
| `Kick`, `Tick` | external | eviction, the clock |

A method with several keys is several steps, and other workers run in between.
A pair may be refused at any time (`AddFail` has no further guard): the
storage, which is not in the repository, fails for want of memory. `Takes`
passes the arguments as the code does, through the prototype of
`yac_storage_update` (`yac_storage.h` 99): for scalars `ttl` and `add` are
swapped (`UpdateArguments`). `Removes` sets an expiry, and 1, long past, when
the time given is 0. `zend_make_printable_zval` is modelled from its uses: it
yields the text of its argument. An object is its prefix, chosen per call;
`__construct`, which sets it, is in `YacModule`. `set` has no `return`: its
answer is null, whatever the storage said. Calls that PHP rejects for their
parameters change nothing and are left out, as is the unused `cas`.

History variables: `asked` (the pairs given to add and set), `calls`.

### The life of the module

`YacSizing` is the arithmetic of `yac_storage_startup`: the halving loop as the
recursive function `Bits`, the truncation of the number of slots to an unsigned
int, the bit test of line 46. `YacModule` has a master process, the workers it
forks, and for each its globals, its ini entries, how often it has attached the
storage, and the Yac object of its script.

| action | lines of `yac.c` | what it does |
|---|---|---|
| `MInit` | 754-789, 62-97 | globals, every ini handler in the order of the table, startup of the storage when enabled; it may fail |
| `ShutDown`, in `Stop` and `Exit` | 791-798 | the storage is detached when `enable` is set now |
| `Activate`, `Deactivate` | 62-97 | a virtual host's settings reach the handlers; every altered entry is restored |
| `IniSet`, `IniRestore` | 87-95 | a script's settings, for the entries that are `PHP_INI_ALL` |
| `Construct` | 447-465 | the prefix is kept, or dropped when disabled |
| `Info` | 673-699, 800-840 | what `info` or phpinfo tells of the storage |
| `Fork`, `Kill` | external | the server |

The ini engine (`zend_alter_ini_entry`, `zend_restore_ini_entry`) is modelled
from `zend_ini.h` and its use. `ModuleAssumption` states what is taken for
granted: the allocator has room for one slot at least, a size is an unsigned
long, and a virtual host does
not enable what php.ini disables (the storage would not be mapped).

### Values and taint

`PhpVariables` is what a script sees: names with values, and groups of names
bound by reference. `ZendValues` has the zvals, the buffers and the symbol
table, and each macro as an operator from memory to memory:

| operators | source |
|---|---|
| `SeparateZval`, `SeparateIfNotRef`, `SeparateToMakeIsRef` | `zend.h` 679-702 |
| `CopyPzvalToZval`, `MakeCopyZval`, `ReplaceZvalValue`, `SeparateArgIfRef` | `zend.h` 704-745 |
| `ZvalSet`, `ZvalZval` | `zend_API.h` 515-574 |
| `SetSymbol` | `zend_API.h` 640-676 |

The actions (`SetVar`, `ReturnCopy`, `ReturnLocal`, `PassValue`, `Replace`,
`ReplaceByResult`, `BindRef`, `WriteInPlace`, `Separate`, `Unset`) are the uses
these macros are made for; the engine, the destructors and the memory manager
are external. A zval that `ALLOC_ZVAL` leaves uninitialised has any header
(`Uninitialised`). `Taint` adds the marking of strings (`MarkStrings`,
`taint.c` 118-137, the loop as the recursive function `Marked`; nested arrays
are taken flat, as `Tracked`) and a handler:
an operand is fetched (`Fetch`, `FetchTmp`), unlocked (`Unlock`, 141-153),
assigned (`AssignOperand`, `AssignTmp`) and freed (`FreeOperand`,
`php_taint.h` 131-143). `taint.c` mixes upper and lower case, `P` and `PP`
forms and the name `should_ref` for `should_free`; each is read as the name it
stands for.

### The highlight

`TouchHighlight` has an action per event of `demo-start.html`: `TouchStart`
(34-46), `TouchMove` (47-50), `TouchEnd` (51-53), `Timeout` (45, 28-31), and
`TouchCancel`, for which the page has no handler. The climb to the nearest
element with `data-ac` is the function `Actors`; the handler looks at the first
finger on the page, not at the one that came down.

## 5. Runs

### The storage

All runs have two slots (one in `torn`), two keys of one length with different
hashes, two blocks, a window of 2 bytes, values of 1 to 3 bytes over {0, 1}.
Two keys that share their primary slot and probe the other one already give
every way for entries to displace, hide and overwrite each other; values of
one length with equal and different samples give every way for a mixed copy to
pass or fail the checksum; lengths 1, 2 and 3 are below, at and above the
window. Deadlock is checked: the host may be idle (`Quiet`), but a worker
inside a call can always go on.

| run | what differs | what it shows |
|---|---|---|
| `seq` | one worker, killed at will, ttl 0 and 1, the clock passes an expiry | `TypeOK`; `SlotsAreStored`; `PrimaryNotMissed`; `ExpiryMarksOnlyExpired` |
| `conc` | two workers, values as long as the window and longer | `HitsAreStored`, `HitsAreWhole`, `StatsNeverOvercount`, `NoNullDeref`, `ImplementsCache` |
| `torn` | slots seen half published, one slot for both keys | `TornHitIntegrity` |
| `live` | fair lookups, flushes | `LookupNeverWaits`, `LookupTerminates`; here a lookup can dereference null (line 185) and end its worker |
| `missed` | one worker; a violation | `NoFalseMiss` fails, see section 7 |

Fairness: weak, on the steps inside a lookup, per worker. The code has no
blocking operation there, so a worker that is scheduled moves; nothing is
assumed of updates, of the clock or of new calls.

What is deliberately not claimed: with two workers an expiry can mark a fresh
entry deleted and line 186 can overwrite the key of a fresh entry, so
`ExpiryMarksOnlyExpired` and `SlotsAreStored` are properties of one worker;
with torn slots a hit can carry the key of one entry and the value of another,
so only the bytes are promised; with values longer than the window the bytes
that the checksum skips are not promised.

### The extension

| run | what differs | what it shows |
|---|---|---|
| `arrays` | two workers, arrays up to two keys, two calls, ttl 0 and 1, no prefix | `TypeOK`, `GotWasAsked`, `EntriesAsAsked`, `AddReportsAll`, `AddNeverOverwrites` |
| `prefix` | one worker, objects with and without prefix, three keys (one a number, one that fills the buffer), values of every way through the encoder at the lengths where it changes, three calls, deletions with a time | `GotWasAsked`, `EntriesDecode` |
| `alias` | two keys that fill the buffer under a prefix and differ in the last byte; a violation | `GotWasAsked` fails |
| `scalars` | one worker, scalar values; a violation | `AddNeverOverwrites` fails |

Two calls of two workers on arrays of two keys are enough for one array method
to be cut in two by another that adds, sets, deletes or flushes a key it has
done and a key it has still to do. The key buffer has 4 bytes (3 in `alias`),
the length of a compressed value 5 bits, so that lengths at, below and above
each limit occur. Strings and trees are used where the swapped arguments of
the scalars would break the property for a known reason, see section 7. Calls
end, so the workers may rest for ever (`Quiet`); a worker inside a method can
always go on, and deadlock is checked.

Not claimed: that the answers of one `get` of several keys existed at one time,
which the code does not try to give; that a get after a set finds the value,
which eviction forbids and which the storage has findings about.

### The other parts

| run | instance | what it shows |
|---|---|---|
| `module` | a master and two workers, four php.ini settings, five virtual hosts, segments with room for 1 to 9 slots | `StorageReady`, `ShutdownPaired`, `SettingsRestored`, `PrefixHonoured`, `ThresholdSane`, `SlotsFit` |
| `zend` | three names, one integer, two texts, two of the names marked | `RefcountsExact`, `BuffersOwned`, `ImplementsVariables` |
| `touch` | two fingers; four elements: two that highlight, one within the first, one that does not; three timers | `OneHighlight`, `HighlightEnds` |

`module`: the state space is finite without a bound on calls; the master is
restarted with other settings while PHP goes on, and two workers are what makes
one process's settings differ from another's. Unsigned longs have 12 bits here,
so that -1 and the defaults wrap as they do in 64. Segments of 1 to 9 slots pass
every relation of a number to the powers of two around it.

`zend`: with three names a zval can be held by one name, two bound ones, and a
third that shares by value or an operand; no bound on steps. Six addresses are
what `ZendAssumption` asks for: one for each name, one for the operand, one for
a zval being made, and one more. The view leaves out the addresses: it
keeps what each name, the operand and the pending free hold, which of them hold
the same zval, and how many zvals and buffers are in use, so that a leak is a
new state. Addresses are chosen by `CHOOSE` and only compared, so states with
one view behave alike.

`touch`: the timers of three touches may be pending together. Fairness: weak,
on `Timeout` only, as a browser runs a timer that is due; nothing is assumed of
fingers, and a touch may never be reported to end. That a highlight lasts 500
milliseconds is not claimed: an older timer ends it earlier.

## 6. Proofs

`YacStorageProofs`, for every number of workers, keys, slots, blocks, values
and for every value of the bounds:

- `TypeCorrect`: `Spec => []TypeOK`. `TypeOK` alone is not inductive: the next
  probed slot is in the array because a worker inside a lookup has a key, and
  a filled block is a block because a worker inside an update has an address
  (`Equipped`). The arithmetic is in `ProbeSlotType` and `SampleIndex`: no
  probe leaves the slot array, and no sampled byte is outside the value.
- `HitsCorrect`: `Spec => []HitsAreStored`, when no two keys collide in hash
  and length (`CollisionFree`) and slots are copied whole. The inductive
  invariant `StoredInv` follows an entry from the update that builds its slot,
  through the slot, to the copy of a lookup: each is `BackedBy` a stored entry
  in its hash, lengths, checksum and flag. It leaves out the key bytes and the
  ttl of a slot, which other workers change in place, and the blocks
  altogether: whatever is in a block, the checksum decides.
- `ShortHitsCorrect`: `Spec => []HitsAreWhole` when values are no longer than
  the window, by `SampleCoversShortValues`.

`YacSharedProofs`, on the same scale:

- `StatsCorrect`: `Spec => []StatsNeverOvercount`. A lookup that has loaded a
  counter may store more than is in it by then, as a late store of another
  lookup may have lowered it, so the property is not inductive, nor is any
  bound on the counters by themselves. `StatsInv` says that there are two
  numbers, the lookups that have really counted a hit or a miss, which bound
  the counters and every loaded value alike, and which together with the
  lookups under way make no more than those begun. No variable holds the two
  numbers; each action shows that there are such numbers again.
- `DerefCorrect`: `Spec => []NoNullDeref`. Line 185 reads through the address
  as it is then, after the test of line 184; a slot without an address still
  has the zero hash and length of startup, which no key matches, and only a
  flush takes an address away (`DerefInv`). The three hypotheses are what this
  needs: no flush, slots copied whole, and no key whose hash and length are
  both zero (`KeysDifferFromZero`; the code does not exclude the empty key).
  Without any one of them TLC finds the null address read: on those instances
  the worker ends, as in the run `live`.
- `TornHitsCorrect`: `Spec => []TornHitIntegrity`, with no hypothesis. When a
  copy mixes two images of a slot it describes no entry, and `StoredInv` fails;
  `TornInv` keeps what is true word by word: a checksum is one of a stored
  value, or empty as at startup, and a filled block has the length of a stored
  one. It is the comparison of the two lengths, line 146, that rules out an
  empty checksum for a value that is not empty.
- `LookupsNeverWait`: `Spec => LookupNeverWaits`, with no hypothesis either.
  `StepsLeft` counts the accesses a lookup may still make; the step of another
  worker leaves the lookup where it is (`OwnFrame`), and each of its own makes
  the number less (`FindShortens`). At 13 after the first access, it is the
  bound on the work of a lookup, and the part of `LookupTerminates` that does
  not depend on fairness.

`YacSequentialProofs`: `SlotsCorrect`, `PrimaryCorrect` and `ExpiryCorrect`,
`Spec =>` `[]SlotsAreStored`, `[]PrimaryNotMissed` and `ExpiryMarksOnlyExpired`,
for one worker (`OneWorker`) killed at any time, any keys without collisions,
slots, blocks and values, with flushes and deletions between its lookups. A
worker that runs alone is how PHP runs on the command line; with two workers
all three fail, and the hazards of lines 157 and 186 are why. `SeqInv` says of
each place in a lookup what the tests up to there have shown of the primary
slot, and that the copy taken at line 141 is still the slot.

`YacApiProofs`, for every number of workers, keys, prefixes and values, for
every length of arrays and every span of the packed words:

- `FlagUnpacks`, `LengthsUnpack`: the fields of the two words come out as they
  went in (`DivMod`: two fields put together come apart again), and from them
  `EncodingsDecode`: what is encoded decodes. The test of line 129 is what the
  first needs.
- `TypeCorrect`: `Spec => []TypeOK`. `TypeInv` adds that add and set have a
  value for each of their keys (`Keyed`).
- `EntriesCorrect`: `Spec => []EntriesDecode`, when the length of a key fits
  its field (48 < 256). By `CacheStep`, the one lemma that goes through all
  actions for the cache: an entry is new only when it has just been encoded.
- `GotCorrect`: `Spec => []GotWasAsked`, when keys and prefixes have no NUL and
  do not fill the buffer together (`ShortKeys`); the run `alias` shows that
  the last condition is needed. The invariant `AskedInv` follows a value from
  the pair that was given, through the entry under the text of its key, to the
  answer.
- `AddCorrect`: `Spec => AddNeverOverwrites`, when no value is a scalar; the
  run `scalars` shows that it is needed. A step of an add is its own
  `AddNext`, as no other worker moves its frame (`OwnFrame`).
- `ReportsCorrect`: `Spec => []AddReportsAll`, from the place of the loop that
  `TypeOK` keeps.
- `AsAskedCorrect`: `Spec => []EntriesAsAsked`, under the conditions of
  `GotCorrect`, for values that are not scalars and for deletes without a time.
  `ExpiryInv` follows the time to live from the pair given, through the frame
  (`Backed`) and `UpdateArguments`, to the entry, and what a delete makes of it
  (`Redated`). Both conditions are needed: for scalars the arguments are
  swapped, and a delete with a time gives an end to an entry that had none.
  `EverCorrect` is what is left of it with such deletes: an entry that is there
  for ever was given without a time.

`YacCacheProofs`: `CacheImplemented`, `Spec => ImplementsCache`, for every number
of workers, keys, slots and blocks, when no two keys collide and slots are
copied whole. It rests on `StoredInv`, which makes a hit of the lookup a `Hit`
of the cache, with one lemma per action for the step of the cache it maps to.

`YacModuleProofs`: `ModuleCorrect`, `Spec => []` of `StorageReady`,
`ShutdownPaired`, `SettingsRestored`, `PrefixHonoured` and `ThresholdSane`, and
one theorem for each of the five (`StorageIsReady`, `ShutdownIsPaired`,
`SettingsAreRestored`, `PrefixIsHonoured`, `ThresholdIsSane`), for any workers and settings under `ModuleAssumption`. The properties speak of the
globals, which are not inductive by themselves: the invariant says that the
globals of every live process are what the handlers make of the values of its
ini entries, that `configured` is what they make of the values from before any
alteration (`Original`), that `enable` is set only if it was at startup, and
that the storage is attached exactly then. It is the last two that tie the test
of line 794 to the one of line 771.

`SlotsAreFit`, in the same module: `Spec => []SlotsFit`, for segments of any size
with room for one slot, any size of slot and header and any width of the
integers (so for the truncation to an unsigned int of line 28 too). `Bits` is
recursive, and the library's induction theorems cannot be used here, as they
take an operator; but that every non-empty set of numbers has a least one
(`Least`) can be had from `WFMin`, which takes sets, and does for induction: the
least number for which a statement fails is brought to a contradiction. So are
proved that a power of two outgrows its exponent and grows with it (`Outgrows`,
`Monotone`; that it doubles, `Doubling`, comes from the number of subsets of a
set), that every positive number has one highest bit, that the recursion of
`Bits` therefore has a solution and `Bits` is one (`BitsDef`), and that
`2 ^ Bits[n]` is not above `n` (`BitsBelow`). `SlotsSizeFits` adds the test of
line 46: the doubling is taken only when the number of slots is exactly the
doubled one.

`TouchHighlight`: `OneHighlightHolds`, `Spec => []OneHighlight` for any page and
fingers; the property is inductive.

`TaintProofs`, for every number of names, addresses, integers and texts and
every list of marked variables: `RefcountsCorrect`, `BuffersCorrect` and
`VariablesImplemented`, that is `TaintSpec =>` `[]RefcountsExact`,
`[]BuffersOwned` and `ImplementsVariables`. The assumption is `ZendAssumption`:
the names are finite in number, null is no address, and memory does not run out
(`Roomy`: there is always an address that neither a name nor the operand nor a
zval being made takes up), as the engine ends a request that it does.

- The invariant `TaintInv` says that memory is `Good` and that the operand is
  in one of its states (`OperandInv`): fetched and locked, unlocked with or
  without something left to free, a temporary nobody else holds, or used.
- `Good(m, x, e)` is what each macro takes and gives back: every string has a
  buffer of its own and every buffer a string (`Owned`), and the count of a zval
  is the number of names bound to it and of the `x` who hold it without a name.
  Between two macros of one action this is true of every zval but one, `e`, that
  is being made and that nobody holds; the lemmas of the macros say how `x` and
  `e` change. `RefcountsExact` and `BuffersOwned` alone are not inductive: they
  do not say that an operand is alive before it is used, nor that a temporary
  has one holder.
- `MoveTo` and `CopyTo` are the two things most macros come down to: a zval
  takes over the value of another, or a copy of it. That each macro, with its
  order of destroying, copying, counting and freeing, does one of these is
  proved first (`SetSymbolRefIs`, `ReplaceCopyIs`, `ZvalZvalMoveIs` and others).
- For the refinement, `Shown(m)` and `Groups(m)` are the variables of the
  script and their groups. A change that only makes zvals softer (`Softer`: the
  value stays, and a flag is lost only when at most one name is left to see it)
  is not seen (`UnseenSofter`); a name that leaves its zval leaves its group and
  nothing else changes (`Departs`); a value written in place reaches the group
  of its name, because the name owns its zval or is a reference (`Owns`,
  `InPlace`). Each step is then one of `PhpVariables`, or none.
- The loop of `php_taint_mark_strings` is a recursive function; that it has a
  solution, and that every string marked leaves the invariant alone, is brought
  down to the least number for which it fails (`Least`, `MarkingExists`,
  `MarkedGood`).

Only model-checked: `LookupTerminates` and `HighlightEnds`, as liveness is out of
the prover's reach; of the first, `LookupsNeverWait` proves that there are only
so many steps to wait for. Every other property of a passing run is the statement of a
theorem.

## 7. Findings

`missed`: an entry in a secondary slot is never found. Line 186 of
`yac_storage.c` has `!memcpy(p->key, key, len)` where the key is to be
compared; `memcpy` returns its destination, so the branch is never taken.
`src/laruence.com/yac.php` line 17 expects a get right after a set to return
the value.

`alias`: a composed key of exactly 48 bytes passes the length test (lines 99,
257, 402), but `snprintf` (106) keeps 47 of them. Two keys that differ in their
last byte share one entry; a get of one returns the value of the other.

`scalars`: for null, bool, long and double (112, 116, 119) `add` and `ttl` are
passed in each other's place. `add` of a number overwrites what is there and
lasts a second; `set` with a time to live behaves as `add` and lasts for ever.

Not a run, but visible in the model: `set` (528-585) has no `return`, so that
the test of its result in `yac.php` line 13 takes every set for a failure.

## 8. Not modelled

The components listed as such in section 1. The installer and the deployment
scripts are straight-line shell: options, copies and edits of files, one after
another, without concurrency, protocol or state read back; what fails in them
are the commands they call.

Of yac: the crc32 polynomial and its table, the values of the hash functions,
the allocation of shared memory (not in the repository); the registration of the
class and the constants, and the functions that pass their arguments through to
the methods (702-731). Of the encoder, the memory of the serialised buffer that
the early returns of lines 170, 178 and 184 leave allocated until the request
ends; of the compressor and the serialiser, everything but whether they succeed
and how long their results are.

Of the Zend headers: what only declares functions of the engine or lays out
structures (`php.h`, `SAPI.h`, most of `zend.h` and `zend_API.h`), bailout
(`zend_try`), classes and objects, arrays within zvals. Of taint: the opcode
handlers and the overridden functions, which are declared and not defined in the
repository, so that nothing reads a mark.
