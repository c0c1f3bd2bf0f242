# A TLA+ model of libvirtio

libvirtio (`src/`) implements virtio devices for a monitor that owns the
transport, the guest memory and the async runtime. This directory models the DMA
leases and translation, the virtqueue, the `run()` loops of all devices with
`kick()` and `stop()`, the copying between device buffers and descriptor chains,
the shared virtio-mem configuration, and the inode table of the file system. TLC
checks small instances; TLAPS proves the safety results that matter most for
every value of the constants.

## The system

| Part | Source | State it keeps | Who acts on it | Modules |
| --- | --- | --- | --- | --- |
| DMA generation | `dma.rs` | sorted segments; `revoked`, `active`, `drained` | device tasks and blocking workers (`lease`, drop), the transport (`revoke`, unmap), `wait_for_drain` callers | DmaGuard, DmaMemory, DmaTranslate |
| Virtqueue | `queue.rs` | `QueueState`, and the rings in guest memory | the guest driver, one device task under a mutex | RequestChannel, VirtQueue |
| Block | `block.rs` | queue states, `wake`, `down`, pending futures | `run()`, blocking workers, `kick()`, `stop()` | BlockRun, BlockRequest |
| File system | `fs.rs` | as block, and the inode table | as block | FsRun, FsInodes, ChainIo |
| Console, memory, rng | `console.rs`, `memory.rs`, `rng.rs` | queue states, `wake`, `down` | `run()`, `kick()`, `stop()`, a backend | SerialRun, ChainIo |
| virtio-mem configuration | `memory.rs` | the configuration, a watch channel | updating threads, a subscribed transport | MemoryConfigState |
| Network, vsock | `network.rs`, `vsock.rs` | as console, and `kicked`; queue pairs | as console | PacketRun, NetworkRun, VsockRun, ChainIo |
| Interfaces | `device.rs`, `backend.rs`, `interrupt.rs`, `error.rs`, `lib.rs` | none | | |

A device takes chains from its virtqueues with `pop`, reads and writes guest
memory through DMA leases, answers with `complete` and raises an interrupt.
`stop()` sets `down`, revokes the DMA generation, and wakes `run()`, which is to
end when its leases are gone. The transport then unmaps guest memory.

## Modules

* **DmaGuard** is what a DMA generation promises: access only while open, removal
  only when closed and unused. **DmaMemory** is the protocol, one action per
  atomic operation of `lease()`, `drop_active`, `revoke()` and
  `wait_for_drain()`. `revoke()` is a Release store, so it passes through a store
  buffer (`storing`, `FlushRevoke`). `Fence` says whether its caller has a full
  barrier before it drains. Only this one reordering is modelled: the read-modify-
  write operations and the loads of `lease()` are taken in program order, as on
  x86.
* **DmaTranslate** is `DmaMemory::new` and `translate`, one loop iteration per
  step, over addresses `0..Top`. `sort_unstable_by_key` is any sorted
  permutation.
* **RequestChannel** is what a virtqueue promises: chains are taken in order, an
  answer begins with a chain that was taken and a length, and the driver then gets
  that answer, whole and once. **VirtQueue** is `pop` and
  `complete`, one guest-memory access per step, each refused once the generation
  is revoked, against a driver that keeps to the protocol. `complete` begins an
  answer when it writes the id and gives it when it stores the used index; the used
  length is a value it is called with. Memory accesses of the two sides are
  sequentially consistent.
* **Notify** is `tokio::sync::Notify` with one waiter, from tokio's documented
  behaviour: a permit from `notify_one`, none from `notify_waiters`, and a future
  that `notify_waiters` reaches from its creation on.
* **BlockRun** is `BlockDevice::run` as a program counter, with a state for each
  request: popped, queued as a future never polled, with a worker, ready,
  published. `stop()` is three separate statements. A worker outlives the future
  that waits for it, and holds the leases until it ends. Parsing, the interrupt
  and the worker may fail for the requests in `Faulty`. **FsRun** is the same loop
  with the work of the file system: the request is copied when it is taken, the
  reply is written by `run()`, a worker holds no lease and never fails.
  **PooledRun** is either device.
* **SerialRun** is the loop shared by console, memory and rng. The request queue
  is the console's transmit queue or the only queue of the others; `ReadChain`
  stands for `read_chain`, `parse_request` or `fill_chain`, `Apply` for
  `write_output` or `handle`. The console adds `process_receive` and its backend
  input; memory and rng are the case `Buffers = 0`. `stop()` may close the
  backend, as the reason `SurpriseRemoval` does.
* **PacketRun** is what network and vsock share: `kick()` in its two steps, the
  store to `kicked` and the notification, the wait, the swap of `kicked`, and
  `stop()`. **NetworkRun** adds the control queue with the number of active
  pairs, the transmit queues and the receive pairs in turn (`next_rx_pair`, which
  wraps); **VsockRun** the packet types and the event queue. A queue is the
  number of chains on it, and what a chain holds is chosen when it is read.
  **PacketDevices** is either device, with the properties.
* **ChainIo** is the copying between buffers and chains in the devices, lease by
  lease and part by part, with cells of guest memory. Each function is a plan:
  what it checks first, which descriptors it visits, which it refuses, whether it
  stops at the last byte. `Sums` adds up the lengths before every place in a chain
  or a lease, so that a place and a number of bytes determine each other. A used
  length that is no `u32` is an error after the bytes are written.
  **BlockRequest** is a block request from
  `parse_request` to its status and used length, with the limit of `u64`
  and short or failing `preadv` and `pwritev`. **RequestIo** is one chain through
  any of them.
* **MemoryConfigState** is `update()` in its four steps, `snapshot()`,
  `subscribe()`, the watch channel, which refuses a value without a receiver, and
  a transport that reads the encoded configuration word by word.
* **FsInodes** is the inode table of `fs.rs` under concurrent requests. `Lookup`
  holds the lock throughout; READ takes its path and lets go of the lock; READDIR
  takes its lock anew for each entry, one entry per step. `told` records what the
  guest was told each number means, `listing` what it has put together from the
  pages. The host removes and creates files, but a path keeps its kind. The size
  of a page is counted in records.
* **MC_\*** modules give constants their values; **\*Proofs** modules have the
  theorems.

Operators under a comment "Faulty variant" are deliberately wrong forms of the
definition that follows them, used to see that a property can fail. No
specification uses them.

## Runs

| Run | Instance | Shows |
| --- | --- | --- |
| `dma_leases` | 3 threads, 2 drains, fenced | `active` is exact; nothing is leased after the unmapping; every drain returns; `DmaGuard` is implemented |
| `dma_unfenced` | 1 thread, 1 drain, not fenced | *violated*: a lease outlives the mapping |
| `dma_translate` | 8 addresses, lists of 0 to 3 segments, all ranges | accepted lists have no aliases; parts tile the range; success exactly on mapped ranges |
| `virtqueue` | 2 descriptors, chains of 1 or 2, indices modulo 8 | the rings implement `RequestChannel`, so that every answer is seen whole and with its length; only a revocation makes them fail |
| `pooled_run` | block or file system; 3 requests, 2 queues, 1 in flight per queue, 1 faulty | `Ok` means no worker; workers stay bounded; what is posted is answered; `stop()` ends `run()` |
| `block_stop` | block, none faulty | *violated*: a worker holds leases after `stop()` and `run()` |
| `serial_run` | 2 chains, 1 faulty, 2 receive chains, 2 units of input | no wakeup is lost in either direction; `stop()` ends `run()`; failures have a cause |
| `packet_run` | network with 2 pairs, or vsock; 2 chains on the first transmit queue, 1 on each other, 1 frame, faults | no kick is slept on; the queues that are used exist; what is published is served and frames are delivered; `stop()` ends `run()`; failures have a cause |
| `memory_config` | 3 updaters, 3 updates | a subscriber ends up with the current configuration, whole |
| `memory_generation` | 2 updaters, 3 updates | *violated*: an update that does not advance the generation |
| `fs_inodes` | 2 guest processes, 6 paths, numbers that run out | numbers and paths are one to one; a number keeps its meaning; an undisturbed listing in pages is complete |
| `request_io` | chains of up to 3 descriptors of 0 to 2 bytes, block chains of up to 4 | what is written is a prefix in chain order; the used length is what was written; backends get all that was readable; status `OK` means all was moved |

Bounds. Three threads are one that drops the last lease, one that is refused and
one that comes late. The index modulus 8 is four laps of the ring, and the size
divides it as every power of two up to 2^15 divides 2^16; the rings never stop, so
every offset between the indices occurs. Two queues with a limit of two and three
requests make the limit bind with a request left over in a queue. Two pairs let
the number of active pairs grow and shrink while a pair outside it has chains;
the turn wraps at two, where `usize` wraps far away, so that the wrap is
reached. The driver posts again, so one chain per queue is enough for a chain to
come while its queue is being served; the two on the first transmit queue, which is
queue 1 of either device, are there for a chain that waits behind another when
`run()` wakes up (a loop that served one per kick would leave it). Two on every
queue make too many states; so a second frame behind a first is not covered.
`MaxUpdates` bounds the calls of
`update()`: three let two of them overtake a third. The tree of `fs_inodes` has a
link between two files, so that a page ends before, at and after it, and one
number too few. In `request_io` descriptors of one or two bytes, in one part or
two, put every boundary (of a header, a part, a descriptor, the payload) at every
place; the image has two sectors, `u64` ends at eight and `u32` at four, so
that each limit is met and passed: a whole frame of four bytes is reported, five
bytes of console input or of random data are not. `Amounts` are the lengths a header may state and
a backend may have, up to more than the chains hold, and `Sectors` those a request
may name, up to behind the image and behind `u64`. `Lens`, `MaxInput`, `MaxFrames` and the `Top`
of DmaTranslate only bound the data.

Deadlock is not checked: an idle device waits for the driver, and a device whose
`run()` has returned stays so, as does a chain that was served.

Fairness. The task of `run()` is polled when it can go on, blocking I/O and
backend calls end, a store leaves its store buffer, whoever publishes kicks, and a
`stop()` that has begun ends: the runtime, the kernel and the virtio protocol give
that. In PooledRun each ready future is polled at last (strong fairness), because
`FuturesUnordered` serves its ready queue in order and `select!` starts at a
random branch. Nothing makes the driver post or the transport stop. The inner
loops of console, network and vsock are not fair to each other: a transmit queue
that is never empty keeps the receive side waiting, and steady input keeps the
transmit side waiting. Their delivery properties therefore assume that the other
direction pauses. On a network device `FrameIsDelivered` asks for a receive chain
on every active pair, because `process_rx` gives up when the pair whose turn it
is has none, whatever the others have; under a stream of frames it says that again
and again one is delivered.

## What the code does otherwise than it says

1. **revoke() then wait_for_drain()** (`dma.rs:116`). The comment at `dma.rs:66`
   asks for exactly this, but a Release store and a later Acquire load of another
   variable may be reordered. The drain can then return before the revocation is
   visible, and a lease can be granted. `stop()` calls `notify_waiters()` after
   the store, which may give the order that `Fence` assumes; that depends on
   tokio, whose source is not part of this repository.
2. **stop() then run()** (`block.rs:553`). The README (lines 23-24) lets the
   mapping be reclaimed after these two. If `run()` ends with an error, from a
   future that `stop()` overtook, it does not drain, and a worker may still be
   reading or writing guest memory. A transport can await `wait_for_drain()`
   itself.
3. **Concurrent update()** (`memory.rs:116`). The generation is read and sent in
   two steps, and two updates can send the same one. `SubscriberIsCurrent` shows
   that a subscriber that follows the channel's versions misses nothing.

Two remarks without a run. `device.rs:82` says that `run()` runs until the
generation is revoked; it looks at `down`, which `stop()` sets one statement
earlier, and `OkIsQuiet` shows that no worker is left all the same. The README at
lines 67-69 names a `shutdown()` to await; no such function exists.

## Proofs

*DmaProofs*, the leases. `LeaseTypes` and `ActiveIsExact` need only that the threads
are a finite set. An increment is a thread entering `Holding`, a decrement one
leaving it; the lemmas `HolderEnters` and `HolderLeaves` turn that into
cardinalities. `UnmapIsSafe` assumes `Fence`. `NoLeaseUnmapped` is not inductive: it
says nothing of the time between a drain and the unmapping. `IInv` adds that a drain
has begun only after the revocation is visible, that no thread is admitted once a
drain has returned, and that the mapping is removed only after a drain that
returned. A thread that enters after the drain has read zero finds `revoked` at its
second load, which is why there is one. `ProtocolImplementsGuard` maps each step to
a step of `DmaGuard` or to a stutter from the same invariant.

*DmaProofs*, the translation. The three properties of the run hold for every `Top`,
every set of segment lists and every set of ranges. The invariant adds the types,
that the stored list is sorted and valid after `new()`, and that all of the range
below the cursor is mapped. `OneSegment` is the heart: in a sorted list whose
neighbours do not overlap, one address lies in at most one segment. It follows from
neighbours alone because a sorted list ends no later than its successors begin.

*VirtQueueProofs.* `TypeCorrect` and `FailsOnlyRevoked`, for every queue size, chain
bound and index modulus that is a multiple, at least twice, of the size.
`OnlyRevokeFails` says that the ring is never more than full, that the head read
from it is the one that was written, and that a walk ends before the bound of
`read_chain`; none of these is inductive alone. `IInv` says that a head is in one
place at a time (`HeadInv`): waiting in the available ring, in flight, or answered
and not collected, and in each only once; that the table links the descriptors of
every outstanding chain (`LinkInv`); that `pop` has walked a proper prefix of the
oldest chain (`WalkInv`); and that `complete` is writing the answer of a chain in
flight into the slot after the uncollected ones, and outside `complete` no answer
is under way (`AnswerInv`). `RoomHolds` is the
counting step: heads in different places are different descriptors, so a head that
is about to enter a ring finds fewer than `QSize` there. The lemmas `DiffInc`,
`SlotAdd` and `SlotWrap` replace the modular arithmetic: indices go round at the
modulus and slots at the size, and since the size divides the modulus neither sees
the other.

*VirtQueueProofs*, `QueueImplementsChannel`: from the same invariant `AbsHolds`
reads the channel's two sequences off the rings. Storing the available index
appends to what is posted, advancing `last_available` takes its head with the
descriptors the driver linked, writing the id of a used element begins the answer
with the length `complete` was called with, storing the used index appends it, and
collecting removes the oldest; every other step, the write of the length included,
changes nothing the channel has.

*PooledProofs.* `TypeCorrect`, `OkMeansQuiet` and `InflightIsBounded`, for any
finite set of requests and any queues and limits. The bound is on pending futures,
of which the workers are some. It is inductive once the place between the test and
the push is covered: while a chain is taken and parsed the number is below the
limit. `OkIsQuiet` follows from what `run()` knew when it began to drain, that it
was down and nothing was pending. For the block device the drain itself waits for
the leases as well; for the file system device it finds none.

*SerialProofs* (with `TypeCorrect`) and *PacketProofs*, `FailuresHaveCauses`. What makes
`FailureHasCause` inductive is that the backend still has, when `run()` takes it,
the input or frame it had before the pop: only `run()` takes any, and only
`stop()`, after `down`, shuts the backend. The proof for the packet devices takes
the types from `QueueExists`.

*PacketProofs*, `QueueExists`: `TypeOK` for any number of pairs. It says that the
queue `run()` is at exists, and needs to know where in the loop it is at which kind
of queue (`Place`): at an odd one of an active pair while it transmits, at an even
one while it receives, at the last while it reads the control queue. The number of
active pairs does not change between, since only the control queue sets it.
`KickIsNeverSleptOn`: `NoSleepOnKick` alone says nothing of a future that is
created but not polled. `WakeInv` adds where in the loop there is a future, and
that a `kicked` that is set is known to the notification: through a `kick()` still
under way, a permit, a future that was woken, or a place in the loop from which
`run()` will swap it.

*MemoryConfigProofs.* `TypeCorrect` (what is stored was validated) and
`SubscriberStaysCurrent` for any updaters and any
configurations. The invariant is about the words read so far: with no `update()`
under way and nothing new in the channel they are those of the current
configuration.

*FsInodesProofs.* `TableIsBijective` and `MeaningIsKept` for any directories,
guests and page sizes. The table only grows and gives out `next`, which no entry
has. What a worker carries from one lock to the next, the path of a READ or the
records of a READDIR page, meant the same when it was put down, and the invariant
keeps that until the guest is told.
`ListingsAreComplete`, for directories of any length: `ListingInv` says that
between two pages the guest has what the entries before its offset show, and that
within a page what it has and the page together are what the entries counted so far
show, with nothing but symbolic links between the last record and the count. The
last clause is what lets the next page start after the last record. What "show"
means is the recursive function `Front`; that it exists, and that selecting twice
selects from both sets (`OnlyTwice`), is by induction on the length, from the least
element of a set of numbers (`Least`, `Induction`).

*RequestProofs.* The five invariants of `request_io`, for chains of any length,
descriptors of any lengths in any parts, any amounts of data and any image:
`TypeCorrect`, `WritesAPrefix`, `UsedIsTruthful`, `ReadsAll`, `StatusHolds`. The
properties speak of what was moved; the invariant ties that to the place of the
loop. `Reached(S)` is the number of bytes of the descriptors of `S` before the
place. While a device reads, `Len(got)` is `Reached(Readable)` (`ReadInv`); while it
writes, `offset` is the smaller of `count` and `Reached(Writable)` (`WriteInv`).
Skipping a descriptor, leasing it and dropping the lease leave `Reached` alone
(`ReachedSkip`, `ReachedLease`, `ReachedDrop`), a part adds its length
(`ReachedPart`), and past the last descriptor it is the capacity (`ReachedEnd`); so
a loop that ends has moved everything. `PlaceInv` keeps that the checks before the
loop passed, from which `WriteVisits` concludes that the loop visits the writable
descriptors and that they have room. That a copy gives each cell what its rank asks
for (`CopyIs`) rests on the sums being ascending (`PlaceFrom`): the cells of another
descriptor lie wholly before or wholly behind. For the block device, `CellsOfRead`
shows that in a well-formed read the payload comes first among the writable cells
and the status byte right behind it (`PayloadFirst`). `TypeCorrect` includes that a
used length is a `u32`. `BytesArriveExactlyOnce`: each byte counted as written is in
exactly one cell. `WrittenIsPrefix` gives every cell of a rank up to `offset` its
byte, but would hold as well if `offset` ran past the end of the chain; `Room`, that
it never does, is proved along with the invariant, from the place of the loop for
the copies and from `PayloadFirst` for `preadv`, and a rank up to the capacity
belongs to exactly one writable cell (`PlaceHasCell`, `PlaceIsUnique`). That `Sums` is what its recursion says and ascends is by induction, as for `Front`.

The assumptions are those named in the modules that declare the constants, and
TLC evaluates them. `OnlyIsSelectSeq` in MC_FsInodes compares `Only` with
`SelectSeq` on the lists of the run. All results are stated of the models above, so
the abstractions named there apply.

Sequences need care. The SMT translation of this version of the prover takes every
function for a sequence once a goal mentions `Len` or `<<>>`, so a goal that has
other functions in it as well can be proved for the wrong reason. In such places
the proofs use Zenon, which does not translate, or first name what is needed of the
sequence and prove the step from that. Every step that SMT proves was also tried
with the translation's axioms about sequences restricted to sequences, and holds.

Model-checked only:

* Liveness: it needs fairness and `ENABLED`, which are out of the prover's reach.
* The three disagreements above, which are counterexamples.

## Not modelled

* `DeviceResources::validate`, `QueueLayout::validate` and feature bits: a
  sequence of comparisons made once, before anything is concurrent. The sizes they
  let through are the assumptions of VirtQueue.
* The bytes of FUSE replies, and the fields of headers that only pass through
  (vsock addresses, network offload fields, `node_id` and `addr` of the memory
  configuration). What the backends keep (plugged blocks, sockets, tap devices) is
  outside the crate; they may refuse, be shut, or have something for the guest.
* Random bytes, file contents and times.
* In FsInodes: requests that fail and change nothing, I/O errors, names that are
  not UTF-8, and a READDIR page too small for one record, which the code answers
  as the end of the directory (`fs.rs:530`). FORGET does not shrink the table
  (`fs.rs:286`), so the table grows with every path looked up; the model has that,
  and no property bounds it.
* A directory that the host changes between two pages may lose an unchanged entry,
  because offsets are positions; nothing promises otherwise, and
  `ListingIsComplete` does not speak of that case.
* vsock completes transmit chains with the number of bytes it read
  (`vsock.rs:259`), where the other devices use 0. Nothing in the repository says
  what it should be, and `UsedIsWritten` leaves that queue out.
* The branch "short virtio-fs reply write" of `write_reply` is unreachable: the
  capacity was compared before. ChainIo has the comparison.
* Memory orderings other than that of `revoke()`.

## Plan

1. Composition: BlockRun with the steps of DmaMemory in place of its atomic drain,
   and with VirtQueue in place of its atomic `pop` and `complete`.
2. Runs of SerialRun and PacketDevices as implementations of one abstract device.
