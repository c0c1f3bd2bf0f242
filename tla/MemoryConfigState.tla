-------------------------- MODULE MemoryConfigState -------------------------
(***************************************************************************)
(* The shared virtio-mem configuration (MemoryConfigState in               *)
(* src/src/memory.rs).  Clones of the state update it from several         *)
(* threads; the transport subscribes to a tokio watch channel, and reads   *)
(* the encoded configuration through ConfigView, word by word, when it     *)
(* subscribes and after each change it is told of.                         *)
(*                                                                         *)
(* update() is four steps: validate, replace the configuration under its   *)
(* lock, read the generation from the channel, send the next one.  The     *)
(* channel (external) refuses a value while it has no receiver, and counts *)
(* the values it took, which is what a receiver waits on.                  *)
(***************************************************************************)
EXTENDS Integers, Sequences

CONSTANTS
  Updaters,      \* threads that call update()
  Candidates,    \* the MemoryConfigs they pass
  Initial,       \* the MemoryConfig given to new()
  MaxUpdates     \* bound on the calls of update()

VARIABLES
  config,        \* the RwLock'ed MemoryConfig
  generation,    \* the value of the watch channel
  version,       \* how many values the channel took
  pc, next,      \* per updater: where it is, and the generation it computed
  calls,         \* calls of update() so far
  watcher,       \* the transport: absent, reading or fresh
  seen,          \* the version the transport was told of
  view, unread   \* the words it has, and those it has still to read again

transport == <<watcher, seen, view, unread>>
vars == <<config, generation, version, pc, next, calls, transport>>

\* MemoryConfig::encode: the fields in their places, node_id and addr left out.
Layout == <<"block_size", "region_size", "usable_region_size", "plugged_size",
            "requested_size">>
Words == 1..Len(Layout)
Encode(c) == [w \in Words |-> c[Layout[w]]]

\* MemoryConfig::validate; the powers of two are those of the small sizes
\* used here, and addr is left out.
Validate(c) ==
  /\ c.block_size \in {1, 2, 4}
  /\ \A v \in {c.region_size, c.usable_region_size, c.plugged_size,
               c.requested_size} : v % c.block_size = 0
  /\ c.usable_region_size <= c.region_size
  /\ c.plugged_size <= c.usable_region_size
  /\ c.requested_size <= c.usable_region_size

MemoryConfig == [block_size : Nat, region_size : Nat, usable_region_size : Nat,
                 plugged_size : Nat, requested_size : Nat]

ASSUME ConfigAssumption ==
  /\ Candidates \subseteq MemoryConfig
  /\ Initial \in MemoryConfig /\ Validate(Initial)
  /\ MaxUpdates \in Nat

Accepted == {c \in Candidates : Validate(c)} \cup {Initial}

\* The configuration anyone can read is one that validate() accepted.
TypeOK ==
  /\ config \in Accepted
  /\ view \in [Words -> Nat] /\ unread \subseteq Words
  /\ generation \in 0..MaxUpdates /\ version \in 0..MaxUpdates
  /\ pc \in [Updaters -> {"idle", "borrow", "send"}]
  /\ next \in [Updaters -> 0..(MaxUpdates + 1)]
  /\ calls \in 0..MaxUpdates
  /\ watcher \in {"absent", "reading", "fresh"}
  /\ seen \in 0..version

Init ==
  /\ config = Initial
  /\ generation = 0 /\ version = 0
  /\ pc = [u \in Updaters |-> "idle"]
  /\ next = [u \in Updaters |-> 0]
  /\ calls = 0
  /\ watcher = "absent"
  /\ seen = 0 /\ view = Encode(Initial) /\ unread = {}

Goto(u, from, to) ==
  /\ pc[u] = from
  /\ pc' = [pc EXCEPT ![u] = to]

\* Faulty variant: any configuration replaces the old.
WriteUnchecked(u) ==
  /\ Goto(u, "idle", "borrow")
  /\ calls < MaxUpdates
  /\ calls' = calls + 1
  /\ config' \in Candidates
  /\ UNCHANGED <<generation, version, next, transport>>

\* Faulty variant: a change of the requested size alone is not announced.
WriteQuietly(u) ==
  /\ calls < MaxUpdates
  /\ calls' = calls + 1
  /\ \E c \in Candidates :
       /\ Validate(c) /\ config' = c
       /\ Goto(u, "idle", IF c.plugged_size = config.plugged_size THEN "idle" ELSE "borrow")
  /\ UNCHANGED <<generation, version, next, transport>>

\* update(): an invalid configuration is refused, any other replaces the old.
Write(u) ==
  /\ Goto(u, "idle", "borrow")
  /\ calls < MaxUpdates
  /\ calls' = calls + 1
  /\ \E c \in Candidates : Validate(c) /\ config' = c
  /\ UNCHANGED <<generation, version, next, transport>>

\* update(): generation = *updates.borrow() + 1.
Borrow(u) ==
  /\ Goto(u, "borrow", "send")
  /\ next' = [next EXCEPT ![u] = generation + 1]
  /\ UNCHANGED <<config, generation, version, calls, transport>>

\* update(): updates.send(generation), whose error is ignored.
Send(u) ==
  /\ Goto(u, "send", "idle")
  /\ next' = [next EXCEPT ![u] = 0]
  /\ IF watcher = "absent"
     THEN UNCHANGED <<generation, version>>
     ELSE generation' = next[u] /\ version' = version + 1
  /\ UNCHANGED <<config, calls, transport>>

\* subscribe(): the receiver starts with the current version seen.
Subscribe ==
  /\ watcher = "absent"
  /\ watcher' = "reading"
  /\ seen' = version
  /\ unread' = Words
  /\ UNCHANGED <<config, generation, version, pc, next, calls, view>>

\* snapshot()
Snapshot == config

\* ConfigView::read of one word: of a snapshot of its own.
Read(w) ==
  /\ watcher = "reading" /\ w \in unread
  /\ view' = [view EXCEPT ![w] = Encode(Snapshot)[w]]
  /\ unread' = unread \ {w}
  /\ watcher' = IF unread' = {} THEN "fresh" ELSE "reading"
  /\ UNCHANGED <<config, generation, version, pc, next, calls, seen>>

\* The receiver's changed().await completes.
Changed ==
  /\ watcher = "fresh"
  /\ seen # version
  /\ watcher' = "reading"
  /\ seen' = version
  /\ unread' = Words
  /\ UNCHANGED <<config, generation, version, pc, next, calls, view>>

\* The transport drops its receiver.
Unsubscribe ==
  /\ watcher = "fresh"
  /\ watcher' = "absent"
  /\ UNCHANGED <<config, generation, version, pc, next, calls, seen, view, unread>>

Next ==
  \/ \E u \in Updaters : Write(u) \/ Borrow(u) \/ Send(u)
  \/ Subscribe \/ (\E w \in Words : Read(w)) \/ Changed \/ Unsubscribe

Spec == Init /\ [][Next]_vars

-----------------------------------------------------------------------------
(* Properties.                                                             *)

\* A subscriber that has handled every change it was told of, with no update()
\* under way, has the current configuration: no update goes unannounced, and a
\* view torn by an update between two of its reads does not last.
SubscriberIsCurrent ==
  /\ watcher = "fresh"
  /\ seen = version
  /\ \A u \in Updaters : pc[u] = "idle"
  => view = Encode(config)

\* Every value the channel takes is a new, higher generation: a configuration
\* update advances the generation.
GenerationAdvances == [][version' # version => generation' > generation]_vars
=============================================================================
