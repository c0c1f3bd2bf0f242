------------------------------ MODULE FsInodes ------------------------------
(***************************************************************************)
(* The inode table of the file system device (FsInodes in src/src/fs.rs)   *)
(* under concurrent requests, each run by a blocking worker: LOOKUP, READ  *)
(* and READDIR.  The other requests change nothing: GETATTR and OPEN look  *)
(* at the table and the host under one lock, and FORGET leaves the table   *)
(* alone, so numbers are never given up.                                   *)
(*                                                                         *)
(* A path is a model value; Entries is the order in which the host lists a *)
(* directory, and the host may remove and create the Volatile files, but   *)
(* a path keeps its kind.  read_dir is taken to list what is there when it *)
(* is opened.  Requests that fail and change nothing are left out, as are  *)
(* I/O errors and names that are not UTF-8.  The bytes of a READDIR page   *)
(* are counted in records, and a page has room for at least one.           *)
(***************************************************************************)
EXTENDS Integers, Sequences, Functions

CONSTANTS
  Guests,      \* guest processes, each with one request at a time
  Paths, Root,
  Entries,     \* the names in each directory, in the host's order
  Symlinks, Volatile,
  Top,         \* u64::MAX
  Sizes        \* the records that fit a READDIR reply

FUSE_ROOT_ID == 1
Dirs == DOMAIN Entries

ASSUME FsAssumption ==
  /\ Root \in Dirs /\ Dirs \subseteq Paths
  /\ \A d \in Dirs : Entries[d] \in Seq(Paths \ {Root})
  /\ Symlinks \subseteq Paths \ Dirs /\ Volatile \subseteq Paths \ Dirs
  /\ Top \in Nat /\ Top > FUSE_ROOT_ID
  /\ Sizes \subseteq Nat \ {0}

VARIABLES
  next, by_id, by_path,   \* FsInodes
  exists,      \* the paths the host has
  told,        \* the path for which each number was given to the guest
  job,         \* the request of each guest process
  listing      \* the directory it reads in pages

inodes == <<next, by_id, by_path>>
vars == <<inodes, exists, told, job, listing>>

Idle == [pc |-> "idle"]
NewListing(dir) ==
  [dir |-> dir, offset |-> 0, listed |-> <<>>, clean |-> TRUE, ended |-> FALSE]

\* Faulty variant: the first number given out is the root's.
InitNextIsRoot ==
  /\ next = FUSE_ROOT_ID
  /\ by_id = [i \in {FUSE_ROOT_ID} |-> Root]
  /\ by_path = [p \in {Root} |-> FUSE_ROOT_ID]
  /\ exists = Paths
  /\ told = [i \in {FUSE_ROOT_ID} |-> Root]
  /\ job = [g \in Guests |-> Idle]
  /\ listing = [g \in Guests |-> NewListing(FUSE_ROOT_ID)]

Init ==
  /\ next = FUSE_ROOT_ID + 1
  /\ by_id = [i \in {FUSE_ROOT_ID} |-> Root]
  /\ by_path = [p \in {Root} |-> FUSE_ROOT_ID]
  /\ exists = Paths
  /\ told = [i \in {FUSE_ROOT_ID} |-> Root]
  /\ job = [g \in Guests |-> Idle]
  /\ listing = [g \in Guests |-> NewListing(FUSE_ROOT_ID)]

\* The entries of a list that are in S, in their order: of its first n, and
\* of the whole list.
Extend(kept, p, S) == IF p \in S THEN Append(kept, p) ELSE kept
Front(list, S) ==
  LET front[n \in 0..Len(list)] == IF n = 0 THEN <<>> ELSE Extend(front[n - 1], list[n], S)
  IN  front
Only(list, S) == Front(list, S)[Len(list)]

-----------------------------------------------------------------------------
(* id_for_path, under the lock of the table.                               *)

With(f, x, y) == [z \in DOMAIN f \cup {x} |-> IF z = x THEN y ELSE f[z]]

\* Faulty variant: the number is not checked against u64::MAX.
OverflowsNever(p) == FALSE

\* checked_add fails, before anything is inserted.
Overflows(p) == p \notin DOMAIN by_path /\ next = Top

IdOf(p) == IF p \in DOMAIN by_path THEN by_path[p] ELSE next

\* Faulty variant: a path with a number gets another one.
IdForPathAfresh(p) ==
  /\ next' = next + 1
  /\ by_id' = With(by_id, next, p)
  /\ by_path' = With(by_path, p, next)

IdForPath(p) ==
  IF p \in DOMAIN by_path
  THEN UNCHANGED inodes
  ELSE /\ next' = next + 1
       /\ by_id' = With(by_id, next, p)
       /\ by_path' = With(by_path, p, next)

-----------------------------------------------------------------------------
(* The requests.                                                           *)

\* lookup_reply holds the lock throughout.
Lookup(g) ==
  /\ job[g].pc = "idle"
  /\ \E i \in DOMAIN told :
       /\ i \in DOMAIN by_id /\ by_id[i] \in Dirs
       /\ \E p \in Range(Entries[by_id[i]]) :
            /\ p \in exists /\ p \notin Symlinks /\ ~Overflows(p)
            /\ IdForPath(p)
            /\ told' = With(told, IdOf(p), p)
  /\ UNCHANGED <<exists, job, listing>>

\* read_reply: the path is taken from the table, the lock is released ...
ReadLock(g) ==
  /\ job[g].pc = "idle"
  /\ \E i \in DOMAIN told :
       /\ i \in DOMAIN by_id
       /\ job' = [job EXCEPT ![g] = [pc |-> "read", node_id |-> i, path |-> by_id[i]]]
  /\ UNCHANGED <<inodes, exists, told, listing>>

\* ... and the file is opened and read, or is gone.
ReadFile(g) ==
  /\ job[g].pc = "read"
  /\ job' = [job EXCEPT ![g] = Idle]
  /\ UNCHANGED <<inodes, exists, told, listing>>

\* readdir_reply up to its loop: the path, and the entries the host has now.
ReaddirStart(g) ==
  /\ job[g].pc = "idle" /\ ~listing[g].ended
  /\ listing[g].dir \in DOMAIN by_id
  /\ LET path == by_id[listing[g].dir]
     IN  /\ path \in Dirs
         /\ \E size \in Sizes :
              job' = [job EXCEPT ![g] =
                        [pc |-> "page", todo |-> Only(Entries[path], exists),
                         size |-> size, index |-> 0, page |-> <<>>]]
  /\ UNCHANGED <<inodes, exists, told, listing>>

\* An entry the page does not take: of an earlier page, or a symbolic link.
Skips(g, p) ==
  job[g].index < listing[g].offset \/ (p \in exists /\ p \in Symlinks)

\* Faulty variant: a symbolic link is passed over without being counted.
ReaddirSkipUncounted(g) ==
  /\ job[g].pc = "page" /\ job[g].todo # <<>>
  /\ Skips(g, Head(job[g].todo))
  /\ job' = [job EXCEPT ![g].todo = Tail(@),
                        ![g].index = IF @ < listing[g].offset THEN @ + 1 ELSE @]
  /\ UNCHANGED <<inodes, exists, told, listing>>

\* The loop passes over an entry and counts it.
ReaddirSkip(g) ==
  /\ job[g].pc = "page" /\ job[g].todo # <<>>
  /\ Skips(g, Head(job[g].todo))
  /\ job' = [job EXCEPT ![g].todo = Tail(@), ![g].index = @ + 1]
  /\ UNCHANGED <<inodes, exists, told, listing>>

\* The entry is gone, or there is no number for it: the request fails, and the
\* guest starts over.
ReaddirFail(g) ==
  /\ job[g].pc = "page" /\ job[g].todo # <<>>
  /\ LET p == Head(job[g].todo)
     IN  ~Skips(g, p) /\ (p \notin exists \/ Overflows(p))
  /\ job' = [job EXCEPT ![g] = Idle]
  /\ listing' = [listing EXCEPT ![g] = NewListing(@.dir)]
  /\ UNCHANGED <<inodes, exists, told>>

\* What a record of a page carries.
Dirent(node_id, offset, path) ==
  [node_id |-> node_id, offset |-> offset, path |-> path]

\* An entry gets its number, and then its record if the page has room.  The
\* record carries the offset of the entry after it.
ReaddirEntry(g) ==
  /\ job[g].pc = "page" /\ job[g].todo # <<>>
  /\ LET j == job[g]
         p == Head(j.todo)
     IN  /\ ~Skips(g, p) /\ p \in exists /\ ~Overflows(p)
         /\ IdForPath(p)
         /\ job' = [job EXCEPT
                      ![g] = IF Len(j.page) = j.size
                             THEN [j EXCEPT !.todo = <<>>]
                             ELSE [j EXCEPT
                                     !.todo = Tail(@), !.index = @ + 1,
                                     !.page = Append(@, Dirent(IdOf(p), j.index + 1, p))]]
  /\ UNCHANGED <<exists, told, listing>>

\* The guest gets the page.  An empty one is the end of the directory, any
\* other is continued after its last record.
ReaddirReply(g) ==
  /\ job[g].pc = "page" /\ job[g].todo = <<>>
  /\ LET page == job[g].page
     IN  IF page = <<>>
         THEN /\ listing' = [listing EXCEPT ![g].ended = TRUE]
              /\ UNCHANGED told
         ELSE /\ listing' = [listing EXCEPT
                               ![g].offset = page[Len(page)].offset,
                               ![g].listed = @ \o [i \in DOMAIN page |-> page[i].path]]
              /\ told' = [i \in DOMAIN told \cup {r.node_id : r \in Range(page)} |->
                            IF \E r \in Range(page) : r.node_id = i
                            THEN (CHOOSE r \in Range(page) : r.node_id = i).path
                            ELSE told[i]]
  /\ job' = [job EXCEPT ![g] = Idle]
  /\ UNCHANGED <<inodes, exists>>

\* The guest lists another directory, or this one again.
Opendir(g) ==
  /\ job[g].pc = "idle" /\ listing[g].ended
  /\ \E i \in DOMAIN told :
       /\ told[i] \in Dirs
       /\ listing' = [listing EXCEPT ![g] = NewListing(i)]
  /\ UNCHANGED <<inodes, exists, told, job>>

\* The host removes or creates a file; listings that have begun are marked.
HostChange ==
  /\ \E p \in Volatile :
       exists' = IF p \in exists THEN exists \ {p} ELSE exists \cup {p}
  /\ listing' = [g \in Guests |->
                   [listing[g] EXCEPT
                      !.clean = @ /\ job[g].pc # "page" /\ listing[g].listed = <<>>
                                  /\ ~listing[g].ended]]
  /\ UNCHANGED <<inodes, told, job>>

Request(g) ==
  \/ Lookup(g) \/ ReadLock(g) \/ ReadFile(g)
  \/ ReaddirStart(g) \/ ReaddirSkip(g) \/ ReaddirFail(g) \/ ReaddirEntry(g)
  \/ ReaddirReply(g) \/ Opendir(g)

Next == (\E g \in Guests : Request(g)) \/ HostChange

Spec == Init /\ [][Next]_vars

-----------------------------------------------------------------------------
(* Properties.                                                             *)

TypeOK ==
  /\ next \in Nat
  /\ DOMAIN by_id \subseteq FUSE_ROOT_ID..(next - 1)
  /\ DOMAIN by_path \subseteq Paths
  /\ \A i \in DOMAIN by_id : by_id[i] \in Paths
  /\ \A p \in DOMAIN by_path : by_path[p] \in FUSE_ROOT_ID..(next - 1)
  /\ next <= Top

\* The two maps of the table are inverse to each other: however the workers
\* interleave, a path has one number and a number one path.
OneNumberPerPath ==
  /\ \A p \in DOMAIN by_path :
       by_path[p] \in DOMAIN by_id /\ by_id[by_path[p]] = p
  /\ \A i \in DOMAIN by_id :
       by_id[i] \in DOMAIN by_path /\ by_path[by_id[i]] = i

\* What a number meant when the guest was given it, or when a READ took its path
\* and let go of the lock, it still means.
NumbersKeepMeaning ==
  /\ \A i \in DOMAIN told : i \in DOMAIN by_id /\ by_id[i] = told[i]
  /\ \A g \in Guests :
       job[g].pc = "read" => by_id[job[g].node_id] = job[g].path

\* A directory that the host does not change while it is read in pages, of
\* whatever sizes, is listed in full, in order and without repetition; only
\* symbolic links are missing.
ListingIsComplete ==
  \A g \in Guests :
    listing[g].ended /\ listing[g].clean =>
      listing[g].listed = Only(Entries[told[listing[g].dir]], exists \ Symlinks)
=============================================================================
