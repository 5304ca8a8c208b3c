------------------------------ MODULE PhoneFile ------------------------------
(***************************************************************************)
(* One open file of a phone's folder: phoneHandle of                       *)
(* desktop/phonemount_linux.go, with the cached listing of its folder      *)
(* (phoneFS.dirs) and the phone's side,                                    *)
(* mobile/lib/features/phone_files.dart.  Reads go through a cache of      *)
(* blocks with one read ahead, writes are gathered and sent by whatever    *)
(* needs them sent.                                                        *)
(*                                                                         *)
(* A file is a sequence of cells, a cell the number of the write it is     *)
(* from (0 for none), a block PerBlock cells.  The kernel lets one write   *)
(* or truncation of a file run at a time and everything else at once; the  *)
(* phone does not wait for one request before it starts the next.  A file  *)
(* may also be cut by its path, for which the kernel gives no handle       *)
(* ("shorten"; "truncate" has one).                                        *)
(***************************************************************************)
EXTENDS Integers, FiniteSets, SequencesExt

CONSTANTS
  Threads,     \* those that serve kernel requests, numbers
  Aheads,      \* bound on read-ahead goroutines at once, numbers
  Cells,       \* cells of the file at first
  PerBlock,    \* cells in mountBlock
  CacheBlocks, \* mountBlocks
  MaxLength,   \* bound on the cells of one write
  MaxWrites,   \* bound on writes and truncations
  MaxReads,    \* bound on reads, flushes and listings
  MaxFails     \* bound on requests that fail

ASSUME FileAssumption ==
  /\ Threads \subseteq Int /\ Threads \intersect Aheads = {}
  /\ Cells \in Nat /\ PerBlock \in Nat \ {0} /\ CacheBlocks \in Nat \ {0}
  /\ MaxLength \in Nat /\ MaxWrites \in Nat /\ MaxReads \in Nat /\ MaxFails \in Nat

VARIABLES
  file,     \* the cells on the phone
  want,     \* what the writes and truncations so far make of it
  size, wbuf, woff, wrote,
  blocks,   \* the cached ones, by index
  order,    \* their indexes, oldest first
  inflight, \* blocks being fetched
  at,       \* [callers -> what it is doing]
  dir,      \* the size in the cached listing, or -1 without one
  writes, reads, faults,
  clouded,  \* blocks whose fetch met a write that had not reached the phone, or
            \* that were left in the cache when the file was cut by its path
  apart,    \* the file was cut by its path since the handle knew its size
  raced,    \* two changes were on their way to the phone at once, or gathered
            \* writes stayed behind a cut by path
  lost,     \* a change did not get through, or its answer
  unlisted, \* something changed on the phone since the last forget
  crossed   \* the cached listing was fetched before the last forget

fileVars == <<file, want, size, wbuf, woff, wrote, blocks, order, inflight, at, dir,
              writes, reads, faults, clouded, apart, raced, lost, unlisted, crossed>>
buffer  == <<want, size, wbuf, woff, apart>>
cache   == <<blocks, order, inflight, clouded>>
listing == <<dir, unlisted, crossed>>
bounds  == <<writes, reads>>
faulty  == <<faults, lost>>

Callers == Threads \union Aheads
(* then: where it goes on after its flush; pos, data: the cells it is      *)
(* about; buf, off: what it is sending.                                    *)
Idle == [op |-> "none", step |-> "idle", then |-> "idle", pos |-> 0, data |-> <<>>,
         buf |-> <<>>, off |-> 0]

Blk(i)        == i \div PerBlock
BlockOf(f, i) == SubSeq(f, i * PerBlock + 1, IF (i + 1) * PerBlock < Len(f) THEN (i + 1) * PerBlock ELSE Len(f))
Resized(f, n) == [k \in 1 .. n |-> IF k <= Len(f) THEN f[k] ELSE 0]
(* f with data at off; a gap before it is zero. *)
Written(f, off, data) ==
  LET end == off + Len(data) IN
  [k \in 1 .. IF Len(f) > end THEN Len(f) ELSE end |->
     IF k > off /\ k <= end THEN data[k - off] ELSE IF k <= Len(f) THEN f[k] ELSE 0]

Becomes(t, r)   == at' = [at EXCEPT ![t] = r]
To(t, s)        == Becomes(t, [at[t] EXCEPT !.step = s])
Changing(a, t)  == a[t].step \in {"sent", "replied", "cut", "shortened"}
Unsent          == wbuf # <<>> \/ \E t \in Threads : Changing(at, t)
Fetching(t)     == at[t].step \in {"fetch", "fetched"}

(* Every variable has its type; no block is fetched twice at once, and the *)
(* cache holds what its order says and no more than it may.                *)
FileOK ==
  /\ file \in Seq(0..MaxWrites) /\ want \in Seq(0..MaxWrites) /\ wbuf \in Seq(1..MaxWrites)
  /\ size \in Nat /\ woff \in Nat /\ dir \in Nat \union {-1}
  /\ Len(order) <= CacheBlocks
  /\ ToSet(order) = DOMAIN blocks /\ IsInjective(order)
  /\ DOMAIN blocks \intersect inflight = {}
  /\ inflight = {Blk(at[t].pos) : t \in {u \in Callers : Fetching(u)}}
  /\ \A t, u \in Callers : Fetching(t) /\ Fetching(u) /\ Blk(at[t].pos) = Blk(at[u].pos) => t = u

FileInit ==
  /\ file = [k \in 1 .. Cells |-> 0] /\ want = file /\ size = Cells
  /\ wbuf = <<>> /\ woff = 0 /\ wrote = FALSE
  /\ blocks = <<>> /\ order = <<>> /\ inflight = {} /\ clouded = {}
  /\ at = [t \in Callers |-> Idle]
  /\ dir = -1 /\ unlisted = FALSE /\ crossed = FALSE
  /\ writes = 0 /\ reads = 0 /\ faults = 0 /\ raced = FALSE /\ lost = FALSE /\ apart = FALSE

-----------------------------------------------------------------------------
(* The kernel's requests arrive, each for the first thread that is free.   *)
Arrives(t, op, step, then, pos, data) ==
  /\ at[t] = Idle /\ \A u \in Threads : u < t => at[u] # Idle
  /\ Becomes(t, [Idle EXCEPT !.op = op, !.step = step, !.then = then, !.pos = pos, !.data = data])
  /\ UNCHANGED <<file, buffer, wrote, cache, listing, faulty>>

Begin(t) ==
  /\ reads < MaxReads /\ reads' = reads + 1 /\ writes' = writes
  /\ \/ \E c \in 0 .. Cells : Arrives(t, "read", "take", "look", c, <<>>)
     \/ Arrives(t, "flush", "take", "forget", 0, <<>>)
     \/ Arrives(t, "fsync", "take", "idle", 0, <<>>)
     \/ dir = -1 /\ Arrives(t, "list", "list", "idle", 0, <<>>)

BeginChange(t) ==
  /\ \A u \in Threads : at[u].op \notin {"write", "truncate", "shorten"}
  /\ writes < MaxWrites /\ writes' = writes + 1 /\ reads' = reads
  /\ \/ \E c \in 0 .. Cells - 1, n \in 1 .. MaxLength :
          Arrives(t, "write", "check", "idle", c, [k \in 1 .. n |-> writes'])
     \/ \E c \in 0 .. Cells - 1 : \/ Arrives(t, "truncate", "take", "cut", c, <<>>)
                                  \/ Arrives(t, "shorten", "cut", "idle", c, <<>>)

-----------------------------------------------------------------------------
(* flush: the buffer is taken and sent in pieces of a block. *)
Goes(t, r) == Becomes(t, IF r.step = "idle" THEN Idle ELSE r)

TakeBuffer(t) ==
  /\ at[t].step = "take"
  /\ wbuf' = <<>>
  /\ Goes(t, [at[t] EXCEPT !.step = IF wbuf = <<>> THEN at[t].then ELSE "sent",
                           !.buf = wbuf, !.off = IF wbuf = <<>> THEN 0 ELSE woff])
  /\ UNCHANGED <<file, want, size, woff, apart, wrote, cache, listing, bounds, faulty>>

Piece(t) == SubSeq(at[t].buf, 1, IF Len(at[t].buf) < PerBlock THEN Len(at[t].buf) ELSE PerBlock)

PhoneWrites(t) ==
  /\ at[t].step = "sent"
  /\ file' = Written(file, at[t].off, Piece(t)) /\ unlisted' = TRUE
  /\ To(t, "replied")
  /\ UNCHANGED <<buffer, wrote, cache, dir, crossed, bounds, faulty>>

SendMore(t) ==
  LET h == at[t]  rest == SubSeq(h.buf, Len(Piece(t)) + 1, Len(h.buf)) IN
  /\ h.step = "replied"
  /\ wrote' = TRUE
  /\ Goes(t, [h EXCEPT !.step = IF rest = <<>> THEN h.then ELSE "sent", !.buf = rest,
                       !.off = IF rest = <<>> THEN 0 ELSE @ + Len(Piece(t))])
  /\ UNCHANGED <<file, buffer, cache, listing, bounds, faulty>>

(* The cached listing goes; one being fetched is not stopped. *)
Forget ==
  /\ dir' = -1 /\ unlisted' = FALSE /\ crossed' = FALSE

Crossing(t) == [u \in Callers |-> IF u = t THEN Idle
                                  ELSE IF at[u].step = "listed" THEN [at[u] EXCEPT !.then = "crossed"]
                                  ELSE at[u]]

(* The end of Flush. *)
FlushEnds(t) ==
  /\ at[t].step = "forget"
  /\ IF wrote THEN Forget /\ at' = Crossing(t) ELSE Becomes(t, Idle) /\ UNCHANGED listing
  /\ UNCHANGED <<file, buffer, wrote, cache, bounds, faulty>>

-----------------------------------------------------------------------------
(* Write. *)
Check(t) ==
  LET joins == wbuf # <<>> /\ at[t].pos = woff + Len(wbuf) IN
  /\ at[t].step = "check"
  /\ Becomes(t, [at[t] EXCEPT !.step = "decide", !.then = IF joins THEN "idle" ELSE "put"])
  /\ UNCHANGED <<file, buffer, wrote, cache, listing, bounds, faulty>>

(* The length of the buffer is read again, without the lock. *)
Decide(t) ==
  /\ at[t].step = "decide"
  /\ To(t, IF wbuf # <<>> /\ at[t].then = "put" THEN "take" ELSE "put")
  /\ UNCHANGED <<file, buffer, wrote, cache, listing, bounds, faulty>>

(* Wrong variant: only the block written to is dropped, not those that a   *)
(* longer write reaches.                                                   *)
DropBlocks_First(t) ==
  LET first == {Blk(at[t].pos)} IN
  /\ order' = SelectSeq(order, LAMBDA i : i \notin first)
  /\ blocks' = [i \in DOMAIN blocks \ first |-> blocks[i]]
  /\ clouded' = inflight /\ inflight' = inflight

(* dropBlocksLocked; a fetch under way brings what was there before.       *)
DropBlocks(t) ==
  /\ order' = <<>> /\ blocks' = <<>>
  /\ clouded' = inflight /\ inflight' = inflight

Put(t) ==
  LET h == at[t]  end == h.pos + Len(h.data) IN
  /\ h.step = "put"
  /\ woff' = IF wbuf = <<>> THEN h.pos ELSE woff
  /\ wbuf' = wbuf \o h.data
  /\ size' = IF size > end THEN size ELSE end
  /\ want' = Written(want, h.pos, h.data)
  /\ DropBlocks(t)
  /\ Goes(t, IF Len(wbuf') >= PerBlock THEN [h EXCEPT !.step = "take", !.then = "idle"] ELSE Idle)
  /\ UNCHANGED <<file, apart, wrote, listing, bounds, faulty>>

-----------------------------------------------------------------------------
(* Setattr with a size. *)
PhoneCuts(t) ==
  /\ at[t].step = "cut"
  /\ file' = Resized(file, at[t].pos) /\ unlisted' = TRUE
  /\ To(t, "shortened")
  /\ UNCHANGED <<buffer, wrote, cache, dir, crossed, bounds, faulty>>

(* The handle is told, if there is one. *)
Truncated(t) ==
  /\ at[t].step = "shortened" /\ at[t].op = "truncate"
  /\ size' = at[t].pos /\ want' = Resized(want, at[t].pos) /\ apart' = FALSE
  /\ Forget /\ at' = Crossing(t)
  /\ DropBlocks(t)
  /\ UNCHANGED <<file, wbuf, woff, wrote, bounds, faulty>>

Shortened(t) ==
  /\ at[t].step = "shortened" /\ at[t].op = "shorten"
  /\ want' = Resized(want, at[t].pos) /\ apart' = TRUE
  /\ Forget /\ at' = Crossing(t)
  /\ clouded' = clouded \union DOMAIN blocks \union inflight
  /\ UNCHANGED <<file, size, wbuf, woff, wrote, blocks, order, inflight, bounds, faulty>>

-----------------------------------------------------------------------------
(* block, for Read and for the goroutines that read ahead. *)
Look(t) ==
  LET i == Blk(at[t].pos) IN
  /\ at[t].step = "look" /\ i \notin inflight
  /\ IF i \in DOMAIN blocks
       THEN /\ Goes(t, [at[t] EXCEPT !.step = "next", !.data = blocks[i]])
            /\ UNCHANGED cache
       ELSE /\ To(t, "fetch")
            /\ inflight' = inflight \union {i}
            /\ clouded' = IF Unsent THEN clouded \union {i} ELSE clouded \ {i}
            /\ UNCHANGED <<blocks, order>>
  /\ UNCHANGED <<file, buffer, wrote, listing, bounds, faulty>>

PhoneReads(t) ==
  /\ at[t].step = "fetch"
  /\ Becomes(t, [at[t] EXCEPT !.step = "fetched", !.data = BlockOf(file, Blk(at[t].pos))])
  /\ UNCHANGED <<file, buffer, wrote, cache, listing, bounds, faulty>>

Store(t) ==
  LET i == Blk(at[t].pos)
      full == Len(order) = CacheBlocks
      kept == IF full THEN Tail(order) ELSE order
  IN
  /\ at[t].step = "fetched"
  /\ inflight' = inflight \ {i}
  /\ order' = Append(kept, i)
  /\ blocks' = [j \in ToSet(kept) \union {i} |-> IF j = i THEN at[t].data ELSE blocks[j]]
  /\ clouded' = clouded
  /\ To(t, "next")
  /\ UNCHANGED <<file, buffer, wrote, listing, bounds, faulty>>

(* Read goes on; the next block is fetched while this one is used. *)
ReadAhead(t) ==
  LET i == Blk(at[t].pos) + 1
      r == [Idle EXCEPT !.op = "ahead", !.step = "look", !.pos = i * PerBlock]
      some == at[t].op = "read" /\ Len(at[t].data) = PerBlock
              /\ i \notin DOMAIN blocks \union inflight
  IN
  /\ at[t].step = "next"
  /\ \/ some /\ \E g \in Aheads : at[g] = Idle /\ at' = [at EXCEPT ![t] = Idle, ![g] = r]
     \/ (~some \/ \A g \in Aheads : at[g] # Idle) /\ Becomes(t, Idle)
  /\ UNCHANGED <<file, buffer, wrote, cache, listing, bounds, faulty>>

-----------------------------------------------------------------------------
(* list: the cached listing lives for mountDirTTL. *)
PhoneLists(t) ==
  /\ at[t].step = "list"
  /\ Becomes(t, [at[t] EXCEPT !.step = "listed", !.pos = Len(file)])
  /\ UNCHANGED <<file, buffer, wrote, cache, listing, bounds, faulty>>

StoreListing(t) ==
  /\ at[t].step = "listed"
  /\ dir' = at[t].pos /\ crossed' = (at[t].then = "crossed") /\ unlisted' = unlisted
  /\ Becomes(t, Idle)
  /\ UNCHANGED <<file, buffer, wrote, cache, bounds, faulty>>

ListingExpires ==
  /\ dir # -1 /\ dir' = -1
  /\ UNCHANGED <<file, buffer, wrote, cache, unlisted, crossed, at, bounds, faulty>>

(* A request gets no answer, or an error: the operation ends with it.      *)
RequestFails(t) ==
  /\ at[t].step \in {"sent", "replied", "cut", "shortened", "fetch", "fetched", "list", "listed"}
  /\ faults < MaxFails /\ faults' = faults + 1
  /\ lost' = (lost \/ Changing(at, t))
  /\ inflight' = IF Fetching(t) THEN inflight \ {Blk(at[t].pos)} ELSE inflight
  /\ Goes(t, IF at[t].op = "flush" THEN [at[t] EXCEPT !.step = "forget", !.buf = <<>>] ELSE Idle)
  /\ UNCHANGED <<file, buffer, wrote, blocks, order, clouded, listing, bounds>>

HandleStep(t) ==
  \/ TakeBuffer(t) \/ PhoneWrites(t) \/ SendMore(t) \/ FlushEnds(t)
  \/ Check(t) \/ Decide(t) \/ Put(t) \/ PhoneCuts(t) \/ Truncated(t) \/ Shortened(t)
  \/ Look(t) \/ PhoneReads(t) \/ Store(t) \/ ReadAhead(t)
  \/ PhoneLists(t) \/ StoreListing(t)

FileNext ==
  /\ \/ \E t \in Threads : Begin(t) \/ BeginChange(t)
     \/ \E t \in Callers : HandleStep(t) \/ RequestFails(t)
     \/ ListingExpires
  /\ raced' = \/ raced
              \/ \E t, u \in Threads : t # u /\ Changing(at', t) /\ Changing(at', u)
              \/ wbuf' # <<>> /\ \E t \in Threads : at'[t].op = "shorten"

FileSpec == FileInit /\ [][FileNext]_fileVars

-----------------------------------------------------------------------------
Cutting == \E t \in Threads : at[t].step \in {"cut", "shortened"}

(* Unless a change did not get through, or two were on their way at once,  *)
(* so that the phone may have carried them out in either order: once       *)
(* nothing is gathered or sent, the phone has what the writes and          *)
(* truncations make of the file; what the cache serves is that, too, but   *)
(* for a block whose fetch met a write or that a cut by path has left      *)
(* there; and the file's size is right, but for what was cut by path.      *)
HandleTrue ==
  ~lost /\ ~raced =>
    /\ ~Unsent => file = want
    /\ ~Cutting => \A i \in DOMAIN blocks \ clouded : blocks[i] = BlockOf(want, i)
    /\ ~apart => size = Len(want)
    /\ dir # -1 /\ ~crossed /\ ~unlisted => dir = Len(file)
=============================================================================
