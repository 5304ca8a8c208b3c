-------------------------- MODULE PhoneFileProofs --------------------------
(***************************************************************************)
(* What an open file of a phone keeps to, for any number of threads and    *)
(* read-aheads, any sizes of the file, its blocks and the cache, any       *)
(* number of writes, truncations, reads and listings, and any failures.    *)
(* The reason is what is known of the one change that is on its way        *)
(* (Whole) and of the fetches that none has met (Good).                    *)
(***************************************************************************)
EXTENDS PhoneFile, SequenceTheorems, TLAPS

Ops   == {"none", "read", "flush", "fsync", "list", "write", "truncate", "shorten", "ahead"}
Steps == {"idle", "take", "sent", "replied", "forget", "check", "decide", "put", "cut", "shortened",
          "look", "fetch", "fetched", "next", "list", "listed"}
(* What a caller can be at, and where its flush takes it. *)
StepsOf(op) ==
  CASE op = "none"     -> {"idle"}
    [] op = "read"     -> {"take", "sent", "replied", "look", "fetch", "fetched", "next"}
    [] op = "flush"    -> {"take", "sent", "replied", "forget"}
    [] op = "fsync"    -> {"take", "sent", "replied"}
    [] op = "list"     -> {"list", "listed"}
    [] op = "write"    -> {"check", "decide", "take", "sent", "replied", "put"}
    [] op = "truncate" -> {"take", "sent", "replied", "cut", "shortened"}
    [] op = "shorten"  -> {"cut", "shortened"}
    [] op = "ahead"    -> {"look", "fetch", "fetched", "next"}
ThenOf(op) ==
  CASE op = "read"     -> {"look"}
    [] op = "flush"    -> {"forget"}
    [] op = "list"     -> {"idle", "crossed"}
    [] op = "write"    -> {"idle", "put"}
    [] op = "truncate" -> {"cut"}
    [] OTHER -> {"idle"}

Calling == [op : Ops, step : Steps, then : {"idle", "put", "cut", "look", "forget", "crossed"},
            pos : Nat, data : Seq(0 .. MaxWrites), buf : Seq(1 .. MaxWrites), off : Nat]

(* A caller's record goes together: what it holds, where it is.            *)
Fits(r) ==
  /\ r \in Calling /\ r.step \in StepsOf(r.op) /\ r.then \in ThenOf(r.op)
  /\ r.op = "none" => r = Idle
  /\ r.op = "write" => r.data \in Seq(1 .. MaxWrites) /\ r.data # <<>>
  /\ r.step \in {"sent", "replied"} => r.buf # <<>>

ValuesOK ==
  /\ file \in Seq(0 .. MaxWrites) /\ want \in Seq(0 .. MaxWrites) /\ wbuf \in Seq(1 .. MaxWrites)
  /\ size \in Nat /\ woff \in Nat /\ dir \in Nat \union {-1} /\ writes \in 0 .. MaxWrites
  /\ \A i \in DOMAIN blocks : blocks[i] \in Seq(0 .. MaxWrites)

CallersOK ==
  /\ at \in [Callers -> Calling]
  /\ \A t \in Callers : Fits(at[t])
  /\ \A t \in Threads : at[t].op # "ahead"
  /\ \A g \in Aheads : at[g].op \in {"none", "ahead"}

FTyped == ValuesOK /\ CallersOK

(* The cache is what its order says, and no block is fetched twice at once.*)
FetchesOK ==
  /\ \A t \in Callers : Fetching(t) => Blk(at[t].pos) \in inflight
  /\ \A i \in inflight : \E t \in Callers : Fetching(t) /\ i = Blk(at[t].pos)
  /\ \A t, u \in Callers : Fetching(t) /\ Fetching(u) /\ Blk(at[t].pos) = Blk(at[u].pos) => t = u

CacheOK ==
  /\ order \in Seq(Nat) /\ Len(order) <= CacheBlocks
  /\ ToSet(order) = DOMAIN blocks /\ IsInjective(order)
  /\ DOMAIN blocks \intersect inflight = {}

Changes(t) == at[t].op \in {"write", "truncate", "shorten"}
OneChange == \A t, u \in Threads : Changes(t) /\ Changes(u) => t = u

(* Who writes knows where the buffer ends; a truncation finds it empty.    *)
Joins ==
  \A t \in Threads :
    /\ at[t].op = "truncate" /\ at[t].step # "take" => wbuf = <<>>
    /\ at[t].op = "write" =>
         /\ at[t].step = "decide" /\ at[t].then = "idle" /\ wbuf # <<>> => at[t].pos = woff + Len(wbuf)
         /\ at[t].step = "put" /\ wbuf # <<>> => at[t].pos = woff + Len(wbuf)
         /\ at[t].step \in {"sent", "replied"} /\ at[t].then = "put" => wbuf = <<>>

Over(f, off, buf) == IF buf = <<>> THEN f ELSE Written(f, off, buf)
Sending(t) == at[t].step \in {"sent", "replied"}

(* In whose hands the change is that is on its way; a cut by path goes     *)
(* round the buffer, so nothing may be in it.                              *)
OneSends ==
  /\ \A t, u \in Threads : Changing(at, t) /\ Changing(at, u) => t = u
  /\ \A t \in Threads : at[t].op = "shorten" => wbuf = <<>>

(* What the record of who changes the file says of it. *)
First(b) == IF Len(b) < PerBlock THEN Len(b) ELSE PerBlock
ChangeAt(r, f, w, o, b) ==
  /\ r.step \in {"sent", "replied"} => w = Over(Written(f, r.off, r.buf), o, b)
  /\ r.step = "replied" => f = Written(f, r.off, SubSeq(r.buf, 1, First(r.buf)))
  /\ r.step = "cut" => w = f
  /\ r.step = "shortened" => f = Resized(w, r.pos)

Whole ==
  /\ OneSends /\ (apart \/ size = Len(want))
  /\ (\A t \in Threads : ~Changing(at, t)) => want = Over(file, woff, wbuf)
  /\ \A t \in Threads : ChangeAt(at[t], file, want, woff, wbuf)
Underway == ~lost /\ ~raced => Whole

(* What the cache serves, and what is being fetched for it: nothing was to *)
(* be sent when an unclouded fetch began, and nothing is since.            *)
Clear(t) == Fetching(t) /\ Blk(at[t].pos) \notin clouded
Good ==
  /\ ~Cutting => \A i \in DOMAIN blocks \ clouded : blocks[i] = BlockOf(want, i)
  /\ \A t \in Callers : Clear(t) =>
       /\ wbuf = <<>> /\ \A u \in Threads : ~Sending(u)
       /\ ~Cutting /\ at[t].step = "fetched" => at[t].data = BlockOf(want, Blk(at[t].pos))
Served == ~lost /\ ~raced => Good

ListingOK ==
  /\ dir # -1 /\ ~crossed /\ ~unlisted => dir = Len(file)
  /\ \A t \in Callers : at[t].step = "listed" /\ at[t].then # "crossed" /\ ~unlisted
                          => at[t].pos = Len(file)

FInv == FTyped /\ FetchesOK /\ CacheOK /\ OneChange /\ Joins /\ Underway /\ Served /\ ListingOK

-----------------------------------------------------------------------------
(* The operators on files. *)

Larger(m, n) == IF m > n THEN m ELSE n
Cell(f, off, data, k) ==
  IF k > off /\ k <= off + Len(data) THEN data[k - off]
  ELSE IF k <= Len(f) THEN f[k] ELSE 0

LEMMA MadeSeq ==
  ASSUME NEW S, NEW n \in Nat, NEW g \in [1 .. n -> S]
  PROVE  g \in Seq(S) /\ Len(g) = n
<1>1. g \in Seq(S)
  BY SeqDef
<1> QED
  BY <1>1, LenProperties

LEMMA WrittenCells ==
  ASSUME NEW S, 0 \in S, NEW f \in Seq(S), NEW off \in Nat, NEW data \in Seq(S)
  PROVE  /\ Written(f, off, data) \in Seq(S)
         /\ Len(Written(f, off, data)) = Larger(Len(f), off + Len(data))
         /\ \A k \in 1 .. Len(Written(f, off, data)) :
              Written(f, off, data)[k] = Cell(f, off, data, k)
<1> DEFINE n == Larger(Len(f), off + Len(data))
           w == Written(f, off, data)
<1>1. Len(f) \in Nat /\ Len(data) \in Nat /\ f \in [1 .. Len(f) -> S] /\ data \in [1 .. Len(data) -> S]
  BY LenProperties
<1>2. n \in Nat
  BY <1>1 DEF Larger
<1>3. ASSUME NEW k \in 1 .. n
      PROVE  Cell(f, off, data, k) \in S /\ w[k] = Cell(f, off, data, k)
  <2>1. w[k] = Cell(f, off, data, k)
    BY <1>1 DEF Written, Larger, Cell
  <2>2. CASE k > off /\ k <= off + Len(data)
    <3>1. k - off \in 1 .. Len(data)
      BY <2>2, <1>1, <1>2
    <3> QED BY <2>1, <2>2, <3>1, <1>1 DEF Cell
  <2>3. CASE ~(k > off /\ k <= off + Len(data))
    <3>1. k \in 1 .. Len(f) <=> k <= Len(f)
      BY <1>1, <1>2
    <3> QED BY <2>1, <2>3, <3>1, <1>1 DEF Cell
  <2> QED BY <2>2, <2>3
<1>4. DOMAIN w = 1 .. n /\ w = [k \in 1 .. n |-> w[k]]
  BY DEF Written, Larger
<1>5. w \in [1 .. n -> S]
  BY <1>3, <1>4
<1>6. w \in Seq(S) /\ Len(w) = n
  BY <1>2, <1>5, MadeSeq
<1> HIDE DEF w, n
<1>7. Len(w) = n /\ \A k \in 1 .. Len(w) : w[k] = Cell(f, off, data, k)
  BY <1>3, <1>6
<1> QED
  BY <1>6, <1>7 DEF w, n

LEMMA ResizedCells ==
  ASSUME NEW S, 0 \in S, NEW f \in Seq(S), NEW n \in Nat
  PROVE  Resized(f, n) \in Seq(S) /\ Len(Resized(f, n)) = n
<1>1. Len(f) \in Nat /\ f \in [1 .. Len(f) -> S]
  BY LenProperties
<1>2. Resized(f, n) \in [1 .. n -> S]
  BY <1>1 DEF Resized
<1> QED
  BY <1>2, MadeSeq

(* What is written after another piece is as if both were written at once. *)
LEMMA WrittenJoins ==
  ASSUME NEW S, 0 \in S, NEW f \in Seq(S), NEW off \in Nat, NEW b \in Seq(S), NEW d \in Seq(S)
  PROVE  Written(Written(f, off, b), off + Len(b), d) = Written(f, off, b \o d)
<1> DEFINE w == Written(f, off, b)
           l == Written(w, off + Len(b), d)
           r == Written(f, off, b \o d)
<1>1. Len(f) \in Nat /\ Len(b) \in Nat /\ Len(d) \in Nat
  BY LenProperties
<1>2. /\ b \o d \in Seq(S) /\ Len(b \o d) = Len(b) + Len(d)
      /\ \A i \in 1 .. Len(b) + Len(d) : (b \o d)[i] = IF i <= Len(b) THEN b[i] ELSE d[i - Len(b)]
  BY ConcatProperties
<1>3. /\ w \in Seq(S) /\ Len(w) = Larger(Len(f), off + Len(b))
      /\ \A k \in 1 .. Len(w) : w[k] = Cell(f, off, b, k)
  BY WrittenCells
<1>4. off + Len(b) \in Nat
  BY <1>1
<1> HIDE DEF w
<1>5. /\ l \in Seq(S) /\ Len(l) = Larger(Len(w), off + Len(b) + Len(d))
      /\ \A k \in 1 .. Len(l) : l[k] = Cell(w, off + Len(b), d, k)
  <2>1. PICK n \in Nat : n = off + Len(b)
    BY <1>4
  <2>2. /\ Written(w, n, d) \in Seq(S) /\ Len(Written(w, n, d)) = Larger(Len(w), n + Len(d))
        /\ \A k \in 1 .. Len(Written(w, n, d)) : Written(w, n, d)[k] = Cell(w, n, d, k)
    BY <1>3, WrittenCells
  <2> QED BY <2>1, <2>2
<1>6. /\ r \in Seq(S) /\ Len(r) = Larger(Len(f), off + (Len(b) + Len(d)))
      /\ \A k \in 1 .. Len(r) : r[k] = Cell(f, off, b \o d, k)
  <2>1. /\ r \in Seq(S) /\ Len(r) = Larger(Len(f), off + Len(b \o d))
        /\ \A k \in 1 .. Len(r) : r[k] = Cell(f, off, b \o d, k)
    <3>1. b \o d \in Seq(S)
      BY <1>2
    <3> QED BY <3>1, WrittenCells
  <2> QED BY <2>1, <1>2
<1> HIDE DEF l, r
<1>7. Len(l) = Len(r) /\ Len(l) \in Nat /\ Len(w) \in Nat /\ Len(w) <= Len(l)
  BY <1>1, <1>3, <1>5, <1>6 DEF Larger
<1>8. ASSUME NEW k \in 1 .. Len(l) PROVE l[k] = r[k]
  <2>1. l[k] = Cell(w, off + Len(b), d, k) /\ r[k] = Cell(f, off, b \o d, k)
    BY <1>5, <1>6, <1>7
  <2>2. CASE k > off + Len(b) /\ k <= off + Len(b) + Len(d)
    <3>1. Cell(w, off + Len(b), d, k) = d[k - (off + Len(b))]
      BY <2>2, <1>1, <1>7 DEF Cell
    <3>2. Cell(f, off, b \o d, k) = (b \o d)[k - off]
      BY <2>2, <1>1, <1>2, <1>7 DEF Cell
    <3>3. k - off \in 1 .. Len(b) + Len(d) /\ ~(k - off <= Len(b)) /\ k - off - Len(b) = k - (off + Len(b))
      BY <2>2, <1>1, <1>7
    <3> QED BY <3>1, <3>2, <3>3, <2>1, <1>2
  <2>3. CASE k > off + Len(b) + Len(d)
    <3>1. k <= Len(w) /\ k <= Len(f)
      BY <2>3, <1>1, <1>3, <1>5, <1>7 DEF Larger
    <3>2. Cell(w, off + Len(b), d, k) = w[k] /\ Cell(f, off, b \o d, k) = f[k]
      BY <2>3, <3>1, <1>1, <1>2, <1>7 DEF Cell
    <3>3. w[k] = Cell(f, off, b, k) /\ Cell(f, off, b, k) = f[k]
      BY <2>3, <3>1, <1>1, <1>3, <1>7 DEF Cell
    <3> QED BY <3>2, <3>3, <2>1
  <2>4. CASE k <= off + Len(b)
    <3>1. k \in 1 .. Len(w)
      BY <2>4, <1>1, <1>3, <1>7 DEF Larger
    <3>2. Cell(w, off + Len(b), d, k) = w[k] /\ w[k] = Cell(f, off, b, k)
      BY <2>4, <3>1, <1>1, <1>3, <1>7 DEF Cell
    <3>3. CASE k > off
      <4>1. Cell(f, off, b, k) = b[k - off] /\ Cell(f, off, b \o d, k) = (b \o d)[k - off]
        BY <2>4, <3>3, <1>1, <1>2, <1>7 DEF Cell
      <4>2. k - off \in 1 .. Len(b) + Len(d) /\ k - off <= Len(b)
        BY <2>4, <3>3, <1>1, <1>7
      <4> QED BY <4>1, <4>2, <3>2, <2>1, <1>2
    <3>4. CASE k <= off
      BY <3>4, <3>2, <2>1, <1>1, <1>2, <1>7 DEF Cell
    <3> QED BY <3>3, <3>4, <1>1, <1>7
  <2> QED BY <2>2, <2>3, <2>4, <1>1, <1>7
<1>9. l = r
  BY <1>5, <1>6, <1>7, <1>8, SeqEqual
<1> QED
  BY <1>9 DEF l, r, w

(* The first cells of what is written may be there before. *)
LEMMA WrittenAgain ==
  ASSUME NEW S, 0 \in S, NEW f \in Seq(S), NEW off \in Nat, NEW b \in Seq(S), NEW d \in Seq(S)
  PROVE  Written(Written(f, off, b), off, b \o d) = Written(f, off, b \o d)
<1> DEFINE w == Written(f, off, b)
           l == Written(w, off, b \o d)
           r == Written(f, off, b \o d)
<1>1. Len(f) \in Nat /\ Len(b) \in Nat /\ Len(d) \in Nat
  BY LenProperties
<1>2. b \o d \in Seq(S) /\ Len(b \o d) = Len(b) + Len(d)
  BY ConcatProperties
<1>3. /\ w \in Seq(S) /\ Len(w) = Larger(Len(f), off + Len(b))
      /\ \A k \in 1 .. Len(w) : w[k] = Cell(f, off, b, k)
  BY WrittenCells
<1> HIDE DEF w
<1>5. /\ l \in Seq(S) /\ Len(l) = Larger(Len(w), off + (Len(b) + Len(d)))
      /\ \A k \in 1 .. Len(l) : l[k] = Cell(w, off, b \o d, k)
  <2>1. /\ l \in Seq(S) /\ Len(l) = Larger(Len(w), off + Len(b \o d))
        /\ \A k \in 1 .. Len(l) : l[k] = Cell(w, off, b \o d, k)
    BY <1>2, <1>3, WrittenCells
  <2> QED BY <2>1, <1>2
<1>6. /\ r \in Seq(S) /\ Len(r) = Larger(Len(f), off + (Len(b) + Len(d)))
      /\ \A k \in 1 .. Len(r) : r[k] = Cell(f, off, b \o d, k)
  <2>1. /\ r \in Seq(S) /\ Len(r) = Larger(Len(f), off + Len(b \o d))
        /\ \A k \in 1 .. Len(r) : r[k] = Cell(f, off, b \o d, k)
    BY <1>2, WrittenCells
  <2> QED BY <2>1, <1>2
<1> HIDE DEF l, r
<1>7. Len(l) = Len(r) /\ Len(l) \in Nat /\ Len(w) \in Nat /\ Len(w) <= Len(l)
  BY <1>1, <1>3, <1>5, <1>6 DEF Larger
<1>8. ASSUME NEW k \in 1 .. Len(l) PROVE l[k] = r[k]
  <2>1. l[k] = Cell(w, off, b \o d, k) /\ r[k] = Cell(f, off, b \o d, k)
    BY <1>5, <1>6, <1>7
  <2>2. CASE k > off /\ k <= off + (Len(b) + Len(d))
    BY <2>2, <2>1, <1>1, <1>2, <1>7 DEF Cell
  <2>3. CASE k > off + (Len(b) + Len(d))
    <3>1. k <= Len(w) /\ k <= Len(f)
      BY <2>3, <1>1, <1>3, <1>5, <1>7 DEF Larger
    <3>2. Cell(w, off, b \o d, k) = w[k] /\ Cell(f, off, b \o d, k) = f[k]
      BY <2>3, <3>1, <1>1, <1>2, <1>7 DEF Cell
    <3>3. w[k] = Cell(f, off, b, k) /\ Cell(f, off, b, k) = f[k]
      BY <2>3, <3>1, <1>1, <1>3, <1>7 DEF Cell
    <3> QED BY <3>2, <3>3, <2>1
  <2>4. CASE k <= off
    <3>1. k \in 1 .. Len(w)
      BY <2>4, <1>1, <1>3, <1>7 DEF Larger
    <3>2. Cell(w, off, b \o d, k) = w[k] /\ w[k] = Cell(f, off, b, k)
      BY <2>4, <3>1, <1>1, <1>2, <1>3, <1>7 DEF Cell
    <3>3. Cell(f, off, b, k) = Cell(f, off, b \o d, k)
      BY <2>4, <1>1, <1>2, <1>7 DEF Cell
    <3> QED BY <3>2, <3>3, <2>1
  <2> QED BY <2>2, <2>3, <2>4, <1>1, <1>7
<1>9. l = r
  BY <1>5, <1>6, <1>7, <1>8, SeqEqual
<1> QED
  BY <1>9 DEF l, r, w
LEMMA BlockIsSeq ==
  ASSUME NEW S, NEW f \in Seq(S), NEW i \in Nat
  PROVE  BlockOf(f, i) \in Seq(S)
<1> DEFINE m == i * PerBlock + 1
           n == IF (i + 1) * PerBlock < Len(f) THEN (i + 1) * PerBlock ELSE Len(f)
<1>1. PerBlock \in Nat /\ Len(f) \in Nat /\ f \in [1 .. Len(f) -> S]
  BY FileAssumption, LenProperties
<1>2. i * PerBlock \in Nat /\ (i + 1) * PerBlock \in Nat
  BY <1>1
<1>3. m \in Int /\ n \in Int /\ m >= 1 /\ n <= Len(f)
  BY <1>1, <1>2
<1>4. ASSUME NEW k \in m .. n PROVE f[k] \in S
  <2>1. k \in 1 .. Len(f)
    BY <1>1, <1>3
  <2> QED BY <2>1, <1>1
<1> HIDE DEF m, n
<1>5. SubSeq(f, m, n) \in Seq(S)
  BY <1>3, <1>4, SubSeqProperties
<1> QED
  BY <1>5 DEF BlockOf, m, n

(* The piece that is sent, and what is left. *)
LEMMA Pieces ==
  ASSUME NEW S, NEW b \in Seq(S), b # <<>>
  PROVE  LET p == SubSeq(b, 1, First(b))
             r == SubSeq(b, First(b) + 1, Len(b))
         IN  p \in Seq(S) /\ r \in Seq(S) /\ p \o r = b /\ Len(p) \in Nat /\ Len(p) = First(b)
<1>1. Len(b) \in Nat \ {0} /\ b \in [1 .. Len(b) -> S] /\ PerBlock \in Nat \ {0}
  BY FileAssumption, LenProperties, EmptySeq
<1>2. First(b) \in 1 .. Len(b)
  BY <1>1 DEF First
<1>3. ASSUME NEW m \in 1 .. Len(b) + 1, NEW n \in 0 .. Len(b), NEW i \in m .. n PROVE b[i] \in S
  BY <1>1
<1>4. SubSeq(b, 1, First(b)) \in Seq(S) /\ Len(SubSeq(b, 1, First(b))) = First(b)
  <2>1. First(b) \in Int /\ \A i \in 1 .. First(b) : b[i] \in S /\ 1 <= First(b)
    BY <1>1, <1>2
  <2>2. Len(SubSeq(b, 1, First(b))) = IF 1 <= First(b) THEN First(b) - 1 + 1 ELSE 0
    BY <2>1, SubSeqProperties
  <2> QED BY <2>1, <2>2, <1>2, SubSeqProperties
<1>5. SubSeq(b, First(b) + 1, Len(b)) \in Seq(S)
  <2>1. First(b) + 1 \in Int /\ Len(b) \in Int /\ \A i \in First(b) + 1 .. Len(b) : b[i] \in S
    BY <1>1, <1>2
  <2> QED BY <2>1, SubSeqProperties
<1>6. SubSeq(b, 1, First(b)) \o SubSeq(b, First(b) + 1, Len(b)) = SubSeq(b, 1, Len(b))
  <2>1. 1 \in 1 .. Len(b) + 1 /\ First(b) \in 1 - 1 .. Len(b) /\ Len(b) \in First(b) .. Len(b)
    BY <1>1, <1>2
  <2> QED BY <2>1, ConcatAdjacentSubSeq
<1>7. SubSeq(b, 1, Len(b)) = b
  BY SubSeqFull
<1>8. First(b) \in Nat
  BY <1>1, <1>2
<1> QED
  BY <1>4, <1>5, <1>6, <1>7, <1>8

-----------------------------------------------------------------------------
(* Callers.  All but two steps change the record of one caller only.       *)

AsOp(t, r) == /\ t \in Threads => r.op # "ahead"
              /\ t \in Aheads => r.op \in {"none", "ahead"}

LEMMA CallerKnown ==
  ASSUME FTyped, NEW t \in Callers
  PROVE  /\ Fits(at[t]) /\ AsOp(t, at[t]) /\ at[t] \in Calling
         /\ at[t].pos \in Nat /\ at[t].off \in Nat /\ at[t].data \in Seq(0 .. MaxWrites)
         /\ at[t].buf \in Seq(1 .. MaxWrites)
  BY DEF FTyped, CallersOK, Fits, Calling, AsOp

LEMMA OneMoves ==
  ASSUME FTyped, NEW t \in Callers, NEW r, Becomes(t, r)
  PROVE  /\ at'[t] = r /\ \A u \in Callers : u # t => at'[u] = at[u]
         /\ Fits(r) /\ AsOp(t, r) => CallersOK'
<1>1. at'[t] = r /\ \A u \in Callers : u # t => at'[u] = at[u]
  BY DEF FTyped, CallersOK, Becomes
<1>2. ASSUME Fits(r), AsOp(t, r) PROVE CallersOK'
  <2>1. at' \in [Callers -> Calling]
    BY <1>2 DEF FTyped, CallersOK, Becomes, Fits
  <2>2. \A u \in Callers : Fits(at'[u]) /\ AsOp(u, at'[u])
    <3> SUFFICES ASSUME NEW u \in Callers PROVE Fits(at'[u]) /\ AsOp(u, at'[u])
      OBVIOUS
    <3>1. CASE u = t BY <3>1, <1>1, <1>2
    <3>2. CASE u # t BY <3>2, <1>1, CallerKnown
    <3> QED BY <3>1, <3>2
  <2> QED
    BY <2>1, <2>2 DEF CallersOK, AsOp, Callers, Fits
<1> QED
  BY <1>1, <1>2

LEMMA IdleFits == Fits(Idle) /\ Idle.step = "idle" /\ Idle.op = "none"
  BY EmptySeq DEF Fits, Idle, Calling, Ops, Steps, StepsOf, ThenOf

(* A step that only goes on to another place. *)
Walks(h, s, r) == r = [h EXCEPT !.step = s]

LEMMA GoesOn ==
  ASSUME NEW h, Fits(h), NEW s, s \in StepsOf(h.op), h.op # "none",
         s \in {"sent", "replied"} => h.buf # <<>>, NEW r, Walks(h, s, r)
  PROVE  /\ Fits(r) /\ r.step = s /\ r.op = h.op /\ r.then = h.then
         /\ r.pos = h.pos /\ r.data = h.data /\ r.buf = h.buf /\ r.off = h.off
<1>1. h \in Calling /\ h.op \in Ops /\ s \in Steps
  BY DEF Fits, Calling, StepsOf, Ops, Steps
<1>2. r \in Calling
  BY <1>1 DEF Calling, Walks
<1> QED
  BY <1>1, <1>2 DEF Fits, Calling, Walks

Flusher(h) == h.op \in {"read", "flush", "write", "truncate", "fsync"}

LEMMA ThenIsStep ==
  ASSUME NEW h, Fits(h), Flusher(h)
  PROVE  \/ h.then = "idle"
         \/ /\ h.then \in StepsOf(h.op) /\ h.then \in Steps /\ h.op # "fsync"
            /\ h.then \notin {"idle", "take", "sent", "replied"}
<1>1. h.then \in ThenOf(h.op)
  BY DEF Fits
<1>2. CASE h.op = "read" BY <1>1, <1>2 DEF ThenOf, StepsOf, Steps
<1>3. CASE h.op = "flush" BY <1>1, <1>3 DEF ThenOf, StepsOf, Steps
<1>4. CASE h.op = "write" BY <1>1, <1>4 DEF ThenOf, StepsOf, Steps
<1>5. CASE h.op = "truncate" BY <1>1, <1>5 DEF ThenOf, StepsOf, Steps
<1>6. CASE h.op = "fsync" BY <1>1, <1>6 DEF ThenOf
<1> QED
  BY <1>2, <1>3, <1>4, <1>5, <1>6 DEF Flusher

LEMMA ByStep ==
  ASSUME FTyped, NEW t \in Callers
  PROVE  /\ at[t].step \in {"take", "sent", "replied"} =>
              t \in Threads /\ Flusher(at[t])
         /\ at[t].step \in {"check", "decide", "put"} => t \in Threads /\ at[t].op = "write"
         /\ at[t].step \in {"cut", "shortened"} => t \in Threads /\ at[t].op \in {"truncate", "shorten"}
         /\ at[t].step \in {"look", "fetch", "fetched", "next"} => at[t].op \in {"read", "ahead"}
         /\ at[t].step \in {"list", "listed"} => at[t].op = "list"
         /\ at[t].step = "forget" => at[t].op = "flush"
         /\ at[t].step = "idle" <=> at[t] = Idle
<1>1. Fits(at[t]) /\ AsOp(t, at[t]) /\ at[t].op \in Ops
  BY CallerKnown DEF Calling
<1> QED
  BY <1>1, IdleFits DEF Fits, AsOp, StepsOf, Ops, Callers, Flusher

(* Where a flush ends: what asked for it goes on. *)
Same(h, r) == r.op = h.op /\ r.then = h.then /\ r.pos = h.pos /\ r.data = h.data
Flushed(h, r) ==
  \/ h.then = "idle" /\ r = Idle
  \/ /\ h.then # "idle" /\ Fits(r) /\ Same(h, r) /\ r.step = h.then
     /\ h.op # "fsync"

Ends(h, b, r) == r = IF h.then = "idle" THEN Idle ELSE [h EXCEPT !.step = h.then, !.buf = b, !.off = 0]
Sends(h, b, o, r) == r = [h EXCEPT !.step = "sent", !.buf = b, !.off = o]

LEMMA FlushDone ==
  ASSUME NEW h, Fits(h), Flusher(h), NEW b, b = <<>>, NEW r, Ends(h, b, r)
  PROVE  Fits(r) /\ Flushed(h, r) /\ r.step \notin {"take", "sent", "replied"}
         /\ (r.op = h.op \/ r.op = "none")
<1>1. CASE h.then = "idle"
  BY <1>1, IdleFits DEF Flushed, Ends
<1>2. CASE h.then # "idle"
  <2>1. h \in Calling /\ h.op # "none" /\ h.then \in StepsOf(h.op) /\ h.then \in Steps /\ h.op # "fsync"
        /\ h.then \notin {"take", "sent", "replied"}
    <3>1. h \in Calling /\ h.op # "none"
      BY DEF Fits, Flusher
    <3> QED BY <3>1, <1>2, ThenIsStep
  <2>2. r = [h EXCEPT !.step = h.then, !.buf = b, !.off = 0]
    BY <1>2 DEF Ends
  <2>3. b \in Seq(1 .. MaxWrites)
    BY EmptySeq
  <2>4. r \in Calling
    BY <2>1, <2>2, <2>3 DEF Calling
  <2>5. r.step = h.then /\ Same(h, r)
    BY <2>1, <2>2 DEF Calling, Same
  <2>6. Fits(r)
    BY <2>1, <2>4, <2>5 DEF Fits, Same
  <2> QED
    BY <1>2, <2>1, <2>5, <2>6 DEF Flushed, Same
<1> QED
  BY <1>1, <1>2

LEMMA SendsOn ==
  ASSUME NEW h, Fits(h), Flusher(h),
         NEW b \in Seq(1 .. MaxWrites), b # <<>>, NEW o \in Nat, NEW r, Sends(h, b, o, r)
  PROVE  Fits(r) /\ r.step = "sent" /\ r.buf = b /\ r.off = o /\ Same(h, r)
<1>1. h \in Calling /\ "sent" \in Steps
  BY DEF Fits, Steps
<1>2. r \in Calling
  BY <1>1 DEF Calling, Sends
<1>3. r.step = "sent" /\ r.buf = b /\ r.off = o /\ Same(h, r)
  BY <1>1 DEF Calling, Same, Sends
<1> QED
  BY <1>2, <1>3 DEF Fits, StepsOf, Same, Flusher

LEMMA TakeMoves ==
  ASSUME FTyped, NEW t \in Callers, TakeBuffer(t)
  PROVE  /\ CallersOK' /\ \A u \in Callers : u # t => at'[u] = at[u]
         /\ t \in Threads /\ at[t].step = "take" /\ Fits(at'[t])
         /\ wbuf = <<>> => Flushed(at[t], at'[t]) /\ at'[t].step \notin {"take", "sent", "replied"}
         /\ wbuf # <<>> => /\ Same(at[t], at'[t]) /\ at'[t].step = "sent"
                           /\ at'[t].buf = wbuf /\ at'[t].off = woff
<1>1. at[t].step = "take" /\ t \in Threads /\ Flusher(at[t]) /\ Fits(at[t]) /\ at[t] \in Calling /\ AsOp(t, at[t])
  BY ByStep, CallerKnown DEF TakeBuffer
<1>2. CASE wbuf = <<>>
  <2>1. PICK r : Ends(at[t], wbuf, r)
    BY DEF Ends
  <2>2. [at[t] EXCEPT !.step = at[t].then, !.buf = wbuf, !.off = 0].step = at[t].then
    BY <1>1 DEF Calling
  <2>3. Becomes(t, r)
    BY <1>2, <2>1, <2>2 DEF TakeBuffer, Goes, Ends
  <2>4. Fits(r) /\ Flushed(at[t], r) /\ r.step \notin {"take", "sent", "replied"}
        /\ (r.op = at[t].op \/ r.op = "none")
    BY <1>1, <1>2, <2>1, FlushDone
  <2>5. AsOp(t, r)
    BY <2>4, <1>1, FileAssumption DEF AsOp
  <2> QED
    BY <1>1, <1>2, <2>3, <2>4, <2>5, OneMoves
<1>3. CASE wbuf # <<>>
  <2>1. PICK r : Sends(at[t], wbuf, woff, r)
    BY DEF Sends
  <2>2. wbuf \in Seq(1 .. MaxWrites) /\ woff \in Nat
    BY DEF FTyped, ValuesOK
  <2>3. r.step = "sent" /\ r.buf = wbuf /\ r.off = woff /\ Same(at[t], r) /\ Fits(r)
    <3>1. PICK b \in Seq(1 .. MaxWrites), o \in Nat : b = wbuf /\ o = woff
      BY <2>2
    <3>2. PICK h : h = at[t]
      OBVIOUS
    <3>3. Fits(h) /\ Flusher(h) /\ b # <<>> /\ Sends(h, b, o, r)
      BY <1>1, <1>3, <2>1, <3>1, <3>2
    <3>4. r.step = "sent" /\ r.buf = b /\ r.off = o /\ Same(h, r) /\ Fits(r)
      BY <3>3, SendsOn
    <3> QED
      BY <3>1, <3>2, <3>4
  <2>4. Becomes(t, r)
    BY <1>3, <2>1, <2>3 DEF TakeBuffer, Goes, Sends
  <2>5. AsOp(t, r)
    BY <1>1, <2>3 DEF AsOp, Same
  <2> QED
    BY <1>1, <1>3, <2>3, <2>4, <2>5, OneMoves
<1> QED
  BY <1>2, <1>3

(* The other steps of a flush. *)
LEMMA SendMoves ==
  ASSUME FTyped, NEW t \in Callers, PhoneWrites(t)
  PROVE  /\ CallersOK' /\ \A u \in Callers : u # t => at'[u] = at[u]
         /\ t \in Threads /\ at[t].step = "sent" /\ at'[t].step = "replied" /\ Same(at[t], at'[t])
         /\ at'[t].buf = at[t].buf /\ at'[t].off = at[t].off /\ at[t].buf # <<>>
<1>1. at[t].step = "sent" /\ Becomes(t, [at[t] EXCEPT !.step = "replied"])
  BY DEF PhoneWrites, To
<1>2. t \in Threads /\ Flusher(at[t]) /\ Fits(at[t])
      /\ AsOp(t, at[t]) /\ at[t].buf # <<>>
  BY <1>1, ByStep, CallerKnown DEF Fits
<1>3. PICK h : h = at[t]
  OBVIOUS
<1>4. PICK r : Walks(h, "replied", r)
  BY DEF Walks
<1>5. /\ Fits(r) /\ r.step = "replied" /\ r.op = h.op /\ r.then = h.then
      /\ r.pos = h.pos /\ r.data = h.data /\ r.buf = h.buf /\ r.off = h.off
  <2>1. Fits(h) /\ "replied" \in StepsOf(h.op) /\ h.op # "none" /\ h.buf # <<>>
    BY <1>2, <1>3 DEF StepsOf, Flusher
  <2> QED BY <1>4, <2>1, GoesOn
<1>6. AsOp(t, r)
  BY <1>2, <1>3, <1>5 DEF AsOp
<1>7. Becomes(t, r)
  BY <1>1, <1>3, <1>4 DEF Walks
<1> QED
  BY <1>1, <1>2, <1>3, <1>5, <1>6, <1>7, OneMoves DEF Same

LEMMA SentMoves ==
  ASSUME FTyped, NEW t \in Callers, SendMore(t)
  PROVE  LET rest == SubSeq(at[t].buf, First(at[t].buf) + 1, Len(at[t].buf)) IN
         /\ CallersOK' /\ \A u \in Callers : u # t => at'[u] = at[u]
         /\ t \in Threads /\ at[t].step = "replied" /\ at[t].buf # <<>> /\ Fits(at'[t])
         /\ Piece(t) = SubSeq(at[t].buf, 1, First(at[t].buf))
         /\ rest = <<>> => Flushed(at[t], at'[t]) /\ at'[t].step \notin {"take", "sent", "replied"}
         /\ rest # <<>> => /\ Same(at[t], at'[t]) /\ at'[t].step = "sent"
                           /\ at'[t].buf = rest /\ at'[t].off = at[t].off + Len(Piece(t))
<1>1. at[t].step = "replied" /\ t \in Threads /\ Flusher(at[t]) /\ Fits(at[t]) /\ at[t] \in Calling /\ AsOp(t, at[t])
  BY ByStep, CallerKnown DEF SendMore
<1>2. at[t].buf \in Seq(1 .. MaxWrites) /\ at[t].buf # <<>> /\ at[t].off \in Nat
  BY <1>1 DEF Fits, Calling
<1>3. Piece(t) = SubSeq(at[t].buf, 1, First(at[t].buf))
  BY DEF Piece, First
<1>4. PICK rest : rest = SubSeq(at[t].buf, First(at[t].buf) + 1, Len(at[t].buf))
  OBVIOUS
<1>5. Len(Piece(t)) = First(at[t].buf) /\ rest \in Seq(1 .. MaxWrites) /\ at[t].off + Len(Piece(t)) \in Nat
  <2>1. Len(Piece(t)) = First(at[t].buf) /\ rest \in Seq(1 .. MaxWrites) /\ Len(Piece(t)) \in Nat
    BY <1>2, <1>3, <1>4, Pieces
  <2> QED BY <2>1, <1>2
<1>6. Goes(t, [at[t] EXCEPT !.step = IF rest = <<>> THEN at[t].then ELSE "sent", !.buf = rest,
                            !.off = IF rest = <<>> THEN 0 ELSE at[t].off + Len(Piece(t))])
  <2>1. SubSeq(at[t].buf, Len(Piece(t)) + 1, Len(at[t].buf)) = rest
    BY <1>4, <1>5
  <2> QED
    BY <2>1, <1>1 DEF SendMore, Calling
<1>7. CASE rest = <<>>
  <2>1. PICK r : Ends(at[t], rest, r)
    BY DEF Ends
  <2>2. [at[t] EXCEPT !.step = at[t].then, !.buf = rest, !.off = 0].step = at[t].then
    BY <1>1 DEF Calling
  <2>3. Becomes(t, r)
    BY <1>6, <1>7, <2>1, <2>2 DEF Goes, Ends
  <2>4. Fits(r) /\ Flushed(at[t], r) /\ r.step \notin {"take", "sent", "replied"}
        /\ (r.op = at[t].op \/ r.op = "none")
    BY <1>1, <1>7, <2>1, FlushDone
  <2>5. AsOp(t, r)
    BY <2>4, <1>1, FileAssumption DEF AsOp
  <2> QED
    BY <1>1, <1>2, <1>3, <1>4, <1>7, <2>3, <2>4, <2>5, OneMoves
<1>8. CASE rest # <<>>
  <2>1. PICK r : Sends(at[t], rest, at[t].off + Len(Piece(t)), r)
    BY DEF Sends
  <2>2. r.step = "sent" /\ r.buf = rest /\ r.off = at[t].off + Len(Piece(t)) /\ Same(at[t], r) /\ Fits(r)
    <3>0. PICK h : h = at[t]
      OBVIOUS
    <3>1. PICK b \in Seq(1 .. MaxWrites), o \in Nat : b = rest /\ o = at[t].off + Len(Piece(t))
      BY <1>5
    <3>2. Fits(h) /\ Flusher(h) /\ b # <<>> /\ Sends(h, b, o, r)
      BY <1>1, <1>8, <2>1, <3>0, <3>1
    <3>3. r.step = "sent" /\ r.buf = b /\ r.off = o /\ Same(h, r) /\ Fits(r)
      BY <3>2, SendsOn
    <3> QED
      BY <3>0, <3>1, <3>3
  <2>3. Becomes(t, r)
    BY <1>6, <1>8, <2>1, <2>2 DEF Goes, Sends
  <2>4. AsOp(t, r)
    BY <1>1, <2>2 DEF AsOp, Same
  <2> QED
    BY <1>1, <1>2, <1>3, <1>4, <1>8, <2>2, <2>3, <2>4, OneMoves
<1> QED
  BY <1>7, <1>8

LEMMA FitsToo ==
  ASSUME NEW h, Fits(h), h.op # "none", NEW r \in Calling, r.op = h.op, r.step \in StepsOf(h.op),
         r.then \in ThenOf(h.op), h.op = "write" => r.data = h.data, r.step \notin {"sent", "replied"}
  PROVE  Fits(r)
  BY DEF Fits

(* Write. *)
LEMMA CheckMoves ==
  ASSUME FTyped, NEW t \in Callers, Check(t)
  PROVE  /\ CallersOK' /\ \A u \in Callers : u # t => at'[u] = at[u]
         /\ t \in Threads /\ at[t].op = "write" /\ at'[t].op = "write" /\ at'[t].step = "decide"
         /\ at'[t].pos = at[t].pos /\ at'[t].data = at[t].data
         /\ at'[t].then = "idle" => wbuf # <<>> /\ at[t].pos = woff + Len(wbuf)
<1>1. at[t].step = "check" /\ t \in Threads /\ at[t].op = "write" /\ Fits(at[t]) /\ at[t] \in Calling
      /\ AsOp(t, at[t])
  BY ByStep, CallerKnown DEF Check
<1>2. PICK th \in {"idle", "put"} : /\ th = IF wbuf # <<>> /\ at[t].pos = woff + Len(wbuf) THEN "idle" ELSE "put"
                                    /\ Becomes(t, [at[t] EXCEPT !.step = "decide", !.then = th])
  BY DEF Check
<1>3. PICK r : r = [at[t] EXCEPT !.step = "decide", !.then = th]
  OBVIOUS
<1>4. r \in Calling /\ r.op = at[t].op /\ r.step = "decide" /\ r.then = th /\ r.pos = at[t].pos
      /\ r.data = at[t].data
  BY <1>1, <1>3 DEF Calling, Steps
<1>5. Fits(r)
  BY <1>1, <1>4, FitsToo DEF StepsOf, ThenOf
<1>6. AsOp(t, r)
  BY <1>1, <1>4 DEF AsOp
<1> QED
  BY <1>1, <1>2, <1>3, <1>4, <1>5, <1>6, OneMoves

LEMMA DecideMoves ==
  ASSUME FTyped, NEW t \in Callers, Decide(t)
  PROVE  /\ CallersOK' /\ \A u \in Callers : u # t => at'[u] = at[u]
         /\ t \in Threads /\ at[t].op = "write" /\ at[t].step = "decide" /\ Same(at[t], at'[t])
         /\ at'[t].step = IF wbuf # <<>> /\ at[t].then = "put" THEN "take" ELSE "put"
<1>1. at[t].step = "decide" /\ t \in Threads /\ at[t].op = "write" /\ Fits(at[t])
      /\ AsOp(t, at[t])
  BY ByStep, CallerKnown DEF Decide
<1>2. PICK s \in {"take", "put"} : /\ s = IF wbuf # <<>> /\ at[t].then = "put" THEN "take" ELSE "put"
                                   /\ Becomes(t, [at[t] EXCEPT !.step = s])
  BY DEF Decide, To
<1>3. s \in StepsOf(at[t].op) /\ at[t].op # "none" /\ s \notin {"sent", "replied"}
  BY <1>1 DEF StepsOf
<1>4. PICK r : r = [at[t] EXCEPT !.step = s]
  OBVIOUS
<1>5. /\ Fits(r) /\ r.step = s /\ r.op = at[t].op /\ r.then = at[t].then
      /\ r.pos = at[t].pos /\ r.data = at[t].data
  <2>1. PICK h : h = at[t]
    OBVIOUS
  <2>2. Fits(h) /\ s \in StepsOf(h.op) /\ h.op # "none" /\ s \notin {"sent", "replied"}
        /\ Walks(h, s, r)
    BY <1>1, <1>3, <1>4, <2>1 DEF Walks
  <2>3. /\ Fits(r) /\ r.step = s /\ r.op = h.op /\ r.then = h.then
        /\ r.pos = h.pos /\ r.data = h.data
    BY <2>2, GoesOn
  <2> QED
    BY <2>1, <2>3
<1>6. AsOp(t, r)
  BY <1>1, <1>5 DEF AsOp
<1> QED
  BY <1>1, <1>2, <1>4, <1>5, <1>6, OneMoves DEF Same

LEMMA PutMoves ==
  ASSUME FTyped, NEW t \in Callers, Put(t)
  PROVE  /\ CallersOK' /\ \A u \in Callers : u # t => at'[u] = at[u]
         /\ t \in Threads /\ at[t].op = "write" /\ at[t].step = "put" /\ at[t].pos \in Nat
         /\ at[t].data \in Seq(1 .. MaxWrites) /\ at[t].data # <<>>
         /\ \/ at'[t] = Idle
            \/ at'[t].step = "take" /\ at'[t].op = "write" /\ at'[t].then = "idle"
<1>1. at[t].step = "put" /\ t \in Threads /\ at[t].op = "write" /\ Fits(at[t]) /\ at[t] \in Calling
      /\ AsOp(t, at[t]) /\ at[t].pos \in Nat
  BY ByStep, CallerKnown DEF Put
<1>2. PICK r : r = [at[t] EXCEPT !.step = "take", !.then = "idle"]
  OBVIOUS
<1>3. r \in Calling /\ r.op = at[t].op /\ r.step = "take" /\ r.then = "idle" /\ r.data = at[t].data
  BY <1>1, <1>2 DEF Calling, Steps
<1>4. Fits(r)
  BY <1>1, <1>3, FitsToo DEF StepsOf, ThenOf
<1>5. AsOp(t, r) /\ AsOp(t, Idle)
  BY <1>1, <1>3, IdleFits, FileAssumption DEF AsOp
<1>6. Becomes(t, r) \/ Becomes(t, Idle)
  BY <1>2, <1>3, IdleFits DEF Put, Goes
<1>7. at[t].data \in Seq(1 .. MaxWrites) /\ at[t].data # <<>>
  BY <1>1 DEF Fits
<1>8. CASE Becomes(t, r)
  BY <1>1, <1>3, <1>4, <1>5, <1>7, <1>8, OneMoves
<1>9. CASE Becomes(t, Idle)
  <2>1. CallersOK' /\ at'[t] = Idle /\ \A u \in Callers : u # t => at'[u] = at[u]
    BY <1>5, <1>9, IdleFits, OneMoves
  <2> QED
    BY <1>1, <1>7, <2>1
<1> QED
  BY <1>6, <1>8, <1>9

(* Truncations. *)
LEMMA CutMoves ==
  ASSUME FTyped, NEW t \in Callers, PhoneCuts(t)
  PROVE  /\ CallersOK' /\ \A u \in Callers : u # t => at'[u] = at[u]
         /\ t \in Threads /\ at[t].op \in {"truncate", "shorten"} /\ at[t].step = "cut"
         /\ Same(at[t], at'[t])
         /\ at'[t].step = "shortened" /\ at[t].pos \in Nat
<1>1. at[t].step = "cut" /\ t \in Threads /\ at[t].op \in {"truncate", "shorten"} /\ Fits(at[t])
      /\ AsOp(t, at[t]) /\ at[t].pos \in Nat /\ Becomes(t, [at[t] EXCEPT !.step = "shortened"])
  BY ByStep, CallerKnown DEF PhoneCuts, To
<1>2. PICK h : h = at[t]
  OBVIOUS
<1>3. PICK r : Walks(h, "shortened", r)
  BY DEF Walks
<1>4. /\ Fits(r) /\ r.step = "shortened" /\ r.op = h.op /\ r.then = h.then
      /\ r.pos = h.pos /\ r.data = h.data
  <2>1. Fits(h) /\ "shortened" \in StepsOf(h.op) /\ h.op # "none" /\ "shortened" \notin {"sent", "replied"}
    BY <1>1, <1>2 DEF StepsOf
  <2> QED BY <1>3, <2>1, GoesOn
<1>5. AsOp(t, r)
  BY <1>1, <1>2, <1>4 DEF AsOp
<1>6. Becomes(t, r)
  BY <1>1, <1>2, <1>3 DEF Walks
<1> QED
  BY <1>1, <1>2, <1>4, <1>5, <1>6, OneMoves DEF Same

(* Listings under way are marked when the cached one goes. *)
LEMMA CrossingMoves ==
  ASSUME FTyped, NEW t \in Callers, at' = Crossing(t)
  PROVE  /\ CallersOK' /\ at'[t] = Idle
         /\ \A u \in Callers : u # t =>
              \/ at[u].step # "listed" /\ at'[u] = at[u]
              \/ /\ at[u].step = "listed" /\ at'[u].step = "listed" /\ at'[u].then = "crossed"
                 /\ at[u].op = "list" /\ at'[u].op = "list" /\ at'[u].pos = at[u].pos
<1>1. at'[t] = Idle
  BY DEF Crossing
<1>2. ASSUME NEW u \in Callers, u # t, at[u].step # "listed"
      PROVE  at'[u] = at[u]
  BY <1>2 DEF Crossing
<1>3. ASSUME NEW u \in Callers, u # t, at[u].step = "listed"
      PROVE  /\ at'[u].step = "listed" /\ at'[u].then = "crossed" /\ at[u].op = "list" /\ at'[u].op = "list"
             /\ at'[u].pos = at[u].pos /\ Fits(at'[u]) /\ AsOp(u, at'[u])
  <2>1. at[u].op = "list" /\ Fits(at[u]) /\ at[u] \in Calling /\ AsOp(u, at[u])
    BY <1>3, ByStep, CallerKnown
  <2>2. PICK r : r = [at[u] EXCEPT !.then = "crossed"]
    OBVIOUS
  <2>3. at'[u] = r
    BY <1>3, <2>2 DEF Crossing
  <2>4. r \in Calling /\ r.op = "list" /\ r.step = "listed" /\ r.then = "crossed" /\ r.pos = at[u].pos
    BY <1>3, <2>1, <2>2 DEF Calling
  <2>5. Fits(r) /\ AsOp(u, r)
    BY <2>1, <2>4 DEF Fits, StepsOf, ThenOf, AsOp
  <2> QED
    BY <2>1, <2>3, <2>4, <2>5
<1>4. \A u \in Callers : Fits(at'[u]) /\ AsOp(u, at'[u])
  <2> SUFFICES ASSUME NEW u \in Callers PROVE Fits(at'[u]) /\ AsOp(u, at'[u])
    OBVIOUS
  <2>1. CASE u = t
    BY <2>1, <1>1, IdleFits DEF AsOp
  <2>2. CASE u # t
    BY <2>2, <1>2, <1>3, CallerKnown
  <2> QED BY <2>1, <2>2
<1>5. at' \in [Callers -> Calling]
  <2>1. \A u \in Callers : at'[u] \in Calling
    BY <1>4 DEF Fits
  <2> QED
    BY <2>1 DEF Crossing
<1>6. CallersOK'
  BY <1>4, <1>5 DEF CallersOK, AsOp, Callers
<1> QED
  BY <1>1, <1>2, <1>3, <1>6

LEMMA StopMoves ==
  ASSUME FTyped, NEW t \in Callers, Becomes(t, Idle)
  PROVE  CallersOK' /\ at'[t] = Idle /\ \A u \in Callers : u # t => at'[u] = at[u]
<1>1. Fits(Idle) /\ AsOp(t, Idle)
  BY IdleFits DEF AsOp
<1> QED
  BY <1>1, OneMoves

LEMMA EndMoves ==
  ASSUME FTyped, NEW t \in Callers, FlushEnds(t)
  PROVE  /\ CallersOK' /\ at'[t] = Idle /\ t \in Threads /\ at[t].step = "forget" /\ at[t].op = "flush"
         /\ \/ ~wrote /\ UNCHANGED listing /\ \A u \in Callers : u # t => at'[u] = at[u]
            \/ wrote /\ Forget /\ at' = Crossing(t)
<1>1. at[t].step = "forget" /\ at[t].op = "flush" /\ t \in Threads
  <2>1. at[t].step = "forget" /\ at[t].op = "flush"
    BY ByStep DEF FlushEnds
  <2> QED BY <2>1, CallerKnown DEF AsOp, Callers
<1>2. CASE wrote
  BY <1>1, <1>2, CrossingMoves DEF FlushEnds
<1>3. CASE ~wrote
  <2>1. Becomes(t, Idle) /\ UNCHANGED listing
    BY <1>3 DEF FlushEnds
  <2> QED BY <1>1, <1>3, <2>1, StopMoves
<1> QED
  BY <1>2, <1>3

(* Reads. *)
LEMMA BlkNat ==
  ASSUME NEW n \in Nat PROVE Blk(n) \in Nat
  BY FileAssumption DEF Blk

LEMMA ReadMoves ==
  ASSUME FTyped, NEW t \in Callers, at[t].op \in {"read", "ahead"},
         NEW s \in {"look", "fetch", "fetched", "next"}, NEW d \in Seq(0 .. MaxWrites),
         NEW r, r = [at[t] EXCEPT !.step = s, !.data = d], Becomes(t, r)
  PROVE  /\ CallersOK' /\ \A u \in Callers : u # t => at'[u] = at[u]
         /\ at'[t].op = at[t].op /\ at'[t].step = s /\ at'[t].pos = at[t].pos /\ at'[t].data = d
         /\ at'[t].then = at[t].then
<1>1. Fits(at[t]) /\ AsOp(t, at[t]) /\ at[t] \in Calling
  BY CallerKnown
<1>2. /\ r \in Calling /\ r.op = at[t].op /\ r.step = s /\ r.pos = at[t].pos /\ r.data = d
      /\ r.then = at[t].then
  BY <1>1 DEF Calling, Steps
<1>3. Fits(r)
  BY <1>1, <1>2, FitsToo DEF StepsOf, Fits
<1>4. AsOp(t, r)
  BY <1>1, <1>2 DEF AsOp
<1> QED
  BY <1>2, <1>3, <1>4, OneMoves

LEMMA LookMoves ==
  ASSUME FTyped, NEW t \in Callers, Look(t)
  PROVE  /\ CallersOK' /\ \A u \in Callers : u # t => at'[u] = at[u]
         /\ at[t].op \in {"read", "ahead"} /\ at[t].step = "look" /\ at'[t].op = at[t].op
         /\ at'[t].pos = at[t].pos
         /\ at'[t].step = IF Blk(at[t].pos) \in DOMAIN blocks THEN "next" ELSE "fetch"
<1>1. at[t].step = "look" /\ at[t].op \in {"read", "ahead"} /\ at[t] \in Calling
  BY ByStep, CallerKnown DEF Look
<1>2. CASE Blk(at[t].pos) \in DOMAIN blocks
  <2>1. PICK d \in Seq(0 .. MaxWrites) : d = blocks[Blk(at[t].pos)]
    BY <1>2 DEF FTyped, ValuesOK
  <2>2. PICK r : r = [at[t] EXCEPT !.step = "next", !.data = d]
    OBVIOUS
  <2>3. Becomes(t, r)
    BY <1>1, <1>2, <2>1, <2>2 DEF Look, Goes, Calling
  <2> QED
    BY <1>1, <1>2, <2>2, <2>3, ReadMoves
<1>3. CASE Blk(at[t].pos) \notin DOMAIN blocks
  <2>1. PICK d \in Seq(0 .. MaxWrites) : d = at[t].data
    BY CallerKnown
  <2>2. PICK r : r = [at[t] EXCEPT !.step = "fetch", !.data = d]
    OBVIOUS
  <2>3. r = [at[t] EXCEPT !.step = "fetch"]
    BY <1>1, <2>1, <2>2 DEF Calling
  <2>4. Becomes(t, r)
    BY <1>3, <2>3 DEF Look, To
  <2> QED
    BY <1>1, <1>3, <2>2, <2>4, ReadMoves
<1> QED
  BY <1>2, <1>3

LEMMA FetchMoves ==
  ASSUME FTyped, NEW t \in Callers, PhoneReads(t)
  PROVE  /\ CallersOK' /\ \A u \in Callers : u # t => at'[u] = at[u]
         /\ at[t].op \in {"read", "ahead"} /\ at[t].step = "fetch" /\ at'[t].op = at[t].op
         /\ at'[t].pos = at[t].pos /\ at'[t].step = "fetched"
         /\ at'[t].data = BlockOf(file, Blk(at[t].pos)) /\ Blk(at[t].pos) \in Nat
<1>1. at[t].step = "fetch" /\ at[t].op \in {"read", "ahead"} /\ at[t].pos \in Nat
  BY ByStep, CallerKnown DEF PhoneReads
<1>2. Blk(at[t].pos) \in Nat
  BY <1>1, BlkNat
<1>3. PICK d \in Seq(0 .. MaxWrites) : d = BlockOf(file, Blk(at[t].pos))
  BY <1>2, BlockIsSeq DEF FTyped, ValuesOK
<1>4. PICK r : r = [at[t] EXCEPT !.step = "fetched", !.data = d]
  OBVIOUS
<1>5. Becomes(t, r)
  BY <1>3, <1>4 DEF PhoneReads
<1> QED
  BY <1>1, <1>2, <1>3, <1>4, <1>5, ReadMoves

LEMMA StoreMoves ==
  ASSUME FTyped, NEW t \in Callers, Store(t)
  PROVE  /\ CallersOK' /\ \A u \in Callers : u # t => at'[u] = at[u]
         /\ at[t].op \in {"read", "ahead"} /\ at[t].step = "fetched" /\ at'[t].op = at[t].op
         /\ at'[t].pos = at[t].pos /\ at'[t].step = "next" /\ Blk(at[t].pos) \in Nat
<1>1. at[t].step = "fetched" /\ at[t].op \in {"read", "ahead"} /\ at[t].pos \in Nat /\ at[t] \in Calling
  BY ByStep, CallerKnown DEF Store
<1>2. PICK d \in Seq(0 .. MaxWrites) : d = at[t].data
  BY CallerKnown
<1>3. PICK r : r = [at[t] EXCEPT !.step = "next", !.data = d]
  OBVIOUS
<1>4. r = [at[t] EXCEPT !.step = "next"]
  BY <1>1, <1>2, <1>3 DEF Calling
<1>5. Becomes(t, r)
  BY <1>4 DEF Store, To
<1>6. Blk(at[t].pos) \in Nat
  BY <1>1, BlkNat
<1> QED
  BY <1>1, <1>3, <1>5, <1>6, ReadMoves

LEMMA AheadFits ==
  ASSUME NEW p \in Nat, NEW r, r = [Idle EXCEPT !.op = "ahead", !.step = "look", !.pos = p]
  PROVE  Fits(r) /\ r.op = "ahead" /\ r.step = "look" /\ r.pos = p
<1>1. Idle \in Calling /\ Idle.then = "idle"
  BY IdleFits DEF Fits, Idle
<1>2. r \in Calling /\ r.op = "ahead" /\ r.step = "look" /\ r.then = "idle" /\ r.pos = p
  BY <1>1 DEF Calling, Ops, Steps
<1> QED
  BY <1>2 DEF Fits, StepsOf, ThenOf

LEMMA AheadMoves ==
  ASSUME FTyped, NEW t \in Callers, ReadAhead(t)
  PROVE  /\ CallersOK' /\ at'[t] = Idle /\ at[t].step = "next" /\ at[t].op \in {"read", "ahead"}
         /\ \A u \in Callers :
              u # t => \/ at'[u] = at[u]
                       \/ u \in Aheads /\ at[u] = Idle /\ at'[u].step = "look" /\ at'[u].op = "ahead"
<1>1. at[t].step = "next" /\ at[t].op \in {"read", "ahead"} /\ at[t].pos \in Nat
  BY ByStep, CallerKnown DEF ReadAhead
<1>0. Blk(at[t].pos) \in Nat
  BY <1>1, BlkNat
<1>2. CASE Becomes(t, Idle)
  BY <1>1, <1>2, StopMoves
<1>3. CASE ~Becomes(t, Idle)
  <2>1. PICK r : r = [Idle EXCEPT !.op = "ahead", !.step = "look", !.pos = (Blk(at[t].pos) + 1) * PerBlock]
    OBVIOUS
  <2>2. PICK g \in Aheads : at[g] = Idle /\ at' = [at EXCEPT ![t] = Idle, ![g] = r]
    BY <1>3, <2>1 DEF ReadAhead
  <2>3. (Blk(at[t].pos) + 1) * PerBlock \in Nat
    <3>1. PICK i \in Nat : i = Blk(at[t].pos) + 1
      BY <1>0
    <3>2. i * PerBlock \in Nat
      BY FileAssumption
    <3> QED BY <3>1, <3>2
  <2>4. Fits(r) /\ r.op = "ahead" /\ r.step = "look"
    BY <2>1, <2>3, AheadFits
  <2>5. g # t /\ g \in Callers /\ g \notin Threads
    BY <1>1, <2>2, IdleFits, FileAssumption DEF Callers
  <2>6. at'[t] = Idle /\ at'[g] = r /\ \A u \in Callers : u # t /\ u # g => at'[u] = at[u]
    BY <2>2, <2>5 DEF FTyped, CallersOK
  <2>7. \A u \in Callers : Fits(at'[u]) /\ AsOp(u, at'[u])
    <3> SUFFICES ASSUME NEW u \in Callers PROVE Fits(at'[u]) /\ AsOp(u, at'[u])
      OBVIOUS
    <3>1. CASE u = t BY <3>1, <2>6, IdleFits DEF AsOp
    <3>2. CASE u = g BY <3>2, <2>4, <2>5, <2>6 DEF AsOp
    <3>3. CASE u # t /\ u # g BY <3>3, <2>6, CallerKnown
    <3> QED BY <3>1, <3>2, <3>3
  <2>8. at' \in [Callers -> Calling]
    <3>1. \A u \in Callers : at'[u] \in Calling
      BY <2>7 DEF Fits
    <3>2. DOMAIN at' = Callers /\ at' = [u \in DOMAIN at' |-> at'[u]]
      BY <2>2 DEF FTyped, CallersOK
    <3> QED
      BY <3>1, <3>2
  <2>9. CallersOK'
    BY <2>7, <2>8 DEF CallersOK, AsOp, Callers
  <2> QED
    BY <1>1, <2>2, <2>4, <2>6, <2>9
<1> QED
  BY <1>2, <1>3


(* Listings and failures. *)
LEMMA ListMoves ==
  ASSUME FTyped, NEW t \in Callers, PhoneLists(t)
  PROVE  /\ CallersOK' /\ \A u \in Callers : u # t => at'[u] = at[u]
         /\ at[t].step = "list" /\ at[t].op = "list" /\ at'[t].op = "list" /\ at'[t].step = "listed"
         /\ at'[t].pos = Len(file)
<1>1. at[t].step = "list" /\ at[t].op = "list" /\ Fits(at[t]) /\ at[t] \in Calling /\ AsOp(t, at[t])
  BY ByStep, CallerKnown DEF PhoneLists
<1>2. PICK n \in Nat : n = Len(file)
  BY LenProperties DEF FTyped, ValuesOK
<1>3. PICK r : r = [at[t] EXCEPT !.step = "listed", !.pos = n]
  OBVIOUS
<1>4. r \in Calling /\ r.op = "list" /\ r.step = "listed" /\ r.then = at[t].then /\ r.pos = n
  BY <1>1, <1>3 DEF Calling, Steps
<1>5. Fits(r) /\ AsOp(t, r)
  BY <1>1, <1>4 DEF Fits, StepsOf, AsOp
<1>6. Becomes(t, r)
  BY <1>2, <1>3 DEF PhoneLists
<1> QED
  BY <1>1, <1>2, <1>4, <1>5, <1>6, OneMoves

LEMMA FailMoves ==
  ASSUME FTyped, NEW t \in Callers, RequestFails(t)
  PROVE  /\ CallersOK' /\ \A u \in Callers : u # t => at'[u] = at[u]
         /\ \/ at'[t] = Idle
            \/ at'[t].op = "flush" /\ at'[t].step = "forget"
<1>1. CASE at[t].op = "flush"
  <2>1. Fits(at[t]) /\ at[t] \in Calling /\ AsOp(t, at[t])
    BY CallerKnown
  <2>2. PICK r : r = [at[t] EXCEPT !.step = "forget", !.buf = <<>>]
    OBVIOUS
  <2>3. <<>> \in Seq(1 .. MaxWrites)
    BY EmptySeq
  <2>4. r \in Calling /\ r.op = "flush" /\ r.step = "forget" /\ r.then = at[t].then
    BY <1>1, <2>1, <2>2, <2>3 DEF Calling, Steps
  <2>5. Fits(r) /\ AsOp(t, r)
    BY <1>1, <2>1, <2>4 DEF Fits, StepsOf, AsOp
  <2>6. Becomes(t, r)
    BY <1>1, <2>2, <2>4 DEF RequestFails, Goes
  <2> QED
    BY <2>4, <2>5, <2>6, OneMoves
<1>2. CASE at[t].op # "flush"
  <2>1. Becomes(t, Idle)
    BY <1>2 DEF RequestFails, Goes
  <2> QED BY <2>1, StopMoves
<1> QED
  BY <1>1, <1>2

(* What the kernel asks for. *)
LEMMA Arriving ==
  ASSUME FTyped, NEW t \in Threads, NEW op \in Ops, NEW s \in StepsOf(op), NEW th \in ThenOf(op),
         NEW p \in Nat, NEW d \in Seq(0 .. MaxWrites), Arrives(t, op, s, th, p, d),
         op \notin {"none", "ahead"}, s \notin {"sent", "replied"},
         op = "write" => d \in Seq(1 .. MaxWrites) /\ d # <<>>
  PROVE  /\ CallersOK' /\ \A u \in Callers : u # t => at'[u] = at[u]
         /\ at[t] = Idle /\ at'[t].op = op /\ at'[t].step = s /\ at'[t].then = th
         /\ at'[t].pos = p
         /\ UNCHANGED <<file, want, size, wbuf, woff, apart, wrote, blocks, order, inflight, clouded, dir,
                        unlisted, crossed, faults, lost>>
<1>1. PICK r : r = [Idle EXCEPT !.op = op, !.step = s, !.then = th, !.pos = p, !.data = d]
  OBVIOUS
<1>2. Becomes(t, r) /\ at[t] = Idle
      /\ UNCHANGED <<file, want, size, wbuf, woff, apart, wrote, blocks, order, inflight, clouded, dir,
                     unlisted, crossed, faults, lost>>
  BY <1>1 DEF Arrives, buffer, cache, listing, faulty
<1>3. s \in Steps /\ th \in {"idle", "put", "cut", "look", "forget", "crossed"}
  BY DEF Ops, StepsOf, ThenOf, Steps
<1>4. r \in Calling /\ r.op = op /\ r.step = s /\ r.then = th /\ r.pos = p /\ r.data = d
  <2>1. Idle \in Calling
    BY IdleFits DEF Fits
  <2> QED BY <1>1, <1>3, <2>1 DEF Calling
<1>5. Fits(r) /\ AsOp(t, r)
  BY <1>4, FileAssumption DEF Fits, AsOp
<1> QED
  BY <1>2, <1>4, <1>5, OneMoves DEF Callers

LEMMA CutEndMoves ==
  ASSUME FTyped, NEW t \in Callers, Truncated(t)
  PROVE  CallersOK' /\ at'[t] = Idle /\ t \in Threads /\ at[t].op = "truncate" /\ at' = Crossing(t)
<1>1. at[t].op = "truncate" /\ t \in Threads
  BY ByStep DEF Truncated
<1> QED
  BY <1>1, CrossingMoves DEF Truncated

LEMMA ShortMoves ==
  ASSUME FTyped, NEW t \in Callers, Shortened(t)
  PROVE  CallersOK' /\ at'[t] = Idle /\ t \in Threads /\ at[t].op = "shorten" /\ at' = Crossing(t)
<1>1. at[t].op = "shorten" /\ t \in Threads
  BY ByStep DEF Shortened
<1> QED
  BY <1>1, CrossingMoves DEF Shortened

LEMMA ListedMoves ==
  ASSUME FTyped, NEW t \in Callers, StoreListing(t)
  PROVE  CallersOK' /\ at'[t] = Idle /\ \A u \in Callers : u # t => at'[u] = at[u]
  BY StopMoves DEF StoreListing

(* What arrives is known by what asks, where it starts and where its flush *)
(* takes it.                                                               *)
Asked(op, s, th) ==
  \/ op = "read" /\ s = "take" /\ th = "look"
  \/ op = "flush" /\ s = "take" /\ th = "forget"
  \/ op = "fsync" /\ s = "take" /\ th = "idle"
  \/ op = "list" /\ s = "list" /\ th = "idle"
  \/ op = "write" /\ s = "check" /\ th = "idle"
  \/ op = "truncate" /\ s = "take" /\ th = "cut"
  \/ op = "shorten" /\ s = "cut" /\ th = "idle"
Rest == UNCHANGED <<file, want, size, wbuf, woff, apart, wrote, blocks, order, inflight, clouded, dir,
                    unlisted, crossed, faults, lost>>

LEMMA AskedArrives ==
  ASSUME FTyped, NEW t \in Threads, NEW op, NEW s, NEW th, Asked(op, s, th),
         NEW p \in Nat, NEW d \in Seq(0 .. MaxWrites), Arrives(t, op, s, th, p, d),
         IF op = "write" THEN d \in Seq(1 .. MaxWrites) /\ d # <<>> ELSE d = <<>>
  PROVE  /\ CallersOK' /\ \A u \in Callers : u # t => at'[u] = at[u]
         /\ at[t] = Idle /\ at'[t].op = op /\ at'[t].step = s /\ Rest
<1>1. op \in Ops /\ op \notin {"none", "ahead"} /\ s \notin {"sent", "replied"}
  BY DEF Asked, Ops
<1>2. s \in StepsOf(op) /\ th \in ThenOf(op)
  BY DEF Asked, StepsOf, ThenOf
<1>5. op = "write" => d \in Seq(1 .. MaxWrites) /\ d # <<>>
  OBVIOUS
<1> QED
  BY <1>1, <1>2, <1>5, Arriving DEF Rest

LEMMA ReadArrives ==
  ASSUME FTyped, NEW t \in Threads, Begin(t)
  PROVE  /\ CallersOK' /\ \A u \in Callers : u # t => at'[u] = at[u]
         /\ at[t] = Idle /\ at'[t].op \in {"read", "flush", "fsync", "list"}
         /\ at'[t].step \in {"take", "list"} /\ Rest /\ writes' = writes
<1>1. writes' = writes
  BY DEF Begin
<1>2. \A op, s, th : \A c \in Nat :
        Asked(op, s, th) /\ op # "write" /\ Arrives(t, op, s, th, c, <<>>)
          => /\ CallersOK' /\ \A u \in Callers : u # t => at'[u] = at[u]
             /\ at[t] = Idle /\ at'[t].op = op /\ at'[t].step = s /\ Rest
  BY EmptySeq, AskedArrives
<1>3. /\ Asked("read", "take", "look") /\ Asked("flush", "take", "forget")
      /\ Asked("fsync", "take", "idle") /\ Asked("list", "list", "idle")
  BY DEF Asked
<1>4. CASE \E c \in 0 .. Cells : Arrives(t, "read", "take", "look", c, <<>>)
  <2>1. PICK c \in Nat : Arrives(t, "read", "take", "look", c, <<>>)
    BY <1>4, FileAssumption
  <2> QED BY <2>1, <1>1, <1>2, <1>3
<1>5. CASE Arrives(t, "flush", "take", "forget", 0, <<>>)
  BY <1>1, <1>2, <1>3, <1>5
<1>6. CASE Arrives(t, "fsync", "take", "idle", 0, <<>>)
  BY <1>1, <1>2, <1>3, <1>6
<1>7. CASE Arrives(t, "list", "list", "idle", 0, <<>>)
  BY <1>1, <1>2, <1>3, <1>7
<1> QED
  BY <1>4, <1>5, <1>6, <1>7 DEF Begin

LEMMA ChangeArrives ==
  ASSUME FTyped, NEW t \in Threads, BeginChange(t)
  PROVE  /\ CallersOK' /\ \A u \in Callers : u # t => at'[u] = at[u]
         /\ at[t] = Idle /\ writes' \in 0 .. MaxWrites
         /\ \/ at'[t].op \in {"write", "truncate"} /\ at'[t].step \in {"check", "take"}
            \/ at'[t].op = "shorten" /\ at'[t].step = "cut"
         /\ at'[t].op = "truncate" => at'[t].step = "take"
         /\ \A u \in Threads : ~Changes(u)
         /\ Rest
<1>1. writes < MaxWrites /\ writes' = writes + 1 /\ \A u \in Threads : ~Changes(u)
  BY DEF BeginChange, Changes
<1>2. writes' \in 1 .. MaxWrites /\ 1 .. MaxWrites \subseteq 0 .. MaxWrites
  BY <1>1, FileAssumption DEF FTyped, ValuesOK
<1>3. /\ Asked("write", "check", "idle") /\ Asked("truncate", "take", "cut")
      /\ Asked("shorten", "cut", "idle")
  BY DEF Asked
<1>4. ASSUME NEW c \in 0 .. Cells - 1, NEW n \in 1 .. MaxLength,
             Arrives(t, "write", "check", "idle", c, [k \in 1 .. n |-> writes'])
      PROVE  /\ CallersOK' /\ \A u \in Callers : u # t => at'[u] = at[u]
             /\ at[t] = Idle /\ at'[t].op = "write" /\ at'[t].step = "check" /\ Rest
  <2>1. PICK d : d = [k \in 1 .. n |-> writes']
    OBVIOUS
  <2>2. /\ d \in [1 .. n -> 1 .. MaxWrites] /\ d \in [1 .. n -> 0 .. MaxWrites]
        /\ n \in Nat /\ n # 0 /\ c \in Nat
    BY <1>2, <2>1, FileAssumption
  <2>3. d \in Seq(1 .. MaxWrites) /\ d \in Seq(0 .. MaxWrites) /\ Len(d) = n
    BY <2>2, MadeSeq
  <2>4. d # <<>>
    BY <2>2, <2>3, EmptySeq
  <2>5. Arrives(t, "write", "check", "idle", c, d)
    BY <1>4, <2>1
  <2> QED BY <1>3, <2>2, <2>3, <2>4, <2>5, AskedArrives
<1>5. CASE \E c \in 0 .. Cells - 1, n \in 1 .. MaxLength :
             Arrives(t, "write", "check", "idle", c, [k \in 1 .. n |-> writes'])
  BY <1>1, <1>2, <1>4, <1>5
<1>6. CASE \E c \in 0 .. Cells - 1 : Arrives(t, "truncate", "take", "cut", c, <<>>)
  <2>1. PICK c \in Nat : Arrives(t, "truncate", "take", "cut", c, <<>>)
    BY <1>6, FileAssumption
  <2>2. PICK d \in Seq(0 .. MaxWrites) : d = <<>>
    BY EmptySeq
  <2>3. Arrives(t, "truncate", "take", "cut", c, d)
    BY <2>1, <2>2
  <2>4. /\ CallersOK' /\ \A u \in Callers : u # t => at'[u] = at[u]
        /\ at[t] = Idle /\ at'[t].op = "truncate" /\ at'[t].step = "take" /\ Rest
    BY <1>3, <2>2, <2>3, AskedArrives
  <2> QED BY <1>1, <1>2, <2>4
<1>7. CASE \E c \in 0 .. Cells - 1 : Arrives(t, "shorten", "cut", "idle", c, <<>>)
  <2>1. PICK c \in Nat : Arrives(t, "shorten", "cut", "idle", c, <<>>)
    BY <1>7, FileAssumption
  <2>2. PICK d \in Seq(0 .. MaxWrites) : d = <<>>
    BY EmptySeq
  <2>3. Arrives(t, "shorten", "cut", "idle", c, d)
    BY <2>1, <2>2
  <2>4. /\ CallersOK' /\ \A u \in Callers : u # t => at'[u] = at[u]
        /\ at[t] = Idle /\ at'[t].op = "shorten" /\ at'[t].step = "cut" /\ Rest
    BY <1>3, <2>2, <2>3, AskedArrives
  <2> QED BY <1>1, <1>2, <2>4
<1> QED
  BY <1>5, <1>6, <1>7 DEF BeginChange

-----------------------------------------------------------------------------
(* Every step keeps the types. *)

LEMMA CallersKeep ==
  ASSUME FTyped, FileNext
  PROVE  CallersOK'
<1>1. ASSUME NEW t \in Threads, Begin(t) \/ BeginChange(t) PROVE CallersOK'
  BY <1>1, ReadArrives, ChangeArrives
<1>2. ASSUME NEW t \in Callers, HandleStep(t) PROVE CallersOK'
  BY <1>2, TakeMoves, SendMoves, SentMoves, EndMoves, CheckMoves, DecideMoves, PutMoves, CutMoves,
     CutEndMoves, ShortMoves, LookMoves, FetchMoves, StoreMoves, AheadMoves, ListMoves, ListedMoves DEF HandleStep
<1>3. ASSUME NEW t \in Callers, RequestFails(t) PROVE CallersOK'
  BY <1>3, FailMoves
<1>4. CASE ListingExpires
  BY <1>4 DEF ListingExpires, FTyped, CallersOK
<1> QED
  BY <1>1, <1>2, <1>3, <1>4 DEF FileNext

(* The oldest block goes when the cache is full. *)
Kept == IF Len(order) = CacheBlocks THEN Tail(order) ELSE order

LEMMA KeptOrder ==
  ASSUME order \in Seq(Nat), Len(order) <= CacheBlocks, IsInjective(order)
  PROVE  /\ Kept \in Seq(Nat) /\ Len(Kept) + 1 <= CacheBlocks /\ IsInjective(Kept)
         /\ ToSet(Kept) \subseteq ToSet(order)
<1>1. Len(order) \in Nat /\ CacheBlocks \in Nat \ {0} /\ DOMAIN order = 1 .. Len(order)
  BY LenProperties, FileAssumption
<1>2. CASE Len(order) # CacheBlocks
  <2>1. Kept = order
    BY <1>2 DEF Kept
  <2>2. Len(order) + 1 <= CacheBlocks
    <3>1. PICK n \in Nat, c \in Nat : n = Len(order) /\ c = CacheBlocks
      BY <1>1
    <3>2. n <= c /\ n # c
      BY <1>2, <3>1
    <3>3. n + 1 <= c
      BY <3>2
    <3> QED BY <3>1, <3>3
  <2> QED BY <2>1, <2>2
<1>3. CASE Len(order) = CacheBlocks
  <2>1. order # <<>>
    BY <1>1, <1>3, EmptySeq
  <2>2. PICK k : k = Tail(order)
    OBVIOUS
  <2>3. /\ k \in Seq(Nat) /\ Len(k) = Len(order) - 1 /\ \A i \in 1 .. Len(k) : k[i] = order[i + 1]
    BY <2>1, <2>2, HeadTailProperties
  <2>4. DOMAIN k = 1 .. Len(k)
    BY <2>3, LenProperties
  <2>5. \A i \in DOMAIN k : i + 1 \in DOMAIN order /\ k[i] = order[i + 1] /\ i \in Nat
    <3>1. PICK n \in Nat : n = Len(order) /\ Len(k) = n - 1
      BY <1>1, <2>3
    <3>2. DOMAIN k = 1 .. n - 1 /\ DOMAIN order = 1 .. n
      BY <1>1, <2>4, <3>1
    <3> SUFFICES ASSUME NEW i \in 1 .. n - 1 PROVE i + 1 \in 1 .. n /\ k[i] = order[i + 1] /\ i \in Nat
      BY <3>2
    <3>3. i + 1 \in 1 .. n /\ i \in Nat
      OBVIOUS
    <3> QED BY <2>3, <2>4, <3>2, <3>3
  <2>6. IsInjective(k)
    BY <2>5 DEF IsInjective
  <2>7. ToSet(k) \subseteq ToSet(order)
    BY <2>5 DEF ToSet
  <2> QED BY <1>1, <1>3, <2>2, <2>3, <2>6, <2>7 DEF Kept
<1> QED
  BY <1>2, <1>3

LEMMA AppendOrder ==
  ASSUME NEW k \in Seq(Nat), IsInjective(k), NEW i \in Nat, i \notin ToSet(k)
  PROVE  /\ Append(k, i) \in Seq(Nat) /\ Len(Append(k, i)) = Len(k) + 1
         /\ IsInjective(Append(k, i)) /\ ToSet(Append(k, i)) = ToSet(k) \union {i}
<1>1. PICK a : a = Append(k, i)
  OBVIOUS
<1>2. /\ a \in Seq(Nat) /\ Len(a) = Len(k) + 1 /\ a[Len(k) + 1] = i
      /\ \A j \in 1 .. Len(k) : a[j] = k[j]
  BY <1>1, AppendProperties
<1>3. DOMAIN a = 1 .. Len(k) + 1 /\ DOMAIN k = 1 .. Len(k) /\ Len(k) \in Nat
  BY <1>2, LenProperties
<1>4. \A j \in DOMAIN k : k[j] # i
  BY DEF ToSet
<1>5. DOMAIN a = DOMAIN k \union {Len(k) + 1} /\ Len(k) + 1 \notin DOMAIN k
  BY <1>3
<1>6. IsInjective(a)
  BY <1>2, <1>3, <1>4, <1>5 DEF IsInjective
<1>7. ToSet(a) = ToSet(k) \union {i}
  BY <1>2, <1>3, <1>5 DEF ToSet
<1> QED
  BY <1>1, <1>2, <1>6, <1>7

LEMMA ValuesKeep ==
  ASSUME FTyped, CacheOK, FileNext
  PROVE  ValuesOK'
<1> USE DEF FTyped, ValuesOK, buffer, cache, listing, bounds, faulty
<1>0. 0 \in 0 .. MaxWrites /\ 1 .. MaxWrites \subseteq 0 .. MaxWrites
  BY FileAssumption
<1>1. ASSUME NEW t \in Threads, Begin(t) PROVE ValuesOK'
  BY <1>1, ReadArrives DEF Rest
<1>2. ASSUME NEW t \in Threads, BeginChange(t) PROVE ValuesOK'
  BY <1>2, ChangeArrives DEF Rest
<1>3. ASSUME NEW t \in Callers, TakeBuffer(t) PROVE ValuesOK'
  BY <1>3, EmptySeq DEF TakeBuffer
<1>4. ASSUME NEW t \in Callers, PhoneWrites(t) PROVE ValuesOK'
  <2>1. at[t].buf \in Seq(1 .. MaxWrites) /\ at[t].buf # <<>> /\ at[t].off \in Nat
    BY <1>4, SendMoves, CallerKnown
  <2>2. Piece(t) \in Seq(0 .. MaxWrites)
    <3>1. Piece(t) = SubSeq(at[t].buf, 1, First(at[t].buf))
      BY DEF Piece, First
    <3>2. Piece(t) \in Seq(1 .. MaxWrites)
      <4>1. PICK b \in Seq(1 .. MaxWrites) : b = at[t].buf /\ b # <<>>
        BY <2>1
      <4>2. SubSeq(b, 1, First(b)) \in Seq(1 .. MaxWrites)
        BY <4>1, Pieces
      <4> QED BY <3>1, <4>1, <4>2
    <3> QED BY <3>2, <1>0, SeqMonotonic
  <2>3. file' \in Seq(0 .. MaxWrites)
    BY <1>0, <2>1, <2>2, <1>4, WrittenCells DEF PhoneWrites
  <2> QED BY <1>4, <2>3 DEF PhoneWrites
<1>5. ASSUME NEW t \in Callers, SendMore(t) PROVE ValuesOK'
  BY <1>5 DEF SendMore
<1>6. ASSUME NEW t \in Callers, FlushEnds(t) PROVE ValuesOK'
  BY <1>6 DEF FlushEnds, Forget
<1>7. ASSUME NEW t \in Callers, Check(t) \/ Decide(t) PROVE ValuesOK'
  BY <1>7 DEF Check, Decide
<1>8. ASSUME NEW t \in Callers, Put(t) PROVE ValuesOK'
  <2>1. at[t].data \in Seq(1 .. MaxWrites) /\ at[t].pos \in Nat
    BY <1>8, PutMoves
  <2>2. at[t].data \in Seq(0 .. MaxWrites) /\ Len(at[t].data) \in Nat
    BY <2>1, <1>0, SeqMonotonic, LenProperties
  <2>3. want' \in Seq(0 .. MaxWrites)
    BY <1>0, <2>1, <2>2, <1>8, WrittenCells DEF Put
  <2>4. wbuf' \in Seq(1 .. MaxWrites)
    BY <2>1, <1>8, ConcatProperties DEF Put
  <2>5. size' \in Nat /\ woff' \in Nat
    BY <2>1, <2>2, <1>8 DEF Put
  <2>6. blocks' = <<>> /\ DOMAIN blocks' = {}
    BY <1>8 DEF Put, DropBlocks
  <2> QED BY <1>8, <2>3, <2>4, <2>5, <2>6 DEF Put
<1>9. ASSUME NEW t \in Callers, PhoneCuts(t) PROVE ValuesOK'
  <2>1. file' \in Seq(0 .. MaxWrites)
    BY <1>0, <1>9, CutMoves, ResizedCells DEF PhoneCuts
  <2> QED BY <1>9, <2>1 DEF PhoneCuts
<1>10. ASSUME NEW t \in Callers, Truncated(t) PROVE ValuesOK'
  <2>1. at[t].pos \in Nat
    BY CallerKnown
  <2>2. want' \in Seq(0 .. MaxWrites)
    BY <1>0, <2>1, <1>10, ResizedCells DEF Truncated
  <2>3. blocks' = <<>> /\ DOMAIN blocks' = {}
    BY <1>10 DEF Truncated, DropBlocks
  <2> QED BY <1>10, <2>1, <2>2, <2>3 DEF Truncated, Forget
<1>11. ASSUME NEW t \in Callers, Look(t) PROVE ValuesOK'
  BY <1>11 DEF Look
<1>12. ASSUME NEW t \in Callers, PhoneReads(t) \/ ReadAhead(t) \/ PhoneLists(t) PROVE ValuesOK'
  BY <1>12 DEF PhoneReads, ReadAhead, PhoneLists
<1>13. ASSUME NEW t \in Callers, Store(t) PROVE ValuesOK'
  <2>1. at[t].data \in Seq(0 .. MaxWrites)
    BY CallerKnown
  <2>2. PICK K : blocks' = [j \in K |-> IF j = Blk(at[t].pos) THEN at[t].data ELSE blocks[j]]
                 /\ \A j \in K : j = Blk(at[t].pos) \/ j \in DOMAIN blocks
    <3>1. ToSet(Kept) \subseteq DOMAIN blocks
      BY KeptOrder DEF CacheOK
    <3> QED BY <3>1, <1>13 DEF Store, Kept
  <2> QED BY <1>13, <2>1, <2>2 DEF Store
<1>14. ASSUME NEW t \in Callers, StoreListing(t) PROVE ValuesOK'
  BY <1>14, CallerKnown DEF StoreListing
<1>15. ASSUME NEW t \in Callers, RequestFails(t) PROVE ValuesOK'
  BY <1>15 DEF RequestFails
<1>16. CASE ListingExpires
  BY <1>16 DEF ListingExpires
<1>17. ASSUME NEW t \in Callers, Shortened(t) PROVE ValuesOK'
  <2>1. at[t].pos \in Nat
    BY CallerKnown
  <2>2. want' \in Seq(0 .. MaxWrites)
    BY <1>0, <2>1, <1>17, ResizedCells DEF Shortened
  <2> QED BY <1>17, <2>1, <2>2 DEF Shortened, Forget
<1> QED
  BY <1>1, <1>2, <1>3, <1>4, <1>5, <1>6, <1>7, <1>8, <1>9, <1>10, <1>11, <1>12, <1>13, <1>14, <1>15,
     <1>16, <1>17 DEF FileNext, HandleStep

-----------------------------------------------------------------------------
(* Fetches and the cache. *)

SameFetch(u) ==
  /\ Fetching(u)' <=> Fetching(u)
  /\ Fetching(u) => at'[u].pos = at[u].pos /\ at'[u].data = at[u].data /\ at'[u].step = at[u].step
FetchesRest == inflight' = inflight /\ \A u \in Callers : SameFetch(u)

LEMMA OneQuiet ==
  ASSUME NEW t \in Callers, \A u \in Callers : u # t => at'[u] = at[u], inflight' = inflight,
         at[t].step \notin {"fetch", "fetched"}, at'[t].step \notin {"fetch", "fetched"}
  PROVE  FetchesRest
  BY DEF FetchesRest, SameFetch, Fetching

LEMMA FlushedStep ==
  ASSUME NEW h, Fits(h), NEW r, Flushed(h, r)
  PROVE  r.step \in {"idle", "put", "cut", "look", "forget", "crossed"}
  BY IdleFits DEF Flushed, Fits, Calling

LEMMA QuietFetches ==
  ASSUME FTyped, NEW t \in Callers,
         \/ TakeBuffer(t) \/ PhoneWrites(t) \/ SendMore(t) \/ FlushEnds(t)
         \/ Check(t) \/ Decide(t) \/ Put(t) \/ PhoneCuts(t) \/ Truncated(t) \/ Shortened(t)
         \/ ReadAhead(t) \/ PhoneLists(t) \/ StoreListing(t)
  PROVE  FetchesRest
<1> USE DEF cache
<1>1. CASE TakeBuffer(t)
  <2>1. Fits(at[t])
    BY CallerKnown
  <2>2. at'[t].step \notin {"fetch", "fetched"}
    BY <1>1, <2>1, TakeMoves, FlushedStep
  <2> QED BY <1>1, <2>2, TakeMoves, OneQuiet DEF TakeBuffer
<1>2. CASE PhoneWrites(t)
  BY <1>2, SendMoves, OneQuiet DEF PhoneWrites
<1>3. CASE SendMore(t)
  <2>1. Fits(at[t])
    BY CallerKnown
  <2>2. at'[t].step \notin {"fetch", "fetched"}
    BY <1>3, <2>1, SentMoves, FlushedStep
  <2> QED BY <1>3, <2>2, SentMoves, OneQuiet DEF SendMore
<1>4. CASE FlushEnds(t)
  <2>1. inflight' = inflight /\ at'[t] = Idle /\ at[t].step = "forget"
    BY <1>4, EndMoves DEF FlushEnds
  <2>2. CASE at' = Crossing(t)
    BY <2>1, <2>2, CrossingMoves, IdleFits DEF FetchesRest, SameFetch, Fetching
  <2>3. CASE \A u \in Callers : u # t => at'[u] = at[u]
    BY <2>1, <2>3, IdleFits, OneQuiet
  <2> QED BY <1>4, <2>2, <2>3, EndMoves
<1>5. CASE Check(t)
  BY <1>5, CheckMoves, OneQuiet DEF Check
<1>6. CASE Decide(t)
  BY <1>6, DecideMoves, OneQuiet DEF Decide
<1>7. CASE Put(t)
  BY <1>7, PutMoves, IdleFits, OneQuiet DEF Put, DropBlocks
<1>8. CASE PhoneCuts(t)
  BY <1>8, CutMoves, OneQuiet DEF PhoneCuts
<1>9. CASE Truncated(t) \/ Shortened(t)
  <2>1. inflight' = inflight /\ at' = Crossing(t) /\ at[t].step = "shortened"
    BY <1>9 DEF Truncated, Shortened, DropBlocks
  <2> QED BY <2>1, CrossingMoves, IdleFits DEF FetchesRest, SameFetch, Fetching
<1>10. CASE ReadAhead(t)
  <2>1. inflight' = inflight
    BY <1>10 DEF ReadAhead
  <2> QED BY <1>10, <2>1, AheadMoves, IdleFits DEF FetchesRest, SameFetch, Fetching
<1>11. CASE PhoneLists(t)
  BY <1>11, ListMoves, OneQuiet DEF PhoneLists
<1>12. CASE StoreListing(t)
  BY <1>12, ListedMoves, IdleFits, OneQuiet DEF StoreListing
<1> QED
  BY <1>1, <1>2, <1>3, <1>4, <1>5, <1>6, <1>7, <1>8, <1>9, <1>10, <1>11, <1>12

LEMMA QuietArrivals ==
  ASSUME FTyped, \/ \E t \in Threads : Begin(t) \/ BeginChange(t)
                 \/ ListingExpires
  PROVE  FetchesRest
<1>1. ASSUME NEW t \in Threads, Begin(t) PROVE FetchesRest
  BY <1>1, ReadArrives, IdleFits, OneQuiet DEF Rest, Callers
<1>2. ASSUME NEW t \in Threads, BeginChange(t) PROVE FetchesRest
  BY <1>2, ChangeArrives, IdleFits, OneQuiet DEF Rest, Callers
<1>3. CASE ListingExpires
  BY <1>3 DEF ListingExpires, FetchesRest, SameFetch, Fetching, cache
<1> QED
  BY <1>1, <1>2, <1>3

(* A fetch that begins is of a block that no one fetches; one that ends is *)
(* of no other's.                                                          *)
LEMMA FetchesKeep ==
  ASSUME FTyped, FetchesOK, FileNext
  PROVE  FetchesOK'
<1>1. CASE FetchesRest
  BY <1>1 DEF FetchesRest, SameFetch, FetchesOK
<1>2. ASSUME NEW t \in Callers, Look(t) PROVE FetchesOK'
  <2>1. CASE Blk(at[t].pos) \in DOMAIN blocks
    <3>1. FetchesRest
      BY <1>2, <2>1, LookMoves, OneQuiet DEF Look, cache
    <3> QED BY <1>1, <3>1
  <2>2. CASE Blk(at[t].pos) \notin DOMAIN blocks
    <3>1. inflight' = inflight \union {Blk(at[t].pos)} /\ Blk(at[t].pos) \notin inflight
      BY <1>2, <2>2 DEF Look
    <3>2. /\ \A u \in Callers : u # t => at'[u] = at[u]
          /\ at[t].step = "look" /\ at'[t].step = "fetch" /\ at'[t].pos = at[t].pos
      BY <1>2, <2>2, LookMoves
    <3> QED BY <3>1, <3>2 DEF FetchesOK, Fetching
  <2> QED BY <2>1, <2>2
<1>3. ASSUME NEW t \in Callers, PhoneReads(t) PROVE FetchesOK'
  <2>1. inflight' = inflight
    BY <1>3 DEF PhoneReads, cache
  <2>2. /\ \A u \in Callers : u # t => at'[u] = at[u]
        /\ at[t].step = "fetch" /\ at'[t].step = "fetched" /\ at'[t].pos = at[t].pos
    BY <1>3, FetchMoves
  <2> QED BY <2>1, <2>2 DEF FetchesOK, Fetching
<1>4. ASSUME NEW t \in Callers, Fetching(t), inflight' = inflight \ {Blk(at[t].pos)},
             \A u \in Callers : u # t => at'[u] = at[u], ~Fetching(t)'
      PROVE  FetchesOK'
  BY <1>4 DEF FetchesOK, Fetching
<1>5. ASSUME NEW t \in Callers, Store(t) PROVE FetchesOK'
  BY <1>4, <1>5, StoreMoves DEF Store, Fetching
<1>6. ASSUME NEW t \in Callers, RequestFails(t) PROVE FetchesOK'
  <2>1. (\A u \in Callers : u # t => at'[u] = at[u]) /\ ~Fetching(t)'
    BY <1>6, FailMoves, IdleFits DEF Fetching
  <2>2. CASE Fetching(t)
    BY <1>4, <1>6, <2>1, <2>2 DEF RequestFails
  <2>3. CASE ~Fetching(t)
    <3>1. FetchesRest
      BY <1>6, <2>1, <2>3, OneQuiet DEF RequestFails, Fetching
    <3> QED BY <1>1, <3>1
  <2> QED BY <2>2, <2>3
<1> QED
  BY <1>1, <1>2, <1>3, <1>5, <1>6, QuietFetches, QuietArrivals DEF FileNext, HandleStep

LEMMA CacheKeep ==
  ASSUME FTyped, FetchesOK, CacheOK, FileNext
  PROVE  CacheOK'
<1> USE DEF cache
<1>1. CASE UNCHANGED <<blocks, order, inflight>>
  BY <1>1 DEF CacheOK
<1>2. CASE blocks' = <<>> /\ order' = <<>>
  <2>1. order' \in Seq(Nat) /\ Len(order') = 0 /\ DOMAIN order' = {} /\ DOMAIN blocks' = {}
    BY <1>2, EmptySeq
  <2> QED BY <2>1, FileAssumption DEF CacheOK, ToSet, IsInjective
<1>3. ASSUME NEW t \in Callers, Look(t) PROVE CacheOK'
  BY <1>1, <1>3 DEF Look, CacheOK
<1>4. ASSUME NEW t \in Callers, Store(t) PROVE CacheOK'
  <2>1. PICK i \in Nat : i = Blk(at[t].pos)
    BY <1>4, StoreMoves
  <2>2. i \in inflight
    BY <1>4, <2>1 DEF Store, FetchesOK, Fetching
  <2>3. /\ Kept \in Seq(Nat) /\ Len(Kept) + 1 <= CacheBlocks /\ IsInjective(Kept)
        /\ ToSet(Kept) \subseteq DOMAIN blocks
    BY KeptOrder DEF CacheOK
  <2>4. i \notin ToSet(Kept)
    BY <2>2, <2>3 DEF CacheOK
  <2>5. order' = Append(Kept, i) /\ inflight' = inflight \ {i} /\ DOMAIN blocks' = ToSet(Kept) \union {i}
    BY <1>4, <2>1 DEF Store, Kept
  <2>6. /\ order' \in Seq(Nat) /\ Len(order') = Len(Kept) + 1 /\ IsInjective(order')
        /\ ToSet(order') = ToSet(Kept) \union {i}
    BY <2>3, <2>4, <2>5, AppendOrder
  <2> QED BY <2>3, <2>5, <2>6 DEF CacheOK
<1>5. ASSUME NEW t \in Callers, RequestFails(t) PROVE CacheOK'
  BY <1>5 DEF RequestFails, CacheOK
<1>6. ASSUME NEW t \in Callers, Put(t) \/ Truncated(t) PROVE CacheOK'
  BY <1>2, <1>6 DEF Put, Truncated, DropBlocks
<1>7. ASSUME NEW t \in Threads, Begin(t) \/ BeginChange(t) PROVE CacheOK'
  BY <1>1, <1>7, ReadArrives, ChangeArrives DEF Rest
<1>8. CASE ListingExpires
  BY <1>1, <1>8 DEF ListingExpires
<1>9. ASSUME NEW t \in Callers,
             \/ TakeBuffer(t) \/ PhoneWrites(t) \/ SendMore(t) \/ FlushEnds(t)
             \/ Check(t) \/ Decide(t) \/ PhoneCuts(t) \/ Shortened(t)
             \/ PhoneReads(t) \/ ReadAhead(t) \/ PhoneLists(t) \/ StoreListing(t)
      PROVE  CacheOK'
  BY <1>1, <1>9 DEF TakeBuffer, PhoneWrites, SendMore, FlushEnds, Check, Decide, PhoneCuts, Shortened, PhoneReads,
     ReadAhead, PhoneLists, StoreListing
<1> QED
  BY <1>3, <1>4, <1>5, <1>6, <1>7, <1>8, <1>9 DEF FileNext, HandleStep

-----------------------------------------------------------------------------
(* One change of the file at a time. *)

OpsRest == \A u \in Threads : Changes(u)' => Changes(u)

LEMMA StepKeepsOps ==
  ASSUME FTyped, NEW t \in Callers, HandleStep(t) \/ RequestFails(t)
  PROVE  OpsRest
<1> USE DEF OpsRest, Changes, Callers
<1>0. Idle.op = "none" /\ \A h, r : Flushed(h, r) => r.op = h.op \/ r.op = "none"
  BY IdleFits DEF Flushed, Same
<1>1. CASE TakeBuffer(t) BY <1>0, <1>1, TakeMoves DEF Same
<1>2. CASE PhoneWrites(t) BY <1>2, SendMoves DEF Same
<1>3. CASE SendMore(t) BY <1>0, <1>3, SentMoves DEF Same
<1>4. CASE FlushEnds(t)
  <2>1. CASE at' = Crossing(t) BY <1>0, <2>1, CrossingMoves
  <2>2. CASE ~(at' = Crossing(t)) BY <1>0, <1>4, <2>2, EndMoves
  <2> QED BY <2>1, <2>2
<1>5. CASE Check(t) BY <1>5, CheckMoves
<1>6. CASE Decide(t) BY <1>6, DecideMoves DEF Same
<1>7. CASE Put(t) BY <1>0, <1>7, PutMoves
<1>8. CASE PhoneCuts(t) BY <1>8, CutMoves DEF Same
<1>9. CASE Truncated(t) \/ Shortened(t) BY <1>0, <1>9, CutEndMoves, ShortMoves, CrossingMoves
<1>10. CASE Look(t) BY <1>10, LookMoves
<1>11. CASE PhoneReads(t) BY <1>11, FetchMoves
<1>12. CASE Store(t) BY <1>12, StoreMoves
<1>13. CASE ReadAhead(t) BY <1>0, <1>13, AheadMoves
<1>14. CASE PhoneLists(t) BY <1>14, ListMoves
<1>15. CASE StoreListing(t) BY <1>0, <1>15, ListedMoves
<1>16. CASE RequestFails(t) BY <1>0, <1>16, FailMoves
<1> QED
  BY <1>1, <1>2, <1>3, <1>4, <1>5, <1>6, <1>7, <1>8, <1>9, <1>10, <1>11, <1>12, <1>13, <1>14, <1>15,
     <1>16 DEF HandleStep

LEMMA ChangeKeeps ==
  ASSUME FTyped, OneChange, FileNext
  PROVE  OneChange'
<1>1. CASE OpsRest
  BY <1>1 DEF OpsRest, OneChange
<1>2. ASSUME NEW t \in Threads, Begin(t) PROVE OpsRest
  BY <1>2, ReadArrives DEF OpsRest, Changes, Callers
<1>3. ASSUME NEW t \in Threads, BeginChange(t) PROVE OneChange'
  BY <1>3, ChangeArrives DEF OneChange, Changes, Callers
<1>4. CASE ListingExpires
  BY <1>4 DEF ListingExpires, OneChange, Changes
<1> QED
  BY <1>1, <1>2, <1>3, <1>4, StepKeepsOps DEF FileNext

(* What one caller's part of Joins says of it and the buffer. *)
JoinsAt(r, w, o) ==
  /\ r.op = "truncate" /\ r.step # "take" => w = <<>>
  /\ r.op = "write" =>
       /\ r.step = "decide" /\ r.then = "idle" /\ w # <<>> => r.pos = o + Len(w)
       /\ r.step = "put" /\ w # <<>> => r.pos = o + Len(w)
       /\ r.step \in {"sent", "replied"} /\ r.then = "put" => w = <<>>

LEMMA JoinsMoves ==
  ASSUME Joins, UNCHANGED <<wbuf, woff>>, NEW t \in Callers,
         \A u \in Callers : u # t => at'[u] = at[u] \/ ~Changes(u)',
         t \in Threads => JoinsAt(at'[t], wbuf, woff)
  PROVE  Joins'
<1> SUFFICES ASSUME NEW u \in Threads PROVE JoinsAt(at'[u], wbuf, woff)
  BY DEF Joins, JoinsAt
<1>1. CASE u = t BY <1>1
<1>2. CASE u # t BY <1>2 DEF Joins, JoinsAt, Callers, Changes
<1> QED BY <1>1, <1>2

LEMMA JoinsKeep ==
  ASSUME FTyped, OneChange, Joins, FileNext
  PROVE  Joins'
<1> USE DEF buffer
<1>0. JoinsAt(Idle, wbuf, woff) /\ \A t \in Threads : JoinsAt(at[t], wbuf, woff)
  BY IdleFits DEF JoinsAt, Joins
<1>1. ASSUME NEW t \in Callers, TakeBuffer(t) PROVE Joins'
  <2>1. wbuf' = <<>>
    BY <1>1 DEF TakeBuffer
  <2> QED BY <2>1 DEF Joins
<1>2. ASSUME NEW t \in Callers, PhoneWrites(t) PROVE Joins'
  <2>1. JoinsAt(at'[t], wbuf, woff)
    BY <1>0, <1>2, SendMoves DEF JoinsAt, Same
  <2> QED BY <1>2, <2>1, SendMoves, JoinsMoves DEF PhoneWrites
<1>3. ASSUME NEW t \in Callers, SendMore(t) PROVE Joins'
  <2>1. JoinsAt(at'[t], wbuf, woff)
    <3>1. t \in Threads /\ at[t].step = "replied" /\ JoinsAt(at[t], wbuf, woff)
      BY <1>0, <1>3, SentMoves
    <3>2. CASE Same(at[t], at'[t]) /\ at'[t].step = "sent"
      BY <3>1, <3>2 DEF JoinsAt, Same
    <3>3. CASE Flushed(at[t], at'[t])
      <4>1. CASE at'[t] = Idle
        BY <4>1, <1>0
      <4>2. CASE at'[t] # Idle
        <5>1. Same(at[t], at'[t]) /\ at'[t].step = at[t].then
          BY <3>3, <4>2 DEF Flushed
        <5>2. at[t].op = "write" => at[t].then \in {"idle", "put"}
          BY <3>1, CallerKnown DEF Fits, ThenOf
        <5> QED BY <3>1, <5>1, <5>2 DEF JoinsAt, Same
      <4> QED BY <4>1, <4>2
    <3> QED BY <1>3, <3>2, <3>3, SentMoves
  <2> QED BY <1>3, <2>1, SentMoves, JoinsMoves DEF SendMore
<1>4. ASSUME NEW t \in Callers, at' = Crossing(t), UNCHANGED <<wbuf, woff>> PROVE Joins'
  <2>1. /\ \A u \in Callers : u # t => at'[u] = at[u] \/ ~Changes(u)'
        /\ at'[t] = Idle
    BY <1>4, CrossingMoves DEF Changes
  <2> QED BY <1>0, <1>4, <2>1, JoinsMoves
<1>5. ASSUME NEW t \in Callers, FlushEnds(t) PROVE Joins'
  <2>1. CASE at' = Crossing(t)
    BY <1>4, <1>5, <2>1 DEF FlushEnds
  <2>2. CASE ~(at' = Crossing(t))
    BY <1>0, <1>5, <2>2, EndMoves, JoinsMoves DEF FlushEnds
  <2> QED BY <2>1, <2>2
<1>6. ASSUME NEW t \in Callers, Check(t) PROVE Joins'
  <2>1. JoinsAt(at'[t], wbuf, woff)
    BY <1>6, CheckMoves DEF JoinsAt
  <2> QED BY <1>6, <2>1, CheckMoves, JoinsMoves DEF Check
<1>7. ASSUME NEW t \in Callers, Decide(t) PROVE Joins'
  <2>1. at[t].then \in {"idle", "put"}
    BY <1>7, DecideMoves, CallerKnown DEF Fits, ThenOf
  <2>2. JoinsAt(at'[t], wbuf, woff)
    BY <1>0, <1>7, <2>1, DecideMoves DEF JoinsAt, Same
  <2> QED BY <1>7, <2>2, DecideMoves, JoinsMoves DEF Decide
<1>8. ASSUME NEW t \in Callers, Put(t) PROVE Joins'
  <2>1. \A u \in Threads : u # t => ~Changes(u)'
    BY <1>8, PutMoves DEF OneChange, Changes, Callers
  <2>2. JoinsAt(at'[t], wbuf', woff')
    BY <1>8, PutMoves, IdleFits DEF JoinsAt
  <2> SUFFICES ASSUME NEW u \in Threads PROVE JoinsAt(at'[u], wbuf', woff')
    BY DEF Joins, JoinsAt
  <2>3. CASE u = t BY <2>2, <2>3
  <2>4. CASE u # t BY <2>1, <2>4 DEF JoinsAt, Changes
  <2> QED BY <2>3, <2>4
<1>9. ASSUME NEW t \in Callers, PhoneCuts(t) PROVE Joins'
  <2>1. JoinsAt(at'[t], wbuf, woff)
    BY <1>0, <1>9, CutMoves DEF JoinsAt, Same
  <2> QED BY <1>9, <2>1, CutMoves, JoinsMoves DEF PhoneCuts
<1>10. ASSUME NEW t \in Callers, Truncated(t) \/ Shortened(t) PROVE Joins'
  BY <1>4, <1>10 DEF Truncated, Shortened
<1>11. ASSUME NEW t \in Callers, Look(t) \/ PhoneReads(t) \/ Store(t) PROVE Joins'
  <2>1. at'[t].op \in {"read", "ahead"} /\ \A u \in Callers : u # t => at'[u] = at[u]
    BY <1>11, LookMoves, FetchMoves, StoreMoves
  <2>2. JoinsAt(at'[t], wbuf, woff)
    BY <2>1 DEF JoinsAt
  <2>3. UNCHANGED <<wbuf, woff>>
    BY <1>11 DEF Look, PhoneReads, Store
  <2> QED BY <2>1, <2>2, <2>3, JoinsMoves
<1>12. ASSUME NEW t \in Callers, ReadAhead(t) PROVE Joins'
  <2>1. \A u \in Callers : u # t => at'[u] = at[u] \/ ~Changes(u)'
    BY <1>12, AheadMoves DEF Changes
  <2>2. UNCHANGED <<wbuf, woff>> /\ JoinsAt(at'[t], wbuf, woff)
    BY <1>0, <1>12, AheadMoves DEF ReadAhead
  <2> QED BY <2>1, <2>2, JoinsMoves
<1>13. ASSUME NEW t \in Callers, PhoneLists(t) \/ StoreListing(t) PROVE Joins'
  <2>1. (at'[t].op = "list" \/ at'[t] = Idle) /\ \A u \in Callers : u # t => at'[u] = at[u]
    BY <1>13, ListMoves, ListedMoves
  <2>2. JoinsAt(at'[t], wbuf, woff)
    BY <1>0, <2>1 DEF JoinsAt
  <2>3. UNCHANGED <<wbuf, woff>>
    BY <1>13 DEF PhoneLists, StoreListing
  <2> QED BY <2>1, <2>2, <2>3, JoinsMoves
<1>14. ASSUME NEW t \in Callers, RequestFails(t) PROVE Joins'
  <2>1. JoinsAt(at'[t], wbuf, woff)
    BY <1>0, <1>14, FailMoves DEF JoinsAt
  <2> QED BY <1>14, <2>1, FailMoves, JoinsMoves DEF RequestFails
<1>15. ASSUME NEW t \in Threads, Begin(t) PROVE Joins'
  <2>1. JoinsAt(at'[t], wbuf, woff)
    BY <1>15, ReadArrives DEF JoinsAt
  <2> QED BY <1>15, <2>1, ReadArrives, JoinsMoves DEF Rest, Callers
<1>16. ASSUME NEW t \in Threads, BeginChange(t) PROVE Joins'
  <2>1. at'[t].op = "truncate" => at'[t].step = "take"
    BY <1>16, ChangeArrives
  <2>2. JoinsAt(at'[t], wbuf, woff)
    BY <1>16, <2>1, ChangeArrives DEF JoinsAt
  <2> QED BY <1>16, <2>2, ChangeArrives, JoinsMoves DEF Rest, Callers
<1>17. CASE ListingExpires
  BY <1>17 DEF ListingExpires, Joins
<1> QED
  BY <1>1, <1>2, <1>3, <1>5, <1>6, <1>7, <1>8, <1>9, <1>10, <1>11, <1>12, <1>13, <1>14, <1>15, <1>16,
     <1>17 DEF FileNext, HandleStep

-----------------------------------------------------------------------------
(* The cached listing. *)

ListsRest ==
  \A u \in Callers : at'[u].step = "listed" /\ at'[u].then # "crossed"
                       => at[u].step = "listed" /\ at[u].then # "crossed" /\ at'[u].pos = at[u].pos

LEMMA OneNotListed ==
  ASSUME NEW t \in Callers, \A u \in Callers : u # t => at'[u] = at[u] \/ at'[u].step # "listed",
         at'[t].step # "listed"
  PROVE  ListsRest
  BY DEF ListsRest

LEMMA ListingKeeps ==
  ASSUME FTyped, ListingOK, FileNext
  PROVE  ListingOK'
<1> USE DEF listing
<1>1. CASE ListsRest /\ UNCHANGED <<file, dir, unlisted, crossed>>
  BY <1>1 DEF ListsRest, ListingOK
<1>2. ASSUME NEW t \in Threads, Begin(t) \/ BeginChange(t) PROVE ListingOK'
  <2>1. t \in Callers /\ at'[t].step # "listed" /\ Rest /\ \A u \in Callers : u # t => at'[u] = at[u]
    BY <1>2, ReadArrives, ChangeArrives DEF Callers
  <2> QED BY <1>1, <2>1, OneNotListed DEF Rest
<1>3. CASE ListingExpires
  BY <1>3 DEF ListingExpires, ListingOK
<1>4. ASSUME NEW t \in Callers, TakeBuffer(t) PROVE ListingOK'
  <2>1. at'[t].step # "listed" /\ \A u \in Callers : u # t => at'[u] = at[u]
    BY <1>4, TakeMoves, CallerKnown, FlushedStep
  <2> QED BY <1>1, <1>4, <2>1, OneNotListed DEF TakeBuffer
<1>5. ASSUME NEW t \in Callers, SendMore(t) PROVE ListingOK'
  <2>1. at'[t].step # "listed" /\ \A u \in Callers : u # t => at'[u] = at[u]
    BY <1>5, SentMoves, CallerKnown, FlushedStep
  <2> QED BY <1>1, <1>5, <2>1, OneNotListed DEF SendMore
<1>6. ASSUME NEW t \in Callers, PhoneWrites(t) \/ PhoneCuts(t) PROVE ListingOK'
  BY <1>6 DEF PhoneWrites, PhoneCuts, ListingOK
<1>7. ASSUME NEW t \in Callers, Forget, at' = Crossing(t) PROVE ListingOK'
  BY <1>7, CrossingMoves, IdleFits DEF Forget, ListingOK
<1>8. ASSUME NEW t \in Callers, FlushEnds(t) PROVE ListingOK'
  <2>1. CASE wrote
    BY <1>7, <1>8, <2>1 DEF FlushEnds
  <2>2. CASE ~wrote
    BY <1>1, <1>8, <2>2, EndMoves, IdleFits, OneNotListed DEF FlushEnds
  <2> QED BY <2>1, <2>2
<1>9. ASSUME NEW t \in Callers, Truncated(t) \/ Shortened(t) PROVE ListingOK'
  BY <1>7, <1>9 DEF Truncated, Shortened
<1>10. ASSUME NEW t \in Callers, Check(t) \/ Decide(t) \/ Put(t) PROVE ListingOK'
  <2>1. at'[t].step # "listed" /\ \A u \in Callers : u # t => at'[u] = at[u]
    BY <1>10, CheckMoves, DecideMoves, PutMoves, IdleFits
  <2> QED BY <1>1, <1>10, <2>1, OneNotListed DEF Check, Decide, Put
<1>11. ASSUME NEW t \in Callers, Look(t) \/ PhoneReads(t) \/ Store(t) PROVE ListingOK'
  <2>1. at'[t].step # "listed" /\ \A u \in Callers : u # t => at'[u] = at[u]
    BY <1>11, LookMoves, FetchMoves, StoreMoves
  <2> QED BY <1>1, <1>11, <2>1, OneNotListed DEF Look, PhoneReads, Store
<1>12. ASSUME NEW t \in Callers, ReadAhead(t) PROVE ListingOK'
  <2>1. at'[t].step # "listed" /\ \A u \in Callers : u # t => at'[u] = at[u] \/ at'[u].step # "listed"
    BY <1>12, AheadMoves, IdleFits
  <2> QED BY <1>1, <1>12, <2>1, OneNotListed DEF ReadAhead
<1>13. ASSUME NEW t \in Callers, PhoneLists(t) PROVE ListingOK'
  BY <1>13, ListMoves DEF PhoneLists, ListingOK
<1>14. ASSUME NEW t \in Callers, StoreListing(t) PROVE ListingOK'
  BY <1>14, ListedMoves, IdleFits DEF StoreListing, ListingOK
<1>15. ASSUME NEW t \in Callers, RequestFails(t) PROVE ListingOK'
  <2>1. at'[t].step # "listed" /\ \A u \in Callers : u # t => at'[u] = at[u]
    BY <1>15, FailMoves, IdleFits
  <2> QED BY <1>1, <1>15, <2>1, OneNotListed DEF RequestFails
<1> QED
  BY <1>2, <1>3, <1>4, <1>5, <1>6, <1>8, <1>9, <1>10, <1>11, <1>12, <1>13, <1>14, <1>15
     DEF FileNext, HandleStep

-----------------------------------------------------------------------------
(* What is on its way to the phone. *)

LEMMA Monotone ==
  ASSUME FileNext
  PROVE  (lost => lost') /\ (raced => raced') /\ (~raced' => OneSends')
<1>1. ASSUME NEW t \in Callers, HandleStep(t) PROVE lost' = lost
  BY <1>1 DEF HandleStep, TakeBuffer, PhoneWrites, SendMore, FlushEnds, Check, Decide, Put, PhoneCuts, Truncated,
     Shortened, Look, PhoneReads, Store, ReadAhead, PhoneLists, StoreListing, faulty
<1>2. ASSUME NEW t \in Callers, RequestFails(t) PROVE lost => lost'
  BY <1>2 DEF RequestFails
<1>3. ASSUME NEW t \in Threads, Begin(t) \/ BeginChange(t) PROVE lost' = lost
  BY <1>3 DEF Begin, BeginChange, Arrives, faulty
<1>4. lost => lost'
  BY <1>1, <1>2, <1>3 DEF FileNext, ListingExpires, faulty
<1>5. (raced => raced') /\ (~raced' => OneSends')
  BY DEF FileNext, OneSends, Changing
<1> QED
  BY <1>4, <1>5

NoneChanges == \A t \in Threads : ~Changing(at, t)

LEMMA StaysWhole ==
  ASSUME Whole, OneSends', UNCHANGED <<file, want, size, wbuf, woff, apart>>,
         \A u \in Threads : at'[u] = at[u] \/ (~Changing(at, u) /\ ~Changing(at, u)')
  PROVE  Whole'
<1>1. ASSUME NEW u \in Threads PROVE ChangeAt(at'[u], file, want, woff, wbuf)
  BY DEF Whole, ChangeAt, Changing
<1>2. NoneChanges' => NoneChanges
  BY DEF NoneChanges, Changing
<1> QED
  BY <1>1, <1>2 DEF Whole, NoneChanges, Changing, ChangeAt

LEMMA WholeByOne ==
  ASSUME OneSends', (apart \/ size = Len(want))', NEW t \in Threads, Changing(at, t)',
         ChangeAt(at'[t], file', want', woff', wbuf')
  PROVE  Whole'
<1>1. ASSUME NEW u \in Threads PROVE ChangeAt(at'[u], file', want', woff', wbuf')
  <2>1. CASE u = t BY <2>1
  <2>2. CASE u # t BY <2>2 DEF OneSends, Changing, ChangeAt
  <2> QED BY <2>1, <2>2
<1> QED
  BY <1>1 DEF Whole, Changing, ChangeAt

LEMMA WholeByNone ==
  ASSUME NoneChanges', OneSends', (apart \/ size = Len(want))', (want = Over(file, woff, wbuf))'
  PROVE  Whole'
  BY DEF Whole, NoneChanges, Changing, ChangeAt

LEMMA TakeWhole ==
  ASSUME FTyped, Whole, OneSends', NEW t \in Callers, TakeBuffer(t)
  PROVE  Whole'
<1> USE DEF buffer
<1>1. /\ t \in Threads /\ at[t].step = "take" /\ wbuf' = <<>> /\ UNCHANGED <<file, want, size, woff, apart>>
      /\ \A u \in Callers : u # t => at'[u] = at[u]
  BY TakeMoves DEF TakeBuffer
<1>2. Changing(at, t)' => NoneChanges
  BY <1>1 DEF OneSends, NoneChanges, Changing, Callers
<1>3. CASE wbuf = <<>> /\ ~Changing(at, t)'
  <2>1. \A u \in Threads : at'[u] = at[u] \/ (~Changing(at, u) /\ ~Changing(at, u)')
    <3>1. ~Changing(at, t) /\ ~Changing(at, t)'
      BY <1>1, <1>3 DEF Changing
    <3>2. \A u \in Threads : u # t => at'[u] = at[u]
      BY <1>1 DEF Callers
    <3> QED BY <3>1, <3>2 DEF Changing
  <2> QED BY <1>1, <1>3, <2>1, StaysWhole
<1>4. CASE wbuf = <<>> /\ Changing(at, t)'
  <2>1. want = file
    BY <1>2, <1>4 DEF Whole, NoneChanges, Over
  <2>2. at'[t].step = "cut"
    BY <1>4, TakeMoves, CallerKnown, FlushedStep DEF Changing
  <2>3. ChangeAt(at'[t], file', want', woff', wbuf')
    BY <1>1, <2>1, <2>2 DEF ChangeAt
  <2> QED BY <1>1, <1>4, <2>3, WholeByOne DEF Whole
<1>5. CASE wbuf # <<>>
  <2>1. at'[t].step = "sent" /\ at'[t].buf = wbuf /\ at'[t].off = woff
    BY <1>5, TakeMoves
  <2>2. want = Written(file, woff, wbuf)
    BY <1>2, <1>5, <2>1 DEF Whole, NoneChanges, Over, Changing
  <2>3. ChangeAt(at'[t], file', want', woff', wbuf')
    BY <1>1, <2>1, <2>2 DEF ChangeAt, Over
  <2> QED BY <1>1, <2>1, <2>3, WholeByOne DEF Whole, Changing
<1> QED
  BY <1>3, <1>4, <1>5

(* A piece is sent, then the rest. *)
PieceOf(b) == SubSeq(b, 1, First(b))
RestOf(b)  == SubSeq(b, First(b) + 1, Len(b))

LEMMA PieceThere ==
  ASSUME NEW S, 0 \in S, NEW f \in Seq(S), NEW o \in Nat, NEW b \in Seq(S), b # <<>>,
         NEW g, g = Written(f, o, PieceOf(b))
  PROVE  /\ Written(g, o, b) = Written(f, o, b) /\ Written(g, o, PieceOf(b)) = g
         /\ Written(g, o + Len(PieceOf(b)), RestOf(b)) = Written(f, o, b)
         /\ RestOf(b) = <<>> => PieceOf(b) = b
<1>1. PICK q \in Seq(S), r \in Seq(S) : q = PieceOf(b) /\ r = RestOf(b) /\ q \o r = b
  BY Pieces DEF PieceOf, RestOf
<1>2. Written(Written(f, o, q), o, q \o r) = Written(f, o, q \o r)
  BY WrittenAgain
<1>3. Written(Written(f, o, q), o + Len(q), r) = Written(f, o, q \o r)
  BY WrittenJoins
<1>4. PICK n \in Seq(S) : n = <<>> /\ q \o n = q
  BY EmptySeq, ConcatEmptySeq
<1>5. Written(Written(f, o, q), o, q \o n) = Written(f, o, q \o n)
  BY WrittenAgain
<1> QED
  BY <1>1, <1>2, <1>3, <1>4, <1>5, ConcatEmptySeq

LEMMA SendWhole ==
  ASSUME FTyped, Whole, OneSends', NEW t \in Callers, PhoneWrites(t)
  PROVE  Whole'
<1>1. /\ t \in Threads /\ at[t].step = "sent" /\ at'[t].step = "replied"
      /\ at'[t].buf = at[t].buf /\ at'[t].off = at[t].off /\ at[t].buf # <<>>
  BY SendMoves
<1>2. PICK S : S = 0 .. MaxWrites
  OBVIOUS
<1>3. 0 \in S /\ 1 .. MaxWrites \subseteq S /\ file \in Seq(S)
  BY <1>2, FileAssumption DEF FTyped, ValuesOK
<1>4. PICK f \in Seq(S), b \in Seq(S), o \in Nat : f = file /\ b = at[t].buf /\ o = at[t].off
  BY <1>3, CallerKnown, SeqMonotonic
<1>5. UNCHANGED <<want, size, wbuf, woff, apart>> /\ file' = Written(f, o, PieceOf(b))
  BY <1>4 DEF PhoneWrites, buffer, Piece, First, PieceOf
<1>6. PICK g : g = Written(f, o, PieceOf(b))
  OBVIOUS
<1>7. Written(g, o, b) = Written(f, o, b) /\ Written(g, o, PieceOf(b)) = g
  BY <1>1, <1>3, <1>4, <1>6, PieceThere
<1>8. want = Over(Written(f, o, b), woff, wbuf)
  BY <1>1, <1>4 DEF Whole, ChangeAt
<1>9. ChangeAt(at'[t], file', want', woff', wbuf')
  BY <1>1, <1>4, <1>5, <1>6, <1>7, <1>8 DEF ChangeAt, PieceOf
<1> QED
  BY <1>1, <1>5, <1>9, WholeByOne DEF Whole, Changing

LEMMA SentWhole ==
  ASSUME FTyped, Joins, Whole, OneSends', NEW t \in Callers, SendMore(t)
  PROVE  Whole'
<1>1. /\ t \in Threads /\ at[t].step = "replied" /\ at[t].buf # <<>>
      /\ \A u \in Callers : u # t => at'[u] = at[u]
  BY SentMoves
<1>2. UNCHANGED <<file, want, size, wbuf, woff, apart>>
  BY DEF SendMore, buffer
<1>3. PICK S : S = 0 .. MaxWrites
  OBVIOUS
<1>4. 0 \in S /\ 1 .. MaxWrites \subseteq S /\ file \in Seq(S)
  BY <1>3, FileAssumption DEF FTyped, ValuesOK
<1>5. PICK f \in Seq(S), b \in Seq(S), o \in Nat : f = file /\ b = at[t].buf /\ o = at[t].off
  BY <1>4, CallerKnown, SeqMonotonic
<1>6. /\ RestOf(b) = <<>> => Flushed(at[t], at'[t]) /\ at'[t].step \notin {"take", "sent", "replied"}
      /\ RestOf(b) # <<>> => /\ at'[t].step = "sent"
                             /\ at'[t].buf = RestOf(b) /\ at'[t].off = o + Len(PieceOf(b))
  BY <1>5, SentMoves DEF RestOf, PieceOf
<1>7. f = Written(f, o, PieceOf(b)) /\ want = Over(Written(f, o, b), woff, wbuf)
  BY <1>1, <1>5 DEF Whole, ChangeAt, PieceOf
<1>8. /\ Written(f, o + Len(PieceOf(b)), RestOf(b)) = Written(f, o, b)
      /\ RestOf(b) = <<>> => PieceOf(b) = b
  BY <1>1, <1>4, <1>5, <1>7, PieceThere
<1>9. CASE RestOf(b) = <<>>
  <2>1. want = Over(file, woff, wbuf)
    BY <1>5, <1>7, <1>8, <1>9
  <2>2. CASE Changing(at, t)'
    <3>1. at'[t].step = "cut"
      BY <1>6, <1>9, <2>2, CallerKnown, FlushedStep DEF Changing
    <3>2. at[t].then = "cut" /\ at[t].op \in Ops
      BY <1>6, <1>9, <3>1, IdleFits, CallerKnown DEF Flushed, Calling
    <3>3. at[t].op = "truncate"
      BY <3>2, CallerKnown DEF Fits, ThenOf, Ops
    <3>4. wbuf = <<>>
      BY <1>1, <3>3 DEF Joins
    <3>5. ChangeAt(at'[t], file', want', woff', wbuf')
      BY <1>2, <2>1, <3>1, <3>4 DEF ChangeAt, Over
    <3> QED BY <1>1, <1>2, <2>2, <3>5, WholeByOne DEF Whole
  <2>3. CASE ~Changing(at, t)'
    <3>1. \A u \in Threads : u # t => at'[u] = at[u]
      BY <1>1 DEF Callers
    <3>2. NoneChanges'
      BY <1>1, <2>3, <3>1 DEF NoneChanges, Whole, OneSends, Changing
    <3> QED BY <1>2, <2>1, <3>2, WholeByNone DEF Whole
  <2> QED BY <2>2, <2>3
<1>10. CASE RestOf(b) # <<>>
  <2>1. ChangeAt(at'[t], file', want', woff', wbuf')
    BY <1>2, <1>5, <1>6, <1>7, <1>8, <1>10 DEF ChangeAt
  <2> QED BY <1>1, <1>2, <1>6, <1>10, <2>1, WholeByOne DEF Whole, Changing
<1> QED
  BY <1>9, <1>10

(* What is put into the buffer is written after what is there. *)
LEMMA PutAfter ==
  ASSUME NEW S, 0 \in S, NEW f \in Seq(S), NEW o \in Nat, NEW b \in Seq(S), NEW d \in Seq(S), d # <<>>,
         NEW p \in Nat, b # <<>> => p = o + Len(b)
  PROVE  Written(Over(f, o, b), p, d) = Over(f, IF b = <<>> THEN p ELSE o, b \o d)
<1>1. CASE b = <<>>
  <2>1. b \o d = d
    BY <1>1, ConcatEmptySeq
  <2> QED BY <1>1, <2>1 DEF Over
<1>2. CASE b # <<>>
  <2>1. Written(Written(f, o, b), o + Len(b), d) = Written(f, o, b \o d)
    BY WrittenJoins
  <2>2. b \o d # <<>>
    <3>1. Len(b) \in Nat \ {0} /\ Len(d) \in Nat /\ Len(b \o d) = Len(b) + Len(d)
      BY <1>2, EmptySeq, LenProperties, ConcatProperties
    <3>2. Len(b \o d) # 0
      BY <3>1
    <3> QED BY <3>2, EmptySeq
  <2> QED BY <1>2, <2>1, <2>2 DEF Over
<1> QED
  BY <1>1, <1>2

LEMMA PutWhole ==
  ASSUME FTyped, OneChange, Joins, Whole, OneSends', NEW t \in Callers, Put(t)
  PROVE  Whole'
<1>1. /\ t \in Threads /\ at[t].op = "write" /\ at[t].step = "put"
      /\ at[t].data \in Seq(1 .. MaxWrites) /\ at[t].data # <<>>
      /\ \A u \in Callers : u # t => at'[u] = at[u]
  BY PutMoves
<1>2. at'[t] = Idle \/ at'[t].step = "take"
  BY PutMoves
<1>3. ~Changing(at, t) /\ ~Changing(at, t)'
  BY <1>1, <1>2, IdleFits DEF Changing
<1>4. PICK S : S = 0 .. MaxWrites
  OBVIOUS
<1>5. 0 \in S /\ 1 .. MaxWrites \subseteq S /\ file \in Seq(S) /\ want \in Seq(S)
  BY <1>4, FileAssumption DEF FTyped, ValuesOK
<1>6. PICK b \in Seq(S), d \in Seq(S), o \in Nat, p \in Nat :
        b = wbuf /\ d = at[t].data /\ o = woff /\ p = at[t].pos
  BY <1>1, <1>5, CallerKnown, SeqMonotonic DEF FTyped, ValuesOK
<1>7. d # <<>> /\ (b # <<>> => p = o + Len(b))
  BY <1>1, <1>6 DEF Joins
<1>8. PICK w \in Nat : w = IF b = <<>> THEN p ELSE o
  OBVIOUS
<1>9. /\ woff' = w /\ wbuf' = b \o d /\ want' = Written(want, p, d) /\ file' = file /\ apart' = apart
      /\ size' = IF size > p + Len(d) THEN size ELSE p + Len(d)
  BY <1>6, <1>8 DEF Put
<1>10. \A f \in Seq(S) : want = Over(f, woff, wbuf) => want' = Over(f, woff', wbuf')
  <2> SUFFICES ASSUME NEW f \in Seq(S), want = Over(f, woff, wbuf)
               PROVE  want' = Over(f, woff', wbuf')
    OBVIOUS
  <2>1. Written(Over(f, o, b), p, d) = Over(f, IF b = <<>> THEN p ELSE o, b \o d)
    BY <1>5, <1>7, PutAfter
  <2> QED BY <1>6, <1>8, <1>9, <2>1
<1>11. apart' \/ size' = Len(want')
  <2>1. Len(want') = Larger(Len(want), p + Len(d))
    <3>1. PICK v \in Seq(S) : v = want
      BY <1>5
    <3>2. Len(Written(v, p, d)) = Larger(Len(v), p + Len(d))
      BY <1>5, WrittenCells
    <3> QED BY <1>9, <3>1, <3>2
  <2> QED BY <1>9, <2>1 DEF Whole, Larger
<1>12. ASSUME NEW u \in Threads, Changing(at, u)' PROVE ChangeAt(at'[u], file', want', woff', wbuf')
  <2>1. u # t /\ at'[u] = at[u] /\ Changing(at, u)
    BY <1>1, <1>3, <1>12 DEF Callers, Changing
  <2>2. Fits(at[u]) /\ at[u].op \notin {"write", "truncate", "shorten"}
    BY <1>1, <2>1, CallerKnown DEF OneChange, Changes, Callers
  <2>3. at[u].step \in {"sent", "replied"}
    BY <2>1, <2>2, ByStep DEF Changing, Callers
  <2>4. PICK f \in Seq(S) : f = Written(file, at[u].off, at[u].buf)
    <3>1. at[u].buf \in Seq(S) /\ at[u].off \in Nat
      BY <1>5, CallerKnown, SeqMonotonic DEF Callers
    <3> QED BY <1>5, <3>1, WrittenCells
  <2>5. want' = Over(f, woff', wbuf')
    BY <1>10, <2>3, <2>4 DEF Whole, ChangeAt
  <2> QED BY <1>9, <2>1, <2>3, <2>4, <2>5 DEF Whole, ChangeAt
<1>13. CASE NoneChanges'
  <2>1. NoneChanges
    BY <1>1, <1>3, <1>13 DEF NoneChanges, Changing, Callers
  <2>2. want' = Over(file, woff', wbuf')
    BY <1>5, <1>10, <2>1 DEF Whole, NoneChanges
  <2> QED BY <1>9, <1>11, <1>13, <2>2, WholeByNone
<1>14. CASE ~NoneChanges'
  <2>1. PICK u \in Threads : Changing(at, u)'
    BY <1>14 DEF NoneChanges
  <2> QED BY <1>11, <1>12, <2>1, WholeByOne
<1> QED
  BY <1>13, <1>14

LEMMA CutsWhole ==
  ASSUME FTyped, Whole, OneSends', NEW t \in Callers, PhoneCuts(t)
  PROVE  Whole'
<1>1. /\ t \in Threads /\ at[t].step = "cut" /\ at'[t].step = "shortened" /\ at'[t].pos = at[t].pos
  BY CutMoves DEF Same
<1>2. UNCHANGED <<want, size, wbuf, woff, apart>> /\ file' = Resized(file, at[t].pos)
  BY DEF PhoneCuts, buffer
<1>3. want = file
  BY <1>1 DEF Whole, ChangeAt
<1>4. ChangeAt(at'[t], file', want', woff', wbuf')
  BY <1>1, <1>2, <1>3 DEF ChangeAt
<1> QED
  BY <1>1, <1>2, <1>4, WholeByOne DEF Whole, Changing

LEMMA CutEnds ==
  ASSUME FTyped, Whole, NEW t \in Threads, at[t].step = "shortened", at' = Crossing(t)
  PROVE  NoneChanges'
<1>1. at'[t] = Idle
  BY CrossingMoves DEF Callers
<1>2. ASSUME NEW u \in Threads, u # t PROVE ~Changing(at, u)'
  <2>1. ~Changing(at, u)
    BY <1>2 DEF Whole, OneSends, Changing
  <2>2. at'[u] = at[u] \/ at'[u].step = "listed"
    BY <1>2, CrossingMoves DEF Callers
  <2> QED BY <2>1, <2>2 DEF Changing
<1>3. ~Changing(at, t)'
  BY <1>1, IdleFits DEF Changing
<1> QED
  BY <1>2, <1>3 DEF NoneChanges

LEMMA TruncatedWhole ==
  ASSUME FTyped, Joins, Whole, OneSends', NEW t \in Callers, Truncated(t)
  PROVE  Whole'
<1>1. t \in Threads /\ at[t].op = "truncate" /\ at[t].step = "shortened" /\ at'[t] = Idle /\ at' = Crossing(t)
  BY CutEndMoves DEF Truncated
<1>2. /\ UNCHANGED <<file, wbuf, woff>> /\ size' = at[t].pos /\ want' = Resized(want, at[t].pos)
  BY DEF Truncated
<1>3. file = Resized(want, at[t].pos) /\ wbuf = <<>>
  BY <1>1 DEF Whole, ChangeAt, Joins
<1>4. NoneChanges'
  BY <1>1, CutEnds
<1>5. size' = Len(want')
  <2>1. 0 \in 0 .. MaxWrites /\ want \in Seq(0 .. MaxWrites) /\ at[t].pos \in Nat
    BY CallerKnown, FileAssumption DEF FTyped, ValuesOK
  <2> QED BY <1>2, <2>1, ResizedCells
<1> QED
  BY <1>2, <1>3, <1>4, <1>5, WholeByNone DEF Over

(* A cut by path that comes finds nothing gathered and nothing on its way; *)
(* once it is told, the handle's size may be another.                      *)
LEMMA ShortComes ==
  ASSUME FTyped, Whole, OneSends', NEW t \in Threads, BeginChange(t), at'[t].op = "shorten"
  PROVE  Whole'
<1>1. /\ at[t] = Idle /\ at'[t].step = "cut" /\ \A u \in Threads : u # t => at'[u] = at[u]
      /\ UNCHANGED <<file, want, size, wbuf, woff, apart>>
  BY ChangeArrives DEF Callers, Rest
<1>2. wbuf = <<>>
  BY <1>1 DEF OneSends
<1>3. NoneChanges
  <2>1. Changing(at, t)'
    BY <1>1 DEF Changing
  <2>2. ASSUME NEW u \in Threads, u # t PROVE ~Changing(at, u)
    BY <1>1, <2>1, <2>2 DEF OneSends, Changing
  <2>3. ~Changing(at, t)
    BY <1>1, IdleFits DEF Changing
  <2> QED BY <2>2, <2>3 DEF NoneChanges
<1>4. want = file
  BY <1>2, <1>3 DEF Whole, NoneChanges, Over
<1>5. ChangeAt(at'[t], file', want', woff', wbuf')
  BY <1>1, <1>4 DEF ChangeAt
<1> QED
  BY <1>1, <1>5, WholeByOne DEF Whole, Changing

LEMMA ShortenedWhole ==
  ASSUME FTyped, Whole, OneSends', NEW t \in Callers, Shortened(t)
  PROVE  Whole'
<1>1. t \in Threads /\ at[t].op = "shorten" /\ at[t].step = "shortened" /\ at'[t] = Idle /\ at' = Crossing(t)
  BY ShortMoves DEF Shortened
<1>2. UNCHANGED <<file, wbuf, woff>> /\ apart' /\ want' = Resized(want, at[t].pos)
  BY DEF Shortened
<1>3. file = Resized(want, at[t].pos) /\ wbuf = <<>>
  BY <1>1 DEF Whole, ChangeAt, OneSends
<1>4. NoneChanges'
  BY <1>1, CutEnds
<1> QED
  BY <1>2, <1>3, <1>4, WholeByNone DEF Over

(* The other steps leave the file, its buffer and who changes it alone. *)
Aside == /\ UNCHANGED <<file, want, size, wbuf, woff, apart>>
         /\ \A u \in Threads : at'[u] = at[u] \/ (~Changing(at, u) /\ ~Changing(at, u)')

LEMMA OneAside ==
  ASSUME FTyped, NEW t \in Callers, UNCHANGED <<file, want, size, wbuf, woff, apart>>,
         \A u \in Callers : u # t => at'[u] = at[u],
         ~Changing(at, t), ~Changing(at, t)'
  PROVE  Aside
<1> SUFFICES ASSUME NEW u \in Threads, at'[u] # at[u] PROVE ~Changing(at, u) /\ ~Changing(at, u)'
  BY DEF Aside
<1>1. u = t
  BY DEF Callers
<1> QED BY <1>1

LEMMA StepsAside ==
  ASSUME FTyped, NEW t \in Callers,
         \/ FlushEnds(t) \/ Check(t) \/ Decide(t) \/ Look(t) \/ PhoneReads(t) \/ Store(t)
         \/ ReadAhead(t) \/ PhoneLists(t) \/ StoreListing(t)
  PROVE  Aside
<1> USE DEF buffer
<1>1. CASE FlushEnds(t)
  <2>1. UNCHANGED <<file, want, size, wbuf, woff, apart>> /\ at[t].step = "forget" /\ at'[t] = Idle
    BY <1>1, EndMoves DEF FlushEnds
  <2>2. ~Changing(at, t) /\ ~Changing(at, t)'
    BY <2>1, IdleFits DEF Changing
  <2>3. CASE at' = Crossing(t)
    <3> SUFFICES ASSUME NEW u \in Threads, at'[u] # at[u] PROVE ~Changing(at, u) /\ ~Changing(at, u)'
      BY <2>1 DEF Aside
    <3>1. CASE u = t BY <2>2, <3>1
    <3>2. CASE u # t BY <2>3, <3>2, CrossingMoves DEF Changing, Callers
    <3> QED BY <3>1, <3>2
  <2>4. CASE \A u \in Callers : u # t => at'[u] = at[u]
    BY <2>1, <2>2, <2>4, OneAside
  <2> QED BY <1>1, <2>3, <2>4, EndMoves
<1>2. CASE Check(t) \/ Decide(t)
  <2>1. /\ UNCHANGED <<file, want, size, wbuf, woff, apart>> /\ at[t].step \in {"check", "decide"}
        /\ at'[t].step \in {"decide", "take", "put"} /\ \A u \in Callers : u # t => at'[u] = at[u]
    BY <1>2, CheckMoves, DecideMoves DEF Check, Decide
  <2>2. ~Changing(at, t) /\ ~Changing(at, t)'
    BY <2>1 DEF Changing
  <2> QED BY <2>1, <2>2, OneAside
<1>3. CASE Look(t) \/ PhoneReads(t) \/ Store(t)
  <2>1. /\ UNCHANGED <<file, want, size, wbuf, woff, apart>> /\ at[t].step \in {"look", "fetch", "fetched"}
        /\ at'[t].step \in {"next", "fetch", "fetched"} /\ \A u \in Callers : u # t => at'[u] = at[u]
    BY <1>3, LookMoves, FetchMoves, StoreMoves DEF Look, PhoneReads, Store
  <2>2. ~Changing(at, t) /\ ~Changing(at, t)'
    BY <2>1 DEF Changing
  <2> QED BY <2>1, <2>2, OneAside
<1>4. CASE ReadAhead(t)
  <2>1. UNCHANGED <<file, want, size, wbuf, woff, apart>> /\ at[t].step = "next" /\ at'[t] = Idle
    BY <1>4, AheadMoves DEF ReadAhead
  <2> SUFFICES ASSUME NEW u \in Threads, at'[u] # at[u] PROVE ~Changing(at, u) /\ ~Changing(at, u)'
    BY <2>1 DEF Aside
  <2>2. u \notin Aheads
    BY FileAssumption
  <2>3. u = t
    BY <1>4, <2>2, AheadMoves DEF Callers
  <2> QED BY <2>1, <2>3, IdleFits DEF Changing
<1>5. CASE PhoneLists(t) \/ StoreListing(t)
  <2>1. /\ UNCHANGED <<file, want, size, wbuf, woff, apart>> /\ at[t].step \in {"list", "listed"}
        /\ at'[t].step \in {"listed", "idle"} /\ \A u \in Callers : u # t => at'[u] = at[u]
    BY <1>5, ListMoves, ListedMoves, IdleFits DEF PhoneLists, StoreListing
  <2>2. ~Changing(at, t) /\ ~Changing(at, t)'
    BY <2>1 DEF Changing
  <2> QED BY <2>1, <2>2, OneAside
<1> QED
  BY <1>1, <1>2, <1>3, <1>4, <1>5

LEMMA ArrivalsAside ==
  ASSUME FTyped, \/ \E t \in Threads : Begin(t) \/ (BeginChange(t) /\ at'[t].op # "shorten")
                 \/ ListingExpires
  PROVE  Aside
<1>1. ASSUME NEW t \in Threads, Begin(t) \/ (BeginChange(t) /\ at'[t].op # "shorten") PROVE Aside
  <2>1. /\ t \in Callers /\ at[t] = Idle /\ at'[t].step \in {"take", "list", "check"} /\ Rest
        /\ \A u \in Callers : u # t => at'[u] = at[u]
    BY <1>1, ReadArrives, ChangeArrives DEF Callers
  <2>2. ~Changing(at, t) /\ ~Changing(at, t)'
    BY <2>1, IdleFits DEF Changing
  <2> QED BY <2>1, <2>2, OneAside DEF Rest
<1>2. CASE ListingExpires
  BY <1>2 DEF ListingExpires, Aside, buffer
<1> QED
  BY <1>1, <1>2

LEMMA FailsAside ==
  ASSUME FTyped, NEW t \in Callers, RequestFails(t), ~lost'
  PROVE  Aside /\ ~Changing(at, t)
<1>1. ~Changing(at, t) /\ UNCHANGED <<file, want, size, wbuf, woff, apart>>
  BY DEF RequestFails, buffer
<1>2. (\A u \in Callers : u # t => at'[u] = at[u]) /\ ~Changing(at, t)'
  BY FailMoves, IdleFits DEF Changing
<1> QED
  BY <1>1, <1>2, OneAside

LEMMA UnderwayKeeps ==
  ASSUME FTyped, OneChange, Joins, Underway, FileNext
  PROVE  Underway'
<1> SUFFICES ASSUME ~lost', ~raced' PROVE Whole'
  BY DEF Underway
<1>1. Whole /\ OneSends'
  BY Monotone DEF Underway
<1>2. CASE Aside
  BY <1>1, <1>2, StaysWhole DEF Aside
<1>3. ASSUME NEW t \in Callers, HandleStep(t) PROVE Whole'
  BY <1>1, <1>2, <1>3, StepsAside, TakeWhole, SendWhole, SentWhole, PutWhole, CutsWhole, TruncatedWhole,
     ShortenedWhole DEF HandleStep
<1>4. ASSUME NEW t \in Callers, RequestFails(t) PROVE Whole'
  BY <1>2, <1>4, FailsAside
<1>5. ASSUME NEW t \in Threads, BeginChange(t) PROVE Whole'
  BY <1>1, <1>2, <1>5, ShortComes, ArrivalsAside
<1> QED
  BY <1>2, <1>3, <1>4, <1>5, ArrivalsAside DEF FileNext

-----------------------------------------------------------------------------
(* What the cache serves. *)

LEMMA StaysGood ==
  ASSUME Good, UNCHANGED <<want, blocks, clouded>>, Cutting => Cutting',
         \A u \in Callers : Clear(u)' =>
           /\ Clear(u) /\ at'[u].pos = at[u].pos /\ at'[u].data = at[u].data /\ at'[u].step = at[u].step
           /\ wbuf' = <<>> /\ \A v \in Threads : ~Sending(v)'
  PROVE  Good'
<1>1. ~Cutting' => \A i \in DOMAIN blocks' \ clouded' : blocks'[i] = BlockOf(want', i)
  BY DEF Good
<1>2. ASSUME NEW t \in Callers, Clear(t)'
      PROVE  /\ wbuf' = <<>> /\ \A u \in Threads : ~Sending(u)'
             /\ ~Cutting' /\ at'[t].step = "fetched" => at'[t].data = BlockOf(want', Blk(at'[t].pos))
  BY <1>2 DEF Good
<1> QED
  BY <1>1, <1>2 DEF Good

LEMMA SameClear ==
  ASSUME FetchesRest, UNCHANGED clouded, NEW u \in Callers, Clear(u)'
  PROVE  Clear(u) /\ at'[u].pos = at[u].pos /\ at'[u].data = at[u].data /\ at'[u].step = at[u].step
  BY DEF FetchesRest, SameFetch, Clear, Fetching

LEMMA DroppedGood ==
  ASSUME NEW t, FetchesOK, FetchesRest, DropBlocks(t)
  PROVE  Good'
  BY DEF FetchesOK, FetchesRest, SameFetch, DropBlocks, Clear, Fetching, Good

LEMMA AsideSame ==
  ASSUME Aside
  PROVE  /\ Cutting' <=> Cutting
         /\ \A u \in Threads : Sending(u)' <=> Sending(u)
  BY DEF Aside, Cutting, Sending, Changing

LEMMA ClearNone ==
  ASSUME Good, NEW u \in Callers, Clear(u)
  PROVE  wbuf = <<>> /\ \A v \in Threads : ~Sending(v)
  BY DEF Good

LEMMA AsideGood ==
  ASSUME Good, Aside, UNCHANGED <<blocks, clouded>>,
         \A u \in Callers : Clear(u)' =>
           Clear(u) /\ at'[u].pos = at[u].pos /\ at'[u].data = at[u].data /\ at'[u].step = at[u].step
  PROVE  Good'
<1>1. UNCHANGED <<want, wbuf>>
  BY DEF Aside
<1>2. \A u \in Callers : Clear(u) => wbuf' = <<>> /\ \A v \in Threads : ~Sending(v)'
  BY <1>1, ClearNone, AsideSame
<1> QED
  BY <1>1, <1>2, AsideSame, StaysGood

LEMMA SendsGood ==
  ASSUME FTyped, Good, NEW t \in Callers,
         TakeBuffer(t) \/ PhoneWrites(t) \/ SendMore(t) \/ PhoneCuts(t)
  PROVE  Good'
<1>1. FetchesRest
  BY QuietFetches
<1>2. /\ UNCHANGED <<want, blocks, clouded>> /\ (wbuf' = wbuf \/ wbuf' = <<>>)
      /\ t \in Threads /\ \A u \in Callers : u # t => at'[u] = at[u]
  BY TakeMoves, SendMoves, SentMoves, CutMoves DEF TakeBuffer, PhoneWrites, SendMore, PhoneCuts, cache, buffer
<1>3. at[t].step \in {"take", "sent", "replied"} \/ at'[t].step = "shortened"
  BY TakeMoves, SendMoves, SentMoves, CutMoves
<1>4. Cutting => Cutting'
  BY <1>2, <1>3 DEF Cutting, Callers
<1>5. wbuf = <<>> /\ ~Sending(t) => ~Sending(t)'
  <2>1. CASE TakeBuffer(t) BY <2>1, TakeMoves DEF Sending
  <2>2. CASE PhoneWrites(t) \/ SendMore(t) BY <2>2, SendMoves, SentMoves DEF Sending
  <2>3. CASE PhoneCuts(t) BY <2>3, CutMoves DEF Sending
  <2> QED BY <2>1, <2>2, <2>3
<1>6. ASSUME NEW u \in Callers, Clear(u) PROVE wbuf' = <<>> /\ \A v \in Threads : ~Sending(v)'
  <2>1. wbuf = <<>> /\ \A v \in Threads : ~Sending(v)
    BY <1>6, ClearNone
  <2>2. \A v \in Threads : v # t => at'[v] = at[v]
    BY <1>2 DEF Callers
  <2>3. ~Sending(t)'
    BY <1>2, <1>5, <2>1
  <2>4. ASSUME NEW v \in Threads PROVE ~Sending(v)'
    <3>1. CASE v = t BY <2>3, <3>1
    <3>2. CASE v # t BY <2>1, <2>2, <3>2 DEF Sending
    <3> QED BY <3>1, <3>2
  <2> QED BY <1>2, <2>1, <2>4
<1> QED
  BY <1>1, <1>2, <1>4, <1>6, SameClear, StaysGood

LEMMA LookGood ==
  ASSUME FTyped, FetchesOK, Good, NEW t \in Callers, Look(t)
  PROVE  Good'
<1>1. Aside
  BY StepsAside
<1>2. CASE Blk(at[t].pos) \in DOMAIN blocks
  <2>1. FetchesRest /\ UNCHANGED <<blocks, clouded>>
    BY <1>2, LookMoves, OneQuiet DEF Look, cache
  <2> QED BY <1>1, <2>1, SameClear, AsideGood
<1>3. CASE Blk(at[t].pos) \notin DOMAIN blocks
  <2>1. PICK i : i = Blk(at[t].pos)
    OBVIOUS
  <2>2. /\ \A u \in Callers : u # t => at'[u] = at[u]
        /\ at[t].step = "look" /\ at'[t].step = "fetch" /\ at'[t].pos = at[t].pos
    BY <1>3, LookMoves
  <2>3. /\ i \notin inflight /\ i \notin DOMAIN blocks /\ blocks' = blocks
        /\ clouded' = IF Unsent THEN clouded \union {i} ELSE clouded \ {i}
    BY <1>3, <2>1 DEF Look
  <2>4. UNCHANGED <<want, wbuf>>
    BY <1>1 DEF Aside
  <2>5. ~Cutting' => \A j \in DOMAIN blocks' \ clouded' : blocks'[j] = BlockOf(want', j)
    BY <1>1, <2>3, <2>4, AsideSame DEF Good
  <2>6. ASSUME NEW u \in Callers, Clear(u)'
        PROVE  /\ wbuf' = <<>> /\ \A v \in Threads : ~Sending(v)'
               /\ ~Cutting' /\ at'[u].step = "fetched" => at'[u].data = BlockOf(want', Blk(at'[u].pos))
    <3>1. CASE u = t
      <4>1. ~Unsent
        BY <2>1, <2>2, <2>3, <2>6, <3>1 DEF Clear
      <4>2. wbuf = <<>> /\ \A v \in Threads : ~Sending(v)
        BY <4>1 DEF Unsent, Sending, Changing
      <4> QED BY <1>1, <2>2, <2>4, <3>1, <4>2, AsideSame
    <3>2. CASE u # t
      <4>1. at'[u] = at[u] /\ Fetching(u)
        BY <2>2, <2>6, <3>2 DEF Clear, Fetching
      <4>2. Blk(at[u].pos) # i
        BY <2>3, <4>1 DEF FetchesOK
      <4>3. Clear(u)
        BY <2>3, <2>6, <4>1, <4>2 DEF Clear
      <4> QED BY <1>1, <2>4, <4>1, <4>3, AsideSame DEF Good
    <3> QED BY <3>1, <3>2
  <2> QED BY <2>5, <2>6 DEF Good
<1> QED
  BY <1>2, <1>3

LEMMA FetchGood ==
  ASSUME FTyped, Whole, Good, NEW t \in Callers, PhoneReads(t)
  PROVE  Good'
<1>1. Aside /\ UNCHANGED <<blocks, clouded>>
  BY StepsAside DEF PhoneReads, cache
<1>2. /\ \A u \in Callers : u # t => at'[u] = at[u]
      /\ at[t].step = "fetch" /\ at'[t].step = "fetched" /\ at'[t].pos = at[t].pos
      /\ at'[t].data = BlockOf(file, Blk(at[t].pos))
  BY FetchMoves
<1>3. UNCHANGED <<want, wbuf>>
  BY <1>1 DEF Aside
<1>4. ~Cutting' => \A j \in DOMAIN blocks' \ clouded' : blocks'[j] = BlockOf(want', j)
  BY <1>1, <1>3, AsideSame DEF Good
<1>5. ASSUME NEW u \in Callers, Clear(u)'
      PROVE  /\ wbuf' = <<>> /\ \A v \in Threads : ~Sending(v)'
             /\ ~Cutting' /\ at'[u].step = "fetched" => at'[u].data = BlockOf(want', Blk(at'[u].pos))
  <2>1. Clear(u) /\ at'[u].pos = at[u].pos
    BY <1>1, <1>2, <1>5 DEF Clear, Fetching
  <2>2. wbuf' = <<>> /\ \A v \in Threads : ~Sending(v)'
    BY <1>1, <1>3, <2>1, ClearNone, AsideSame
  <2>3. CASE u = t
    <3>1. ASSUME ~Cutting' PROVE want = file
      <4>1. wbuf = <<>> /\ \A v \in Threads : ~Sending(v)
        BY <2>1, ClearNone
      <4>2. \A v \in Threads : ~Changing(at, v)
        BY <1>1, <3>1, <4>1, AsideSame DEF Changing, Sending, Cutting
      <4> QED BY <4>1, <4>2 DEF Whole, Over
    <3> QED BY <1>2, <1>3, <2>2, <2>3, <3>1
  <2>4. CASE u # t
    BY <1>1, <1>2, <1>3, <2>1, <2>2, <2>4, AsideSame DEF Good
  <2> QED BY <2>3, <2>4
<1> QED
  BY <1>4, <1>5 DEF Good

LEMMA StoreGood ==
  ASSUME FTyped, FetchesOK, CacheOK, Good, NEW t \in Callers, Store(t)
  PROVE  Good'
<1>1. Aside /\ clouded' = clouded
  BY StepsAside DEF Store
<1>2. /\ \A u \in Callers : u # t => at'[u] = at[u]
      /\ at[t].step = "fetched" /\ at'[t].step = "next"
  BY StoreMoves
<1>3. UNCHANGED <<want, wbuf>>
  BY <1>1 DEF Aside
<1>4. PICK i : i = Blk(at[t].pos)
  OBVIOUS
<1>5. /\ blocks' = [j \in ToSet(Kept) \union {i} |-> IF j = i THEN at[t].data ELSE blocks[j]]
      /\ ToSet(Kept) \subseteq DOMAIN blocks
  BY <1>4, KeptOrder DEF Store, Kept, CacheOK
<1>6. ASSUME ~Cutting', NEW j \in DOMAIN blocks' \ clouded' PROVE blocks'[j] = BlockOf(want', j)
  <2>1. ~Cutting
    BY <1>1, <1>6, AsideSame
  <2>2. CASE j = i
    <3>1. Clear(t)
      BY <1>1, <1>2, <1>4, <1>6, <2>2 DEF Clear, Fetching
    <3> QED BY <1>2, <1>3, <1>4, <1>5, <2>1, <2>2, <3>1 DEF Good
  <2>3. CASE j # i
    <3>1. j \in DOMAIN blocks \ clouded /\ blocks'[j] = blocks[j]
      BY <1>1, <1>5, <1>6, <2>3
    <3> QED BY <1>3, <2>1, <3>1 DEF Good
  <2> QED BY <2>2, <2>3
<1>7. ASSUME NEW u \in Callers, Clear(u)'
      PROVE  /\ wbuf' = <<>> /\ \A v \in Threads : ~Sending(v)'
             /\ ~Cutting' /\ at'[u].step = "fetched" => at'[u].data = BlockOf(want', Blk(at'[u].pos))
  <2>1. Clear(u) /\ at'[u] = at[u]
    BY <1>1, <1>2, <1>7 DEF Clear, Fetching
  <2> QED BY <1>1, <1>3, <2>1, AsideSame DEF Good
<1> QED
  BY <1>6, <1>7 DEF Good

LEMMA FailGood ==
  ASSUME FTyped, Good, NEW t \in Callers, RequestFails(t), ~lost'
  PROVE  Good'
<1>1. Aside /\ UNCHANGED <<blocks, clouded>>
  BY FailsAside DEF RequestFails
<1>2. (\A u \in Callers : u # t => at'[u] = at[u]) /\ ~Fetching(t)'
  BY FailMoves, IdleFits DEF Fetching
<1>3. ASSUME NEW u \in Callers, Clear(u)' PROVE Clear(u) /\ at'[u] = at[u]
  BY <1>1, <1>2, <1>3 DEF Clear, Fetching
<1> QED
  BY <1>1, <1>3, AsideGood

LEMMA ShortGood ==
  ASSUME FTyped, FetchesOK, NEW t \in Callers, Shortened(t)
  PROVE  Good'
<1>1. FetchesRest
  BY QuietFetches
<1>2. blocks' = blocks /\ clouded' = clouded \union DOMAIN blocks \union inflight
  BY DEF Shortened
<1>3. \A u \in Callers : ~Clear(u)'
  BY <1>1, <1>2 DEF FetchesOK, FetchesRest, SameFetch, Clear, Fetching
<1> QED
  BY <1>2, <1>3 DEF Good

LEMMA ShortComesGood ==
  ASSUME FTyped, Good, OneSends', NEW t \in Threads, BeginChange(t), at'[t].op = "shorten"
  PROVE  Good'
<1>1. FetchesRest
  BY QuietArrivals
<1>2. /\ UNCHANGED <<want, wbuf, blocks, clouded>>
      /\ at'[t].step = "cut" /\ \A u \in Threads : u # t => at'[u] = at[u]
  BY ChangeArrives DEF Callers, Rest
<1>3. Cutting'
  BY <1>2 DEF Cutting
<1>4. ASSUME NEW u \in Callers, Clear(u) PROVE wbuf' = <<>> /\ \A v \in Threads : ~Sending(v)'
  BY <1>2, <1>4, ClearNone DEF Sending
<1> QED
  BY <1>1, <1>2, <1>3, <1>4, SameClear, StaysGood

LEMMA ServedKeeps ==
  ASSUME FTyped, FetchesOK, CacheOK, Underway, Served, FileNext
  PROVE  Served'
<1> USE DEF cache
<1> SUFFICES ASSUME ~lost', ~raced' PROVE Good'
  BY DEF Served
<1>1. Whole /\ Good /\ OneSends'
  BY Monotone DEF Underway, Served
<1>2. CASE Aside /\ FetchesRest /\ UNCHANGED <<blocks, clouded>>
  BY <1>1, <1>2, SameClear, AsideGood
<1>3. ASSUME NEW t \in Callers,
             \/ FlushEnds(t) \/ Check(t) \/ Decide(t) \/ ReadAhead(t) \/ PhoneLists(t) \/ StoreListing(t)
      PROVE  Good'
  <2>1. UNCHANGED <<blocks, clouded>>
    BY <1>3 DEF FlushEnds, Check, Decide, ReadAhead, PhoneLists, StoreListing
  <2> QED BY <1>2, <1>3, <2>1, StepsAside, QuietFetches
<1>4. ASSUME NEW t \in Callers, Put(t) \/ Truncated(t) PROVE Good'
  <2>1. DropBlocks(t) /\ FetchesRest
    BY <1>4, QuietFetches DEF Put, Truncated
  <2> QED BY <2>1, DroppedGood
<1>5. ASSUME NEW t \in Callers, HandleStep(t) PROVE Good'
  BY <1>1, <1>3, <1>4, <1>5, SendsGood, LookGood, FetchGood, StoreGood, ShortGood DEF HandleStep
<1>6. ASSUME NEW t \in Callers, RequestFails(t) PROVE Good'
  BY <1>1, <1>6, FailGood
<1>7. ASSUME \/ \E t \in Threads : Begin(t) \/ (BeginChange(t) /\ at'[t].op # "shorten")
             \/ ListingExpires
      PROVE  Good'
  <2>1. UNCHANGED <<blocks, clouded>>
    BY <1>7 DEF Begin, BeginChange, Arrives, ListingExpires
  <2> QED BY <1>2, <1>7, <2>1, ArrivalsAside, QuietArrivals
<1>8. ASSUME NEW t \in Threads, BeginChange(t), at'[t].op = "shorten" PROVE Good'
  BY <1>1, <1>8, ShortComesGood
<1> QED
  BY <1>5, <1>6, <1>7, <1>8 DEF FileNext

-----------------------------------------------------------------------------
LEMMA FileInitInv == FileInit => FInv
<1> SUFFICES ASSUME FileInit PROVE FInv
  OBVIOUS
<1>1. /\ file = [k \in 1 .. Cells |-> 0] /\ want = file /\ size = Cells /\ wbuf = <<>> /\ woff = 0
      /\ blocks = <<>> /\ order = <<>> /\ inflight = {} /\ clouded = {} /\ dir = -1
      /\ at = [t \in Callers |-> Idle] /\ writes = 0 /\ apart = FALSE
  BY DEF FileInit
<1>2. file \in Seq(0 .. MaxWrites) /\ Len(file) = Cells /\ Cells \in Nat
  <2>1. file \in [1 .. Cells -> 0 .. MaxWrites]
    BY <1>1, FileAssumption
  <2> QED BY <2>1, FileAssumption, MadeSeq
<1>3. DOMAIN blocks = {} /\ DOMAIN order = {} /\ order \in Seq(Nat) /\ Len(order) = 0 /\ wbuf \in Seq(1 .. MaxWrites)
  BY <1>1, EmptySeq
<1>4. FTyped
  <2>1. ValuesOK
    BY <1>1, <1>2, <1>3, FileAssumption DEF ValuesOK
  <2>2. CallersOK
    BY <1>1, IdleFits, FileAssumption DEF CallersOK, Callers, Fits
  <2> QED BY <2>1, <2>2 DEF FTyped
<1>5. \A t \in Callers : at[t].step = "idle" /\ at[t].op = "none"
  BY <1>1, IdleFits
<1>6. FetchesOK
  BY <1>1, <1>5 DEF FetchesOK, Fetching
<1>7. CacheOK
  BY <1>1, <1>3, FileAssumption DEF CacheOK, ToSet, IsInjective
<1>8. OneChange /\ Joins
  BY <1>5 DEF OneChange, Changes, Joins, Callers
<1>9. Whole
  BY <1>1, <1>2, <1>5 DEF Whole, OneSends, Changing, ChangeAt, Over, Callers
<1>10. Good
  BY <1>3, <1>5 DEF Good, Clear, Fetching
<1>11. ListingOK
  BY <1>1, <1>5 DEF ListingOK
<1> QED
  BY <1>4, <1>6, <1>7, <1>8, <1>9, <1>10, <1>11 DEF FInv, Underway, Served

LEMMA FileStepInv == FInv /\ [FileNext]_fileVars => FInv'
<1> SUFFICES ASSUME FInv, [FileNext]_fileVars PROVE FInv'
  OBVIOUS
<1>1. CASE FileNext
  BY <1>1, CallersKeep, ValuesKeep, FetchesKeep, CacheKeep, ChangeKeeps, JoinsKeep, UnderwayKeeps,
     ServedKeeps, ListingKeeps DEF FInv, FTyped
<1>2. CASE UNCHANGED fileVars
  <2>1. UNCHANGED <<file, want, size, wbuf, woff, apart, wrote, blocks, order, inflight, at, dir,
                    writes, reads, faults, clouded, raced, lost, unlisted, crossed>>
    BY <1>2 DEF fileVars
  <2> QED
    BY <2>1 DEF FInv, FTyped, ValuesOK, CallersOK, FetchesOK, CacheOK, OneChange, Joins, Underway, Served, ListingOK,
       Fetching, Changes, Whole, OneSends, Changing, ChangeAt, Good, Clear, Sending, Cutting, Piece
<1> QED
  BY <1>1, <1>2

LEMMA FileInvariant == FileSpec => []FInv
<1> QED
  BY FileInitInv, FileStepInv, PTL DEF FileSpec

(* Every variable keeps its type; no block is fetched twice at once, and   *)
(* the cache holds what its order says and no more than it may.            *)
THEOREM FileTypeCorrect == FileSpec => []FileOK
<1>1. FInv => FileOK
  <2> SUFFICES ASSUME FInv PROVE FileOK
    OBVIOUS
  <2>1. inflight = {Blk(at[t].pos) : t \in {u \in Callers : Fetching(u)}}
    BY DEF FInv, FetchesOK
  <2> QED
    BY <2>1 DEF FInv, FTyped, ValuesOK, CacheOK, FetchesOK, FileOK
<1> QED
  BY <1>1, FileInvariant, PTL

(* However reads, writes, flushes, truncations and listings overlap: while *)
(* no change was lost and no two were on their way at once, the phone ends *)
(* up with what was written, the cache serves it, but for blocks fetched   *)
(* across a write or left by a cut by path, and the sizes are right, but   *)
(* for the handle's after such a cut.                                      *)
THEOREM HandleStaysTrue == FileSpec => []HandleTrue
<1>1. FInv => HandleTrue
  <2> SUFFICES ASSUME FInv, ~lost, ~raced
               PROVE  /\ ~Unsent => file = want
                      /\ ~Cutting => \A i \in DOMAIN blocks \ clouded : blocks[i] = BlockOf(want, i)
                      /\ ~apart => size = Len(want)
                      /\ dir # -1 /\ ~crossed /\ ~unlisted => dir = Len(file)
    BY DEF HandleTrue
  <2>1. Whole /\ Good /\ ListingOK
    BY DEF FInv, Underway, Served
  <2>2. ASSUME ~Unsent PROVE file = want
    BY <2>1, <2>2 DEF Unsent, Whole, Over
  <2> QED
    BY <2>1, <2>2 DEF Whole, Good, ListingOK
<1> QED
  BY <1>1, FileInvariant, PTL
=============================================================================
