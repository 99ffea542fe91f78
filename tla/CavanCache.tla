------------------------------ MODULE CavanCache ------------------------------
(***************************************************************************)
(* cavan_cache of lib/cache.c: a ring of bytes between threads that write  *)
(* and threads that read.  Writers wait on wrcond while it is full,        *)
(* readers on rdcond while it holds no more than the bytes they reserve.   *)
(*                                                                         *)
(* cache->lock is held from the call to the return or to the wait: one     *)
(* action is one such stretch.  The broadcasts of cavan_cache_close come   *)
(* after its unlock and are actions of their own.                          *)
(***************************************************************************)
EXTENDS Naturals, Sequences

CONSTANTS
    Readers, Writers,  \* the threads on the two sides
    Bytes,             \* byte values (read_line skips '\r', which is not one of them)
    Newline,           \* the one that ends a line
    Size,              \* cache->size: the ring holds Size - 1 bytes
    MaxLen,            \* bound: bytes asked for or offered by one call
    MaxReserved        \* the largest reserved argument

ASSUME CacheAssumption == /\ Size \in Nat \ {0, 1}
                          /\ MaxLen \in Nat \ {0, 1}
                          /\ MaxReserved \in 0..(Size - 2)
                          /\ Newline \in Bytes
                          /\ Readers \cap Writers = {}

VARIABLES
    head, tail,  \* cache->head and ->tail, as offsets from cache->mem
    mem,         \* the ring's bytes
    closed,      \* cache->closed
    closing,     \* the broadcasts cavan_cache_close still has to make
    wpc, wbuf,   \* each writer: where it is, the bytes it has left to write
    rpc, rcall,  \* each reader: where it is, the call it is in
    woken,       \* threads whose current condition wait has been signalled
    out          \* the bytes the last cavan_cache_read copied out

vars == <<head, tail, mem, closed, closing, wpc, wbuf, rpc, rcall, woken, out>>
ring == <<head, tail, mem>>

Offsets == 0..(Size - 1)
Strings(n) == UNION {[1..k -> Bytes] : k \in 1..n}

\* A call of cavan_cache_read, _fill or _read_line: the room left in the caller's
\* buffer, its reserved argument, whether it has a timeout, and for _read_line
\* whether a character of the line has been stored.
Calls == [mode : {"read", "fill", "line"}, want : 1..MaxLen,
          reserved : 0..MaxReserved, timed : BOOLEAN, some : BOOLEAN]

CacheTypeOK ==
    /\ head \in Offsets
    /\ tail \in Offsets
    /\ mem \in [Offsets -> Bytes]
    /\ closed \in BOOLEAN
    /\ closing \in {"none", "rdcond", "wrcond"}
    /\ wpc \in [Writers -> {"idle", "call", "wait"}]
    /\ DOMAIN wbuf = Writers
    /\ \A w \in Writers : IF wpc[w] = "idle" THEN wbuf[w] = <<>> ELSE wbuf[w] \in Strings(MaxLen)
    /\ rpc \in [Readers -> {"idle", "call", "wait"}]
    /\ rcall \in [Readers -> Calls]
    /\ woken \subseteq {w \in Writers : wpc[w] = "wait"} \cup {r \in Readers : rpc[r] = "wait"}
    /\ out \in Strings(Size - 1) \cup {<<>>}

NoCall == [mode |-> "read", want |-> 1, reserved |-> 0, timed |-> FALSE, some |-> FALSE]

\* cavan_cache_create and the first cavan_cache_open.
CacheInit ==
    /\ head = 0 /\ tail = 0
    /\ mem = [i \in Offsets |-> Newline]
    /\ closed = FALSE
    /\ closing = "none"
    /\ wpc = [w \in Writers |-> "idle"]
    /\ wbuf = [w \in Writers |-> <<>>]
    /\ rpc = [r \in Readers |-> "idle"]
    /\ rcall = [r \in Readers |-> NoCall]
    /\ woken = {}
    /\ out = <<>>

-----------------------------------------------------------------------------
(* The ring's arithmetic.                                                   *)

\* rcount of cavan_cache_write: room up to mem_end.
FreeRight == IF tail < head THEN head - tail - 1 ELSE Size - tail

\* cavan_cache_free_space, and length of cavan_cache_write.
FreeSpace == IF tail < head THEN head - tail - 1 ELSE (Size - tail) + head - 1

\* rcount of cavan_cache_read: bytes up to mem_end.
UsedRight == IF head > tail THEN Size - head ELSE tail - head

\* cavan_cache_used_space, and length of cavan_cache_read.
UsedSpace == IF head > tail THEN (Size - head) + tail ELSE tail - head

\* Where a pointer p that copied n bytes, rcount of them before mem_end, ends.
Advance(p, n, rcount) ==
    IF n > rcount THEN n - rcount ELSE IF p + n >= Size THEN 0 ELSE p + n

\* The two memcpy calls of cavan_cache_write: s goes to tail, then to mem.
CopyInNoSplit(s) ==
    [i \in Offsets |-> IF tail <= i /\ i < tail + Len(s) THEN s[i - tail + 1]
                       ELSE mem[i]]

CopyIn(s) ==
    [i \in Offsets |->
        IF tail <= i /\ i < tail + Len(s) THEN s[i - tail + 1]
        ELSE IF Len(s) > FreeRight /\ i < Len(s) - FreeRight THEN s[FreeRight + i + 1]
        ELSE mem[i]]

\* The two memcpy calls of cavan_cache_read.
CopyOut(n) ==
    [i \in 1..n |-> IF n > UsedRight /\ i > UsedRight THEN mem[i - UsedRight - 1]
                    ELSE mem[head + i - 1]]

Least(a, b) == IF a < b THEN a ELSE b

-----------------------------------------------------------------------------
(* Condition variables.                                                     *)

ReadersWaiting == {r \in Readers : rpc[r] = "wait"} \ woken
WritersWaiting == {w \in Writers : wpc[w] = "wait"} \ woken

\* pthread_cond_signal: one of the waiting threads, if there is one; t is the
\* caller, which is not waiting.
CondSignal(waiting, t) ==
    IF waiting \ {t} = {} THEN woken' = woken \ {t}
    ELSE \E x \in waiting \ {t} : woken' = (woken \ {t}) \cup {x}

\* A thread evaluates its condition when it enters, when it is signalled, and
\* when pthread_cond_wait returns spuriously.
Running(pc) == pc \in {"call", "wait"}

-----------------------------------------------------------------------------
(* Writers.                                                                 *)

cavan_cache_write(w) ==
    /\ wpc[w] = "idle"
    /\ \E s \in Strings(MaxLen) : wbuf' = [wbuf EXCEPT ![w] = s]
    /\ wpc' = [wpc EXCEPT ![w] = "call"]
    /\ UNCHANGED <<ring, closed, closing, rpc, rcall, woken, out>>

\* Copy what fits and signal a reader; with bytes left over the ring is now
\* full, so the writer returns if the cache is closed and waits if it is not.
WriteChunkNoSignal(w) ==
    /\ Running(wpc[w]) /\ FreeSpace > 0
    /\ LET n == Least(FreeSpace, Len(wbuf[w]))
           rest == IF closed THEN <<>> ELSE SubSeq(wbuf[w], n + 1, Len(wbuf[w]))
       IN /\ mem' = CopyIn(SubSeq(wbuf[w], 1, n))
          /\ tail' = Advance(tail, n, FreeRight)
          /\ wbuf' = [wbuf EXCEPT ![w] = rest]
          /\ wpc' = [wpc EXCEPT ![w] = IF rest = <<>> THEN "idle" ELSE "wait"]
    /\ woken' = woken \ {w}
    /\ UNCHANGED <<head, closed, closing, rpc, rcall, out>>

WriteChunk(w) ==
    /\ Running(wpc[w]) /\ FreeSpace > 0
    /\ LET n == Least(FreeSpace, Len(wbuf[w]))
           rest == IF closed THEN <<>> ELSE SubSeq(wbuf[w], n + 1, Len(wbuf[w]))
       IN /\ mem' = CopyIn(SubSeq(wbuf[w], 1, n))
          /\ tail' = Advance(tail, n, FreeRight)
          /\ wbuf' = [wbuf EXCEPT ![w] = rest]
          /\ wpc' = [wpc EXCEPT ![w] = IF rest = <<>> THEN "idle" ELSE "wait"]
    /\ CondSignal(ReadersWaiting, w)
    /\ UNCHANGED <<head, closed, closing, rpc, rcall, out>>

\* The ring is full: return the short count of a closed cache, or wait.
WriteFull(w) ==
    /\ Running(wpc[w]) /\ FreeSpace = 0
    /\ IF closed THEN /\ wpc' = [wpc EXCEPT ![w] = "idle"]
                      /\ wbuf' = [wbuf EXCEPT ![w] = <<>>]
                 ELSE /\ wpc' = [wpc EXCEPT ![w] = "wait"]
                      /\ UNCHANGED wbuf
    /\ woken' = woken \ {w}
    /\ UNCHANGED <<ring, closed, closing, rpc, rcall, out>>

Write(w) == WriteChunk(w) \/ WriteFull(w)

-----------------------------------------------------------------------------
(* Readers.                                                                 *)

\* cavan_cache_read, _fill or _read_line is called; the latter keeps a byte of
\* its buffer for the terminating 0.
cavan_cache_read(r) ==
    /\ rpc[r] = "idle"
    /\ \E call \in Calls :
          /\ ~call.some
          /\ rcall' = [rcall EXCEPT ![r] = call]
    /\ rpc' = [rpc EXCEPT ![r] = "call"]
    /\ UNCHANGED <<ring, closed, closing, wpc, wbuf, woken, out>>

Available(r) == UsedSpace > rcall[r].reserved

\* The caller's loop after n bytes: cavan_cache_fill goes on while it has room,
\* cavan_cache_read_line up to a newline that ends a non-empty line.
Done(call, n, byte) ==
    \/ call.mode = "read"
    \/ call.mode = "fill" /\ call.want = n
    \/ call.mode = "line" /\ IF byte = Newline THEN call.some ELSE call.want = 1

NextCall(call, n, byte) ==
    CASE call.mode = "fill" -> [call EXCEPT !.want = call.want - n]
      [] call.mode = "line" /\ byte # Newline
                            -> [call EXCEPT !.want = call.want - 1, !.some = TRUE]
      [] OTHER              -> call

ReadChunk(r) ==
    /\ Running(rpc[r]) /\ Available(r)
    /\ LET call == rcall[r]
           n == Least(UsedSpace - call.reserved, IF call.mode = "line" THEN 1 ELSE call.want)
       IN /\ out' = CopyOut(n)
          /\ head' = Advance(head, n, UsedRight)
          /\ IF Done(call, n, mem[head])
             THEN /\ rpc' = [rpc EXCEPT ![r] = "idle"]
                  /\ rcall' = [rcall EXCEPT ![r] = NoCall]
             ELSE /\ rpc' = [rpc EXCEPT ![r] = "call"]
                  /\ rcall' = [rcall EXCEPT ![r] = NextCall(call, n, mem[head])]
    /\ CondSignal(WritersWaiting, r)
    /\ UNCHANGED <<tail, mem, closed, closing, wpc, wbuf>>

\* The call ends with what it has: 0 from a closed cache, or -ETIMEDOUT.
ReadEnd(r) ==
    /\ rpc' = [rpc EXCEPT ![r] = "idle"]
    /\ rcall' = [rcall EXCEPT ![r] = NoCall]
    /\ woken' = woken \ {r}
    /\ UNCHANGED <<ring, closed, closing, wpc, wbuf, out>>

ReadClosed(r) ==
    /\ Running(rpc[r]) /\ ~Available(r) /\ closed
    /\ ReadEnd(r)

ReadWait(r) ==
    /\ Running(rpc[r]) /\ ~Available(r) /\ ~closed
    /\ rpc' = [rpc EXCEPT ![r] = "wait"]
    /\ woken' = woken \ {r}
    /\ UNCHANGED <<ring, closed, closing, wpc, wbuf, rcall, out>>

\* pthread_cond_timedwait reports the timeout, whatever the ring holds by now.
ReadTimeout(r) ==
    /\ rpc[r] = "wait" /\ rcall[r].timed
    /\ ReadEnd(r)

Read(r) == ReadChunk(r) \/ ReadClosed(r) \/ ReadWait(r)

-----------------------------------------------------------------------------
(* Open and close.                                                          *)

\* Opening again is for a cache that has been closed.
cavan_cache_open ==
    /\ closed /\ closing = "none"
    /\ closed' = FALSE
    /\ head' = 0 /\ tail' = 0
    /\ UNCHANGED <<mem, closing, wpc, wbuf, rpc, rcall, woken, out>>

cavan_cache_close ==
    /\ closing = "none" /\ ~closed
    /\ closed' = TRUE
    /\ closing' = "rdcond"
    /\ UNCHANGED <<ring, wpc, wbuf, rpc, rcall, woken, out>>

\* pthread_cond_broadcast on rdcond, then on wrcond, without the lock.
CloseRdOnly ==
    /\ closing = "rdcond"
    /\ woken' = woken \cup ReadersWaiting
    /\ closing' = "none"
    /\ UNCHANGED <<ring, closed, wpc, wbuf, rpc, rcall, out>>

CloseBroadcast ==
    /\ \/ closing = "rdcond" /\ woken' = woken \cup ReadersWaiting /\ closing' = "wrcond"
       \/ closing = "wrcond" /\ woken' = woken \cup WritersWaiting /\ closing' = "none"
    /\ UNCHANGED <<ring, closed, wpc, wbuf, rpc, rcall, out>>

-----------------------------------------------------------------------------
CacheNext ==
    \/ \E w \in Writers : cavan_cache_write(w) \/ Write(w)
    \/ \E r \in Readers : cavan_cache_read(r) \/ Read(r) \/ ReadTimeout(r)
    \/ cavan_cache_open
    \/ cavan_cache_close
    \/ CloseBroadcast

CacheSpec == CacheInit /\ [][CacheNext]_vars

-----------------------------------------------------------------------------
(* Properties.                                                              *)

\* The bytes in the ring, oldest first, by the distance from head to tail around
\* the ring rather than by the code's case split.
Contents == [i \in 1..((Size + tail - head) % Size) |-> mem[(head + i - 1) % Size]]

Stream == INSTANCE ByteStream
    WITH stream <- Contents, offer <- wbuf, Capacity <- Size - 1

\* Every write chunk, read chunk, open and close of the ring is a step of the
\* bounded byte stream: the bytes the writers offered leave in order, once each,
\* across every wrap of head and tail, and a full ring is never overrun.
RefinesStream == Stream!StreamSpec

\* With one reader and one writer no condition wait outlives its reason: the reader
\* never sleeps unsignalled on bytes it may take, the writer on room, and neither on
\* a closed cache whose broadcast to it has been made; no order of chunk, wait,
\* timeout, close and reopen loses a signal.  (With several readers one signal per
\* chunk is not enough: see the README.)
NobodyForgotten ==
    /\ \A r \in Readers :
          Readers = {r} /\ r \in ReadersWaiting =>
              /\ ~Available(r)
              /\ closed => closing = "rdcond"
    /\ \A w \in Writers :
          Writers = {w} /\ w \in WritersWaiting =>
              IF closed THEN closing # "none" ELSE FreeSpace = 0

\* Not everybody sleeps: when the only writer waits for room, the only reader's
\* condition holds, whatever it reserves.
NotAllAsleep ==
    \A w \in Writers, r \in Readers :
        Writers = {w} /\ Readers = {r} =>
            ~(w \in WritersWaiting /\ r \in ReadersWaiting /\ closing = "none")
=============================================================================
