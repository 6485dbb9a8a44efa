--------------------------- MODULE SpanAllocator ---------------------------
(***************************************************************************)
(* The title's allocator (src/memory_ps5.cpp): malloc, calloc, realloc and *)
(* free of the title's own code.  Small requests go to the C library's     *)
(* heap, large ones to page-rounded mappings with a header, of which a few *)
(* released ones are kept for reuse.  A table of records says which        *)
(* pointers are the title's; here it is a set, OwnershipTable models it.   *)
(*                                                                         *)
(* The list of mappings and the cache change only under one lock that no   *)
(* thread keeps while it waits, so a critical section is one action; what a *)
(* thread does to a block only it can reach is part of the next section.   *)
(* A byte is 0, Junk or the name of the thread that wrote it.              *)
(***************************************************************************)
EXTENDS Integers, Sequences, FiniteSets, SequencesExt

CONSTANTS
  Thread, Address,
  NoAddress,        (* the null pointer                                      *)
  Junk,             (* a byte nobody may rely on                             *)
  Sizes,            (* the sizes the clients ask for                         *)
  SizeMax,          (* SIZE_MAX: sizes are counted modulo SizeMax + 1        *)
  Threshold,        (* the smallest size that is mapped (32 KiB)             *)
  Header,           (* sizeof(Mapping)                                       *)
  Page,             (* page (0x4000)                                         *)
  CacheSlots, CacheSpanLimit, CacheBytesLimit,
  TableRoom         (* capacity of the table of records                      *)

ASSUME AllocatorAssumption ==
  /\ NoAddress \notin Address /\ IsFiniteSet(Address)
  /\ Sizes \subseteq 0 .. SizeMax
  /\ {SizeMax, Threshold, Header, Page} \subseteq Nat \ {0}
  /\ Header + Page <= SizeMax
  /\ {CacheSlots, CacheSpanLimit, CacheBytesLimit, TableRoom} \subseteq Nat

VARIABLES
  kind,             (* what the system keeps at an address                   *)
  memory,           (* the bytes behind the pointer                          *)
  header,           (* the Mapping in front of a mapped block                *)
  mappings,         (* the blocks in the list of mappings                    *)
  cached,           (* cached[0 .. cached_count - 1]                         *)
  cachedBytes,
  records,
  client,           (* the blocks each thread holds and what it expects there*)
  th                (* what each thread is doing                             *)

vars == <<kind, memory, header, mappings, cached, cachedBytes, records, client, th>>
system == <<kind, memory>>
spans  == <<header, mappings, cached, cachedBytes>>

NoBlockRecord == [pointer |-> NoAddress, bytes |-> 0, route |-> "native"]

Fill(n, b) == [i \in 1 .. n |-> b]
Least(m, n) == IF m <= n THEN m ELSE n

(* f restored to be a function that has no value at a.                      *)
Without(f, a) == [x \in DOMAIN f \ {a} |-> f[x]]
With(f, a, v) == [x \in DOMAIN f \union {a} |-> IF x = a THEN v ELSE f[x]]

(* f with n's first bytes in front: memcpy and memset.                      *)
Overwrite(f, n, g) == [i \in DOMAIN f |-> IF i <= n THEN g[i] ELSE f[i]]

Goto(t, pc) == th' = [th EXCEPT ![t].pc = pc]
At(t, pc) == th[t].pc = pc

Idle == [pc |-> "idle", op |-> "none", ptr |-> NoAddress, size |-> 0,
         old |-> NoBlockRecord, new |-> NoAddress, copy |-> 0,
         kept |-> [title |-> FALSE, data |-> <<>>]]

-----------------------------------------------------------------------------
(* The table of records.                                                    *)

RecordOf(a) == IF \E r \in records : r.pointer = a
               THEN CHOOSE r \in records : r.pointer = a
               ELSE NoBlockRecord

Take(a) == records' = records \ {r \in records : r.pointer = a}

(* A full table drops the record.                                           *)
Added(r) ==
  IF r.pointer = NoAddress \/ Cardinality(records) >= TableRoom
  THEN records ELSE records \union {r}

-----------------------------------------------------------------------------
(* What the system does: the C library's heap and the page mapper.          *)

Fresh == {a \in Address : kind[a] = "free"}

NewBlock(a, k, n, b) ==
  /\ kind' = [kind EXCEPT ![a] = k]
  /\ memory' = [memory EXCEPT ![a] = Fill(n, b)]

NoHeader == [requested |-> 0, span |-> 0]

(* The header of a mapping goes with it. *)
DropBlock(a) ==
  /\ kind' = [kind EXCEPT ![a] = "free"]
  /\ memory' = [memory EXCEPT ![a] = <<>>]
  /\ header' = [header EXCEPT ![a] = NoHeader]

-----------------------------------------------------------------------------
(* The calls.                                                               *)

MallocCall(t, size, op) ==
  /\ At(t, "idle")
  /\ th' = [th EXCEPT ![t] = [Idle EXCEPT !.pc = "alloc", !.op = op, !.size = size]]
  /\ UNCHANGED <<system, spans, records, client>>

(* __wrap_free takes the record before it releases the memory.              *)
FreeTake(t, a) ==
  /\ At(t, "idle") /\ a \in DOMAIN client[t]
  /\ Take(a)
  /\ client' = [client EXCEPT ![t] = Without(@, a)]
  /\ th' = [th EXCEPT ![t] = [Idle EXCEPT !.pc = "release", !.op = "free", !.ptr = a]]
  /\ UNCHANGED <<system, spans>>

(* __wrap_realloc(a, size); a null pointer has no record.                   *)
ReallocTake(t, a, size) ==
  /\ At(t, "idle") /\ a \in DOMAIN client[t] \union {NoAddress}
  /\ Take(a)
  /\ client' = [client EXCEPT ![t] = Without(@, a)]
  /\ th' = [th EXCEPT ![t] =
       [Idle EXCEPT !.pc = "resize", !.op = "realloc", !.ptr = a, !.size = size,
                    !.old = RecordOf(a),
                    !.kept = IF a = NoAddress THEN @ ELSE client[t][a]]]
  /\ UNCHANGED <<system, spans>>

-----------------------------------------------------------------------------
(* resize.                                                                  *)

(* Mutated form: any block of the C library is copied, of a guessed size.   *)
MigratesGuess(o) == o.size >= Threshold

(* A known block of the C library's heap that outgrows it.                  *)
Migrates(o) == /\ o.old.pointer = o.ptr /\ o.old.route = "native"
               /\ o.size >= Threshold

Resize(t) ==
  LET o == th[t]
      mapped == o.ptr \in mappings
  IN
  /\ At(t, "resize")
  /\ \/ o.ptr = NoAddress /\ Goto(t, "alloc")
     \/ o.ptr # NoAddress /\ o.size = 0 /\ Goto(t, "release")
     \/ /\ o.ptr # NoAddress /\ o.size # 0
        /\ IF mapped \/ Migrates(o)
           THEN th' = [th EXCEPT ![t].pc = "alloc",
                                 ![t].copy = IF mapped THEN header[o.ptr].requested
                                             ELSE o.old.bytes]
           ELSE Goto(t, "libcRealloc")
  /\ UNCHANGED <<system, spans, records, client>>

(* __real_realloc keeps the block, moves it or fails and leaves it alone.   *)
LibcRealloc(t) ==
  LET o == th[t]
      moved == [i \in 1 .. o.size |-> IF i \in DOMAIN memory[o.ptr]
                                       THEN memory[o.ptr][i] ELSE Junk]
  IN
  /\ At(t, "libcRealloc")
  /\ \E b \in Fresh \union {o.ptr} :
       /\ kind' = [kind EXCEPT ![o.ptr] = "free", ![b] = "native"]
       /\ memory' = [memory EXCEPT ![o.ptr] = <<>>, ![b] = moved]
       /\ th' = [th EXCEPT ![t].pc = "add", ![t].new = b]
  /\ UNCHANGED <<spans, records, client>>

LibcReallocFails(t) ==
  /\ At(t, "libcRealloc")
  /\ Goto(t, "fail")
  /\ UNCHANGED <<system, spans, records, client>>

(* The bytes both blocks have. *)
CopyBytes(o) == Least(o.copy, o.size)

Copy(t) ==
  LET o == th[t] IN
  /\ At(t, "copy")
  /\ IF o.ptr = NoAddress THEN UNCHANGED memory
     ELSE memory' = [memory EXCEPT ![o.new] = Overwrite(@, CopyBytes(o), memory[o.ptr])]
  /\ Goto(t, IF o.ptr = NoAddress THEN "add" ELSE "release")
  /\ UNCHANGED <<kind, spans, records, client>>

-----------------------------------------------------------------------------
(* allocate.                                                                *)

AfterAlloc(t) == IF th[t].op = "realloc" THEN "copy" ELSE "add"

LibcAlloc(t) ==
  LET o == th[t]
      n == IF o.size = 0 THEN 1 ELSE o.size
  IN
  /\ At(t, "alloc") /\ o.size < Threshold
  /\ \E a \in Fresh :
       /\ NewBlock(a, "native", n, IF o.op = "calloc" THEN 0 ELSE Junk)
       /\ th' = [th EXCEPT ![t].pc = AfterAlloc(t), ![t].new = a]
  /\ UNCHANGED <<spans, records, client>>

(* Mutated form: the size is not tested before it is rounded. *)
TooLargeNever(size) == FALSE

TooLarge(size) == size > SizeMax - Header - (Page - 1)

(* Rounded in the width of size_t. *)
Span(size) == (((Header + size + Page - 1) % (SizeMax + 1)) \div Page) * Page

(* malloc or mmap has nothing left, or the size is beyond what can be mapped. *)
AllocFails(t) ==
  /\ \/ At(t, "alloc") /\ (th[t].size < Threshold \/ TooLarge(th[t].size))
     \/ At(t, "map")
  /\ Goto(t, "fail")
  /\ UNCHANGED <<system, spans, records, client>>

Hits(size) == {i \in DOMAIN cached : header[cached[i]].span = Span(size)}
FirstHit(size) == CHOOSE i \in Hits(size) : \A j \in Hits(size) : i <= j

(* cached[i] = cached[--cached_count] *)
WithoutHit(i) == Front([cached EXCEPT ![i] = Last(cached)])

(* Mutated form: the bytes of the cache are not counted down. *)
TakeCachedUncounted(t) ==
  LET size == th[t].size IN
  /\ At(t, "alloc") /\ size >= Threshold /\ ~TooLarge(size)
  /\ IF Hits(size) = {}
     THEN Goto(t, "map") /\ UNCHANGED spans
     ELSE /\ cached' = WithoutHit(FirstHit(size))
          /\ th' = [th EXCEPT ![t].pc = "insert", ![t].new = cached[FirstHit(size)]]
          /\ UNCHANGED <<header, mappings, cachedBytes>>
  /\ UNCHANGED <<system, records, client>>

(* The first critical section of allocate. *)
TakeCached(t) ==
  LET size == th[t].size IN
  /\ At(t, "alloc") /\ size >= Threshold /\ ~TooLarge(size)
  /\ IF Hits(size) = {}
     THEN Goto(t, "map") /\ UNCHANGED spans
     ELSE /\ cached' = WithoutHit(FirstHit(size))
          /\ cachedBytes' = cachedBytes - Span(size)
          /\ th' = [th EXCEPT ![t].pc = "insert", ![t].new = cached[FirstHit(size)]]
          /\ UNCHANGED <<header, mappings>>
  /\ UNCHANGED <<system, records, client>>

Map(t) ==
  /\ At(t, "map")
  /\ \E a \in Fresh :
       /\ NewBlock(a, "mapped", Span(th[t].size) - Header, 0)
       /\ th' = [th EXCEPT ![t].pc = "insert", ![t].new = a]
  /\ UNCHANGED <<spans, records, client>>

(* calloc's bytes: a fresh mapping is zero, a reused one is cleared. *)
Zeroed(o) == IF o.op = "calloc" THEN Overwrite(memory[o.new], o.size, Fill(o.size, 0))
             ELSE memory[o.new]

(* The header, and the second critical section of allocate. *)
Insert(t) ==
  LET o == th[t] IN
  /\ At(t, "insert")
  /\ memory' = [memory EXCEPT ![o.new] = Zeroed(o)]
  /\ header' = [header EXCEPT ![o.new] = [requested |-> o.size, span |-> Span(o.size)]]
  /\ mappings' = mappings \union {o.new}
  /\ Goto(t, AfterAlloc(t))
  /\ UNCHANGED <<kind, cached, cachedBytes, records, client>>

-----------------------------------------------------------------------------
(* release.                                                                 *)

Keeps(span) ==
  /\ span <= CacheSpanLimit
  /\ Len(cached) < CacheSlots
  /\ cachedBytes + span <= CacheBytesLimit

AfterRelease(t) == IF th[t].op = "realloc" /\ th[t].size # 0 THEN "add" ELSE "idle"

(* realloc(p, 0) and free end here, any other realloc goes on to its record. *)
Leave(t) == th' = [th EXCEPT ![t] = IF AfterRelease(t) = "idle" THEN Idle
                                    ELSE [@ EXCEPT !.pc = "add"]]

(* Mutated form: a span that goes to the cache stays in the list.           *)
ReleaseLinked(t) ==
  LET a == th[t].ptr
      span == header[a].span
  IN
  /\ At(t, "release")
  /\ IF a \in mappings /\ Keeps(span)
     THEN /\ cached' = Append(cached, a)
          /\ cachedBytes' = cachedBytes + span
          /\ memory' = [memory EXCEPT ![a] = Fill(Len(@), Junk)]
          /\ Leave(t)
     ELSE Goto(t, "return") /\ UNCHANGED <<memory, cached, cachedBytes>>
  /\ UNCHANGED <<kind, header, mappings, records, client>>

(* The critical section of release.  What a cached span still holds is the  *)
(* old block's bytes, which nobody may rely on.                             *)
Release(t) ==
  LET a == th[t].ptr
      span == header[a].span
  IN
  /\ At(t, "release")
  /\ mappings' = mappings \ {a}
  /\ IF a \in mappings /\ Keeps(span)
     THEN /\ cached' = Append(cached, a)
          /\ cachedBytes' = cachedBytes + span
          /\ memory' = [memory EXCEPT ![a] = Fill(Len(@), Junk)]
          /\ Leave(t)
     ELSE Goto(t, "return") /\ UNCHANGED <<memory, cached, cachedBytes>>
  /\ UNCHANGED <<kind, header, records, client>>

(* munmap or __real_free. *)
Return(t) ==
  /\ At(t, "return")
  /\ DropBlock(th[t].ptr)
  /\ Leave(t)
  /\ UNCHANGED <<mappings, cached, cachedBytes, records, client>>

-----------------------------------------------------------------------------
(* The ends of the calls.                                                   *)

RouteOf(o) ==
  IF o.op = "realloc" THEN IF o.new \in mappings THEN "mapped" ELSE "native"
  ELSE IF o.size < Threshold THEN "native" ELSE "mapped"

(* What a caller gets: zeroes from calloc, the old bytes from realloc; it    *)
(* writes its own name over every byte it was promised nothing about.        *)
Promised(o) ==
  IF o.op = "calloc" THEN Fill(o.size, 0)
  ELSE SubSeq(o.kept.data, 1, Least(Len(o.kept.data), o.size))

Add(t) ==
  LET o == th[t]
      n == Len(Promised(o))
      data == [i \in 1 .. o.size |-> IF i <= n THEN Promised(o)[i] ELSE t]
  IN
  /\ At(t, "add")
  /\ records' = Added([pointer |-> o.new, bytes |-> o.size, route |-> RouteOf(o)])
  /\ client' = [client EXCEPT ![t] = With(@, o.new, [title |-> TRUE, data |-> data])]
  /\ memory' = [memory EXCEPT ![o.new] =
       [i \in DOMAIN @ |-> IF i <= n \/ i > o.size THEN @[i] ELSE t]]
  /\ th' = [th EXCEPT ![t] = Idle]
  /\ UNCHANGED <<kind, spans>>

(* Mutated form: a failed realloc forgets the record it took. *)
FailForgets(t) ==
  LET o == th[t] IN
  /\ At(t, "fail")
  /\ client' = IF o.ptr = NoAddress THEN client
               ELSE [client EXCEPT ![t] = With(@, o.ptr, o.kept)]
  /\ th' = [th EXCEPT ![t] = Idle]
  /\ UNCHANGED <<system, spans, records>>

(* The call returns null; a realloc puts the record back, the block stays.  *)
Fail(t) ==
  LET o == th[t] IN
  /\ At(t, "fail")
  /\ records' = Added(o.old)
  /\ client' = IF o.ptr = NoAddress THEN client
               ELSE [client EXCEPT ![t] = With(@, o.ptr, o.kept)]
  /\ th' = [th EXCEPT ![t] = Idle]
  /\ UNCHANGED <<system, spans>>

-----------------------------------------------------------------------------
(* A block a library hands to the title.                                    *)

ForeignBlock(t, size) ==
  /\ At(t, "idle") /\ size < Threshold /\ size > 0
  /\ \E a \in Fresh :
       /\ NewBlock(a, "native", size, t)
       /\ client' = [client EXCEPT ![t] =
            With(@, a, [title |-> FALSE, data |-> Fill(size, t)])]
  /\ UNCHANGED <<spans, records, th>>

-----------------------------------------------------------------------------
Init ==
  /\ kind = [a \in Address |-> "free"]
  /\ memory = [a \in Address |-> <<>>]
  /\ header = [a \in Address |-> NoHeader]
  /\ mappings = {} /\ cached = <<>> /\ cachedBytes = 0
  /\ records = {}
  /\ client = [t \in Thread |-> <<>>]
  /\ th = [t \in Thread |-> Idle]

Allocate(t) == LibcAlloc(t) \/ AllocFails(t) \/ TakeCached(t) \/ Map(t) \/ Insert(t)

Reallocate(t) == Resize(t) \/ LibcRealloc(t) \/ LibcReallocFails(t) \/ Copy(t)

Finish(t) == Release(t) \/ Return(t) \/ Add(t) \/ Fail(t)

Call(t) ==
  \/ \E size \in Sizes, op \in {"malloc", "calloc"} : MallocCall(t, size, op)
  \/ \E a \in Address : FreeTake(t, a)
  \/ \E a \in Address \union {NoAddress}, size \in Sizes : ReallocTake(t, a, size)

Next == \E t \in Thread :
  \/ Call(t)
  \/ Allocate(t)
  \/ Reallocate(t)
  \/ Finish(t)
  \/ \E size \in Sizes : ForeignBlock(t, size)

Spec == Init /\ [][Next]_vars

-----------------------------------------------------------------------------
Byte == {0, Junk} \union Thread
BlockRecord == [pointer : Address, bytes : 0 .. SizeMax, route : {"native", "mapped"}]

TypeOK ==
  /\ kind \in [Address -> {"free", "native", "mapped"}]
  /\ \A a \in Address : memory[a] \in Seq(Byte)
  /\ header \in [Address -> [requested : 0 .. SizeMax, span : 0 .. SizeMax]]
  /\ mappings \subseteq Address
  /\ cached \in Seq(Address) /\ Len(cached) <= CacheSlots
  /\ cachedBytes \in 0 .. CacheBytesLimit
  /\ records \subseteq BlockRecord /\ Cardinality(records) <= TableRoom
  /\ \A t \in Thread :
       /\ DOMAIN client[t] \subseteq Address
       /\ \A a \in DOMAIN client[t] : client[t][a].data \in Seq(Byte)
       /\ th[t].pc \in {"idle", "alloc", "map", "insert", "resize", "libcRealloc",
                        "copy", "release", "return", "add", "fail"}
       /\ th[t].ptr \in Address \union {NoAddress}
       /\ th[t].new \in Address \union {NoAddress}
       /\ th[t].old \in BlockRecord \union {NoBlockRecord}

(* The block of a call under way that no list holds.                        *)
InTransit(t) ==
  {a \in Address : \/ At(t, "insert") /\ a = th[t].new
                   \/ At(t, "return") /\ a = th[t].ptr /\ kind[a] = "mapped"}

(* The blocks a call under way works on.                                    *)
Working(t) == ({th[t].ptr, th[t].new} \ {NoAddress}) \
                (IF AfterRelease(t) = "add" /\ At(t, "add") THEN {th[t].ptr} ELSE {})

(* Every mapped span is in the list, in the cache or in the hands of one     *)
(* thread, never in two of them, and no two threads hold the same block,     *)
(* with both unlocked gaps of allocate and the one of release.               *)
SpansAccounted ==
  /\ \A i, j \in DOMAIN cached : cached[i] = cached[j] => i = j
  /\ mappings \intersect Range(cached) = {}
  /\ \A t \in Thread : InTransit(t) \intersect (mappings \union Range(cached)) = {}
  /\ \A s, t \in Thread : s # t =>
       /\ (DOMAIN client[s] \union Working(s)) \intersect
          (DOMAIN client[t] \union Working(t)) = {}
  /\ {a \in Address : kind[a] = "mapped"} =
       mappings \union Range(cached) \union UNION {InTransit(t) : t \in Thread}

SpanBytes(a) == {a} \X (1 .. header[a].span)

(* What the cache keeps from the system is what it has counted, and stays    *)
(* within its three bounds.                                                  *)
CacheIsBounded ==
  /\ cachedBytes = Cardinality(UNION {SpanBytes(a) : a \in Range(cached)})
  /\ Len(cached) <= CacheSlots /\ cachedBytes <= CacheBytesLimit
  /\ \A i \in DOMAIN cached : header[cached[i]].span <= CacheSpanLimit

(* A block is as large as it was asked to be, whatever span was reused for   *)
(* it and however close to SIZE_MAX the request was, and the bytes a thread  *)
(* wrote stay until it frees the block: through other threads' calls,        *)
(* through realloc between the two allocators in either direction, and       *)
(* through a realloc that fails.  calloc's bytes are zero.                   *)
ContentsKept ==
  \A t \in Thread : \A a \in DOMAIN client[t] :
    LET data == client[t][a].data IN
    Len(data) <= Len(memory[a]) /\ \A i \in DOMAIN data : data[i] = memory[a][i]

(* A record names a block some thread holds, with its size and allocator:    *)
(* realloc copies that many bytes.  A block of the title loses its record    *)
(* only to a full table; a failed realloc keeps it.                          *)
RecordsTrue ==
  /\ \A r \in records : \E t \in Thread :
       /\ r.pointer \in DOMAIN client[t]
       /\ client[t][r.pointer].title
       /\ r.bytes = Len(client[t][r.pointer].data)
       /\ r.route = kind[r.pointer]
  /\ Cardinality(Address) <= TableRoom =>
       \A t \in Thread : \A a \in DOMAIN client[t] :
         client[t][a].title => \E r \in records : r.pointer = a

(* When no call is under way, memory the system gave out is a block of a     *)
(* client or a span in the cache.                                            *)
NoLeak ==
  (\A t \in Thread : At(t, "idle")) =>
    \A a \in Address : kind[a] # "free" =>
      a \in Range(cached) \union UNION {DOMAIN client[t] : t \in Thread}

(* The allocator's structures at every moment: no span is lost, doubled or   *)
(* leaked, and the cache stays what it counted.                              *)
SpansSafe == TypeOK /\ SpansAccounted /\ CacheIsBounded /\ NoLeak
=============================================================================
