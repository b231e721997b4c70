------------------------------- MODULE UvFile -------------------------------
(***************************************************************************)
(* A file whose operations are carried out by another thread.  The thread  *)
(* that owns the file posts requests, in sequence, to the libuv thread;    *)
(* that one hands the reads, the writes and the close to a pool of threads *)
(* which completes them in any order.  The file may be cached in memory, a *)
(* chunk at a time, or be a download into such a cache.                    *)
(*                                                                         *)
(* support/uvfile.h and support/uvfile.cc.  Seeking, the statistics and    *)
(* the callback that tells of a finished cache are left out.               *)
(***************************************************************************)
EXTENDS Integers, Sequences

CONSTANTS
    MaxSize,    \* bound: the chunks of the file
    MaxWrites   \* bound: the writes of the program

ASSUME FileAssumption == MaxSize \in Nat /\ MaxWrites \in Nat

Chunks == 1 .. MaxSize
Versions == 0 .. MaxWrites      \* what a chunk holds: the number of its write
Unset == -1                     \* memory nobody initialised
Kinds == {"readonly", "writable", "download"}

(* Requests, and the operations of the pool and of curl they become.       *)
Op(what, chunk, version) == [what |-> what, at |-> chunk, version |-> version]
Plain(what) == Op(what, 0, 0)

VARIABLES
    kind,           \* of the file: m_download, writable()
    failed,         \* m_failed, 0 or 1
    main,           \* where the thread that owns the file is
    wanted,         \* the chunk its read waits for
    size,           \* m_size
    handle,         \* 1: m_handle is valid
    cached,         \* 1: m_cache is allocated
    cache,          \* m_cache
    requests,       \* s_queue, in the order of the sequence numbers
    uv,             \* where the libuv thread is
    cachePtr,       \* m_cachePtr
    progress,       \* m_cacheProgress: "none", "part" or "done"
    barrier,        \* 1: m_cacheBarrier has its value
    taken,          \* how often its future was taken
    cancelled,      \* m_cancelDownload, 0 or 1
    silent,         \* 1: the server of a download is not heard of again
    pendingWrites, closePending,    \* PendingCloseInfo
    flying,         \* the operations handed to libuv that are not complete
    fd,             \* the file in the operating system
    disk,           \* what it holds
    diskSize,
    written,        \* history: the number of writes
    last,           \* history: the last version written to each chunk
    racy,           \* history: operations submitted with a write of their chunk in flight
    early,          \* history: 1 once the progress was "done" before the cache was full
    answer          \* history: what the last read returned, None after a write

None == Plain("none")

owner == <<kind, main, wanted, size, handle, cached, written, last>>
caching == <<cachePtr, progress, barrier>>
closing == <<pendingWrites, closePending>>
system == <<fd, disk, diskSize>>
vars == <<owner, failed, silent, cache, requests, uv, caching, taken, cancelled, closing,
          flying, system, racy, early, answer>>

(* The constructors return when the file is open, or could not be opened.  *)
Init ==
    /\ kind \in Kinds
    /\ failed \in IF kind = "download" THEN {0} ELSE {0, 1}
    /\ size \in IF kind = "download" \/ failed = 1 THEN {0} ELSE 0 .. MaxSize
    /\ main = "idle" /\ wanted = 0 /\ uv = "loop"
    /\ handle = IF kind = "download" \/ failed = 1 THEN 0 ELSE 1
    /\ fd = IF handle = 1 THEN "open" ELSE "none"
    /\ cached = 0 /\ cache = [c \in Chunks |-> Unset]
    /\ requests = IF kind = "download" THEN <<Plain("download")>> ELSE << >>
    /\ cachePtr = 0 /\ progress = "none" /\ barrier = 0 /\ taken = 0 /\ cancelled = 0
    /\ silent = 0 /\ early = 0
    /\ pendingWrites = 0 /\ closePending = 0 /\ flying = {}
    /\ disk = [c \in Chunks |-> 0] /\ diskSize = size
    /\ written = 0 /\ last = [c \in Chunks |-> 0] /\ racy = {} /\ answer = None

-----------------------------------------------------------------------------
(* The thread that owns the file. *)

Post(ops) == requests' = requests \o ops

StartCaching ==
    /\ main = "idle" /\ kind # "download" /\ cached = 0
    /\ cached' = 1 - failed
    /\ Post(IF failed = 1 THEN << >> ELSE <<Plain("cache")>>)
    /\ UNCHANGED <<kind, main, wanted, size, handle, written, last, failed, silent, cache,
                   uv, caching, taken, cancelled, closing, flying, system, racy, early,
                   answer>>

(* A read of a file that is in memory; its handle is not needed any more,  *)
(* unless the file may be written.                                         *)
ReadCache(c) ==
    /\ progress = "done"
    /\ LET closes == handle = 1 /\ kind # "writable"
       IN  /\ Post(IF closes THEN <<Plain("closeNow")>> ELSE << >>)
           /\ handle' = IF closes THEN 0 ELSE handle
    /\ answer' = Op("answer", c, cache[c])
    /\ UNCHANGED <<main, wanted, taken>>

(* A download is waited for: read takes the future of its barrier.         *)
AwaitDownload(c) ==
    /\ progress # "done" /\ kind = "download"
    /\ main' = "await" /\ wanted' = c /\ taken' = taken + 1
    /\ UNCHANGED <<requests, handle, answer>>

ReadFile(c) ==
    /\ progress # "done" /\ kind # "download"
    /\ Post(<<Op("read", c, 0)>>)
    /\ main' = "read" /\ wanted' = c
    /\ UNCHANGED <<handle, taken, answer>>

(* The number of bytes is cut to the size before a download is waited for. *)
Read(c) ==
    /\ main = "idle" /\ c <= size
    /\ ReadCache(c) \/ AwaitDownload(c) \/ ReadFile(c)
    /\ UNCHANGED <<kind, size, cached, written, last, failed, silent, cache, uv, caching,
                   cancelled, closing, flying, system, racy, early>>

Downloaded ==
    /\ main = "await" /\ barrier = 1
    /\ main' = "idle" /\ answer' = Op("answer", wanted, cache[wanted])
    /\ UNCHANGED <<kind, wanted, size, handle, cached, written, last, failed, silent, cache,
                   requests, uv, caching, taken, cancelled, closing, flying, system, racy,
                   early>>

(* mutant: the cache is written while it is being filled *)
MayWrite_Mutant == TRUE
(* The busy wait for a cache that is being filled. *)
MayWrite == cached = 1 => progress = "done"

(* A write to a file that could not be opened ends the program; a program  *)
(* that leaves no gap behind the end is assumed.                           *)
Write(c) ==
    /\ main = "idle" /\ kind = "writable" /\ failed = 0 /\ written < MaxWrites
    /\ MayWrite /\ c <= size + 1
    /\ written' = written + 1 /\ last' = [last EXCEPT ![c] = written']
    /\ cache' = IF cached = 1 THEN [cache EXCEPT ![c] = written'] ELSE cache
    /\ size' = IF c > size THEN c ELSE size
    /\ Post(<<Op("write", c, written')>>)
    /\ answer' = None
    /\ UNCHANGED <<kind, main, wanted, handle, cached, failed, silent, uv, caching, taken,
                   cancelled, closing, flying, system, racy, early>>

(* mutant: the future of a download is waited for in any case *)
Unfinished_Mutant == (kind = "download" \/ cached = 1) /\ (kind = "download" \/ progress # "done")
Unfinished == (kind = "download" \/ cached = 1) /\ progress # "done"

(* closeInternal, up to its wait for a cache or a download to end. *)
Close ==
    /\ main = "idle"
    /\ IF Unfinished
       THEN /\ main' = "closing" /\ taken' = taken + 1
            /\ cancelled' = IF kind = "download" THEN 1 ELSE 0
            /\ Post(IF kind = "download" THEN << >> ELSE <<Plain("cancel")>>)
       ELSE main' = "close" /\ UNCHANGED <<taken, cancelled, requests>>
    /\ UNCHANGED <<kind, wanted, size, handle, cached, written, last, failed, silent, cache,
                   uv, caching, closing, flying, system, racy, early, answer>>

(* mutant: the wait before the cache is freed is forgotten *)
MayFree_Mutant == main \in {"close", "closing"}
MayFree == main = "close" \/ (main = "closing" /\ barrier = 1)

(* The rest of it; the file is deleted. *)
FinishClose ==
    /\ MayFree
    /\ main' = "gone" /\ cached' = 0 /\ cache' = [c \in Chunks |-> Unset]
    /\ progress' = "none" /\ handle' = 0
    /\ Post(IF handle = 1 THEN <<Plain("close")>> ELSE << >>)
    /\ UNCHANGED <<kind, wanted, size, written, last, failed, silent, uv, cachePtr, barrier,
                   taken, cancelled, closing, flying, system, racy, early, answer>>

(* The program ends: stopThread posts a request and waits for it ... *)
Stop ==
    /\ main = "gone"
    /\ main' = "stopping" /\ Post(<<Plain("barrier")>>)
    /\ UNCHANGED <<kind, wanted, size, handle, cached, written, last, failed, silent, cache,
                   uv, caching, taken, cancelled, closing, flying, system, racy, early,
                   answer>>

Unref ==
    /\ main = "stopped"
    /\ main' = "joining" /\ Post(<<Plain("unref")>>)
    /\ UNCHANGED <<kind, wanted, size, handle, cached, written, last, failed, silent, cache,
                   uv, caching, taken, cancelled, closing, flying, system, racy, early,
                   answer>>

(* ... then lets the loop end, and joins the thread, which ends when nothing keeps its loop busy.  *)
Join ==
    /\ main = "joining" /\ uv = "ended"
    /\ main' = "ended"
    /\ UNCHANGED <<kind, wanted, size, handle, cached, written, last, failed, silent, cache,
                   requests, uv, caching, taken, cancelled, closing, flying, system, racy,
                   early, answer>>

-----------------------------------------------------------------------------
(* The libuv thread. *)

(* The queue promises no order; a request whose sequence number is not the *)
(* next goes back into it.                                                 *)
Turn(i) == i = 1

Without(i) == SubSeq(requests, 1, i - 1) \o SubSeq(requests, i + 1, Len(requests))

Overlaps(op) == \E o \in flying : o.what = "write" /\ o.at = op.at

(* An operation is handed to the pool. *)
Submit(op) ==
    /\ flying' = flying \cup {op}
    /\ racy' = IF Overlaps(op) THEN racy \cup {Op(op.what, op.at, 0)} ELSE racy

(* readCacheChunk, its first chunk or what follows one that was read and    *)
(* made the progress what is stored.                                       *)
ReadCacheChunk(ptr, others, stored) ==
    LET op == Op("chunk", ptr + 1, 0)
    IN  /\ cachePtr' = ptr
        /\ IF ptr >= size
           THEN /\ progress' = "done" /\ uv' = "finishing" /\ flying' = others
                /\ UNCHANGED racy
           ELSE /\ flying' = others \cup {op}
                /\ racy' = IF Overlaps(op) THEN racy \cup {op} ELSE racy
                /\ progress' = stored
                /\ UNCHANGED uv

(* mutant: the handle is closed under the writes *)
DeferClose_Mutant == FALSE
DeferClose == pendingWrites # 0

CloseHandle ==
    /\ flying' = flying \cup {Plain("close")}
    /\ fd' = "closing"

Run(op) ==
    \/ /\ op.what = "read"
       /\ Submit(op)
       /\ UNCHANGED <<uv, caching, closing, fd, main>>
    \/ /\ op.what = "write"
       /\ Submit(op) /\ pendingWrites' = pendingWrites + 1
       /\ UNCHANGED <<uv, caching, closePending, fd, main>>
    \/ /\ op.what = "cache"
       /\ ReadCacheChunk(cachePtr, flying, progress)
       /\ UNCHANGED <<barrier, closing, fd, main>>
    \/ /\ op.what = "cancel"
       /\ cachePtr' = size
       /\ UNCHANGED <<uv, progress, barrier, flying, racy, closing, fd, main>>
    \/ /\ op.what = "closeNow" \/ (op.what = "close" /\ ~DeferClose)
       /\ CloseHandle
       /\ UNCHANGED <<uv, caching, racy, closing, main>>
    \/ /\ op.what = "close" /\ DeferClose
       /\ closePending' = 1
       /\ UNCHANGED <<uv, caching, flying, racy, pendingWrites, fd, main>>
    \/ /\ op.what = "download"
       /\ flying' = flying \cup {Plain("download")}
       /\ UNCHANGED <<uv, caching, racy, closing, fd, main>>
    \/ /\ op.what = "barrier"
       /\ main' = "stopped"
       /\ UNCHANGED <<uv, caching, flying, racy, closing, fd>>
    \/ /\ op.what = "unref"
       /\ uv' = "leaving"
       /\ UNCHANGED <<caching, flying, racy, closing, fd, main>>

Serve == \E i \in 1 .. Len(requests) :
    /\ uv \in {"loop", "leaving"} /\ Turn(i)
    /\ requests' = Without(i)
    /\ Run(requests[i])
    /\ UNCHANGED <<kind, wanted, size, handle, cached, written, last, failed, silent, cache,
                   taken, cancelled, disk, diskSize, early, answer>>

(* The value of the barrier is set after the progress is seen. *)
Finish ==
    /\ uv = "finishing"
    /\ uv' = "loop" /\ barrier' = 1
    /\ UNCHANGED <<owner, failed, silent, cache, requests, cachePtr, progress, taken,
                   cancelled, closing, flying, system, racy, early, answer>>

(* A read, or an error if there is nothing at that place. *)
ReadDone(op) ==
    /\ op.what = "read" /\ flying' = flying \ {op}
    /\ main' = "idle"
    /\ answer' = IF op.at <= diskSize THEN Op("answer", op.at, disk[op.at]) ELSE None
    /\ UNCHANGED <<cache, uv, caching, closing, system, racy, early>>

(* The ratio of what is in the cache to the size of the file, as a float:  *)
(* in a file of more than 2^24 bytes it may be rounded to 1 when all but   *)
(* the last chunk is there.                                                *)
Ratio(ptr) ==
    {IF ptr = 0 THEN "none" ELSE "part"}
        \cup (IF ptr > 0 /\ ptr = size - 1 THEN {"done"} ELSE {})

(* A read that finds the end of the file moves nothing on, and is repeated *)
(* (a write that made the file longer may still be on its way).            *)
ChunkDone(op) ==
    /\ op.what = "chunk" /\ cached = 1
    /\ LET got == op.at <= diskSize
           ptr == IF got THEN cachePtr + 1 ELSE cachePtr
       IN  /\ cache' = IF got THEN [cache EXCEPT ![op.at] = disk[op.at]] ELSE cache
           /\ \E stored \in Ratio(ptr) : ReadCacheChunk(ptr, flying \ {op}, stored)
           /\ early' = IF ptr < size /\ progress' = "done" THEN 1 ELSE early
    /\ UNCHANGED <<main, answer, barrier, closing, system>>

(* A chunk whose handle is closed, and the error ends the program, or      *)
(* whose memory is freed, or was moved to make room for a write: nothing   *)
(* is said of what comes then.                                             *)
ChunkLost(op) ==
    /\ op.what = "chunk"
    /\ fd # "open" \/ cached = 0 \/ (progress = "done" /\ op.at < size)
    /\ main' = "crashed" /\ uv' = "crashed"
    /\ UNCHANGED <<cache, caching, closing, flying, system, racy, early, answer>>

(* A handle that is closed takes no write. *)
Land(op) ==
    /\ disk' = IF fd = "open" THEN [disk EXCEPT ![op.at] = op.version] ELSE disk
    /\ diskSize' = IF fd = "open" /\ op.at > diskSize THEN op.at ELSE diskSize

(* mutant: the close that waited is forgotten *)
WriteDone_Mutant(op) ==
    /\ op.what = "write"
    /\ Land(op)
    /\ pendingWrites' = pendingWrites - 1
    /\ flying' = flying \ {op}
    /\ UNCHANGED <<main, cache, uv, caching, closePending, fd, racy, early, answer>>

(* The last write of a file that is to be closed closes it. *)
WriteDone(op) ==
    /\ op.what = "write"
    /\ Land(op)
    /\ pendingWrites' = pendingWrites - 1
    /\ LET closes == pendingWrites' = 0 /\ closePending = 1
       IN  /\ flying' = (flying \ {op}) \cup (IF closes THEN {Plain("close")} ELSE {})
           /\ fd' = IF closes THEN "closing" ELSE fd
    /\ UNCHANGED <<main, cache, uv, caching, closePending, racy, early, answer>>

CloseDone(op) ==
    /\ op.what = "close"
    /\ fd' = "closed" /\ flying' = flying \ {op}
    /\ UNCHANGED <<main, cache, uv, caching, closing, disk, diskSize, racy, early, answer>>

Complete(op) ==
    /\ op \in flying /\ uv \in {"loop", "leaving"}
    /\ ReadDone(op) \/ ChunkDone(op) \/ ChunkLost(op) \/ WriteDone(op) \/ CloseDone(op)
    /\ UNCHANGED <<kind, wanted, size, handle, cached, written, last, failed, silent,
                   requests, taken, cancelled>>

(* A download: curl tells the size, hands over a chunk, and ends, by error *)
(* whenever it likes.  A download that is cancelled ends in an error.      *)
(* curl calls only when it hears of the server.                            *)
Downloading == Plain("download") \in flying /\ uv = "loop" /\ silent = 0

(* The server sends no more, and does not close the connection either. *)
FallSilent ==
    /\ Downloading
    /\ silent' = 1
    /\ UNCHANGED <<owner, failed, cache, requests, uv, caching, taken, cancelled, closing,
                   flying, system, racy, early, answer>>

XferInfo(n) ==
    /\ Downloading /\ cancelled = 0 /\ n > size
    /\ size' = n /\ cached' = 1 /\ progress' = "part"
    /\ UNCHANGED <<kind, main, wanted, handle, written, last, failed, silent, cache,
                   requests, uv, cachePtr, barrier, taken, cancelled, closing, flying,
                   system, racy, early, answer>>

CurlWrite ==
    /\ Downloading /\ cancelled = 0 /\ cachePtr < MaxSize
    /\ cachePtr' = cachePtr + 1
    /\ size' = IF cachePtr' > size THEN cachePtr' ELSE size
    /\ cached' = 1 /\ cache' = [cache EXCEPT ![cachePtr'] = 0] /\ progress' = "part"
    /\ UNCHANGED <<kind, main, wanted, handle, written, last, failed, silent, requests, uv,
                   barrier, taken, cancelled, closing, flying, system, racy, early, answer>>

(* mutant: a download that is cancelled is not given up *)
Ends_Mutant == cancelled = 0
Ends == TRUE

DownloadDone ==
    /\ Downloading /\ Ends
    /\ failed' \in IF cancelled = 1 \/ cachePtr < size THEN {1} ELSE {0, 1}
    /\ flying' = flying \ {Plain("download")}
    /\ progress' = "done" /\ uv' = "finishing"
    /\ UNCHANGED <<owner, silent, cache, requests, cachePtr, barrier, taken, cancelled,
                   closing, system, racy, early, answer>>

LoopEnds ==
    /\ uv = "leaving" /\ requests = << >> /\ flying = {}
    /\ uv' = "ended"
    /\ UNCHANGED <<owner, failed, silent, cache, requests, caching, taken, cancelled,
                   closing, flying, system, racy, early, answer>>

-----------------------------------------------------------------------------
Owner ==
    \/ StartCaching \/ (\E c \in Chunks : Read(c) \/ Write(c)) \/ Downloaded
    \/ Close \/ FinishClose \/ Stop \/ Unref \/ Join

Thread ==
    \/ Serve \/ Finish \/ (\E op \in flying : Complete(op)) \/ DownloadDone \/ LoopEnds
    \/ CurlWrite \/ \E n \in Chunks : XferInfo(n)

Next == Owner \/ Thread \/ FallSilent

(* libuv runs what is posted and completes what was submitted.  As long as *)
(* the server is heard of, curl asks whether to go on, and so ends a       *)
(* download that is cancelled, if no other; nothing wakes it for the       *)
(* cancellation alone.  The owner goes on once it began to close the file; *)
(* nothing makes it begin.                                                 *)
Submitted ==
    {Op(w, c, 0) : w \in {"read", "chunk"}, c \in Chunks}
    \cup {Op("write", c, v) : c \in Chunks, v \in Versions} \cup {Plain("close")}

Fairness ==
    /\ WF_vars(Serve) /\ WF_vars(Finish) /\ WF_vars(LoopEnds)
    /\ WF_vars(DownloadDone /\ cancelled = 1)
    /\ \A op \in Submitted : WF_vars(Complete(op))
    /\ WF_vars(FinishClose) /\ WF_vars(Stop \/ Unref \/ Join)

Spec == Init /\ [][Next]_vars
FairSpec == Spec /\ Fairness

-----------------------------------------------------------------------------
Ops == [what : {"none", "read", "write", "chunk", "cache", "cancel", "close", "closeNow",
                "download", "barrier", "unref", "answer"},
        at : 0 .. MaxSize, version : Versions \cup {Unset}]

TypeOK ==
    /\ kind \in Kinds /\ failed \in {0, 1}
    /\ main \in {"idle", "read", "await", "close", "closing", "gone", "stopping", "stopped",
                 "joining", "ended", "crashed"}
    /\ wanted \in 0 .. MaxSize /\ size \in 0 .. MaxSize /\ cachePtr \in Nat
    /\ handle \in {0, 1} /\ cached \in {0, 1}
    /\ cache \in [Chunks -> Versions \cup {Unset}]
    /\ requests \in Seq(Ops) /\ flying \subseteq Ops
    /\ uv \in {"loop", "finishing", "leaving", "ended", "crashed"}
    /\ progress \in {"none", "part", "done"} /\ barrier \in {0, 1} /\ taken \in Nat
    /\ cancelled \in {0, 1} /\ silent \in {0, 1} /\ early \in {0, 1}
    /\ closePending \in {0, 1} /\ pendingWrites \in Int
    /\ fd \in {"none", "open", "closing", "closed"}
    /\ disk \in [Chunks -> Versions] /\ diskSize \in 0 .. MaxSize
    /\ written \in Versions /\ last \in [Chunks -> Versions]
    /\ racy \subseteq Ops /\ answer \in Ops

Queued == {requests[i] : i \in DOMAIN requests}
Gone == main \in {"gone", "stopping", "stopped", "joining", "ended"}

(* The handle of the system, which another file may have by then, is never *)
(* used after it was closed, nor closed twice: a cached file that is only  *)
(* read closes it early, and writes put the close off (uvfile.cc:222).     *)
(* Unless its progress was rounded to 1 under the last chunk.              *)
HandleKept ==
    early = 0 /\ fd # "open" =>
        /\ \A op \in Queued : op.what \notin {"read", "write", "cache", "close", "closeNow"}
        /\ \A op \in flying : op.what \notin {"read", "write", "chunk"}

(* When the file is closed and its cache freed, nothing is left that would *)
(* fill the cache (uvfile.cc:215), unless its progress was rounded to 1    *)
(* under the last chunk.                                                   *)
CacheKept ==
    early = 0 /\ Gone => \A op \in Queued \cup flying : op.what \notin {"cache", "chunk", "download"}

(* Something of these kinds is queued or under way. *)
Comes(whats) == \E op \in Queued \cup flying : op.what \in whats

(* The future of the cache's promise is taken once: by the first read of a *)
(* download, or by close, not by both (uvfile.cc:212 and 438).  And        *)
(* whoever waits, for a read, for a cache that is filled or a download     *)
(* that is given up, for the thread to take notice or to end, waits for    *)
(* something that is queued or under way; a download under way may be      *)
(* silent.  (waitCache takes the future too, but nothing calls it.)        *)
WaitsRight ==
    /\ taken <= 1
    /\ main = "read" => Comes({"read"})
    /\ main \in {"await", "closing"} \/ (main = "idle" /\ ~MayWrite) =>
           barrier = 1 \/ uv = "finishing" \/ Comes({"cache", "chunk", "download"})
    /\ main = "closing" /\ kind = "download" => cancelled = 1
    /\ main = "stopping" => Comes({"barrier"})
    /\ main = "joining" => uv \in {"leaving", "ended"} \/ Comes({"unref"})

(* A read returns what was written last, from the file or from the cache,  *)
(* unless it, or the read that filled the cache, was submitted with a      *)
(* write of the same chunk in flight, or the progress was rounded to 1     *)
(* under the last chunk; a download that did not fail is whole.            *)
ReadsLast ==
    early = 0 /\ answer # None =>
        \/ answer.version = last[answer.at]
        \/ \E w \in {"read", "chunk", "write"} : Op(w, answer.at, 0) \in racy
        \/ kind = "download" /\ failed = 1

(* When the program is over, the file is closed and holds what was written *)
(* last, unless two writes of a chunk were in flight together.             *)
Durable ==
    main = "ended" =>
        /\ fd \in {"none", "closed"}
        /\ \A c \in Chunks : disk[c] = last[c] \/ Op("write", c, 0) \in racy

(* A file that is being closed is closed, in the middle of a cache or of a *)
(* download as well, and the thread can then be joined: nothing is left    *)
(* that would keep its loop busy.  Unless the server of a download falls   *)
(* silent, or a chunk is lost, to which only a rounded progress leads.     *)
CloseEnds == main \in {"close", "closing"} ~> main \in {"ended", "crashed"} \/ silent = 1
=============================================================================
