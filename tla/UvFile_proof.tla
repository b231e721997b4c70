---------------------------- MODULE UvFile_proof ----------------------------
(***************************************************************************)
(* That the state of UvFile stays well formed, that the future of the      *)
(* cache's promise is taken once, that whoever waits does so for something *)
(* that is under way, and that nothing fills the cache of a file that is   *)
(* gone, for files of every size and any number of writes.                 *)
(* A read makes the owner wait, so that there is one at most and close     *)
(* cannot come in between; the promise is kept only after the progress is  *)
(* "done", from when on nobody takes its future; and a cache is filled by  *)
(* one request or chunk at a time, whose end keeps the promise.            *)
(* That the handle is not used after it was closed: the request that       *)
(* closes it is the last one that needs it, and the writes that it waits   *)
(* for are counted right, as no two of them are the same.                  *)
(* And that a read returns, and a file that is over holds, what was        *)
(* written last: the writes are queued in their order, and unless two of   *)
(* a chunk fly together its last one is queued, or flies, or is done; a    *)
(* read is queued behind all of them.                                      *)
(***************************************************************************)
EXTENDS UvFile, TLAPS, SequenceTheorems, FiniteSetTheorems

Posted == {op \in Ops : /\ op.what \in {"read", "write", "chunk"} => op.at \in Chunks
                        /\ op.what = "write" => op.version \in Versions}

StateOK ==
    /\ kind \in Kinds /\ failed \in {0, 1}
    /\ main \in {"idle", "read", "await", "close", "closing", "gone", "stopping", "stopped",
                 "joining", "ended", "crashed"}
    /\ wanted \in 0 .. MaxSize /\ size \in 0 .. MaxSize /\ cachePtr \in Nat
    /\ handle \in {0, 1} /\ cached \in {0, 1}
    /\ cache \in [Chunks -> Versions \cup {Unset}]
    /\ uv \in {"loop", "finishing", "leaving", "ended", "crashed"}
    /\ progress \in {"none", "part", "done"} /\ barrier \in {0, 1} /\ taken \in Nat
    /\ cancelled \in {0, 1} /\ silent \in {0, 1} /\ early \in {0, 1}
    /\ closePending \in {0, 1} /\ pendingWrites \in Int
    /\ fd \in {"none", "open", "closing", "closed"}
    /\ disk \in [Chunks -> Versions] /\ diskSize \in 0 .. MaxSize
    /\ written \in Versions /\ last \in [Chunks -> Versions]

OpsOK == requests \in Seq(Posted) /\ flying \subseteq Posted

HistoryOK == racy \subseteq Ops /\ answer \in Ops /\ (main = "await" => wanted \in Chunks)

\* What fills the cache is the request to begin with, then one chunk after the other.
Class(op) == IF op.what = "cache" THEN "chunk" ELSE op.what
Once == {"read", "download", "chunk"}

\* A read keeps its owner waiting; a download, or a cache that is being filled, is not over, and its
\* file is not gone; stopThread's request comes when it is.
Allowed(op) ==
    /\ op.what = "read" => main = "read"
    /\ op.what = "download" =>
           /\ kind = "download" /\ barrier = 0 /\ progress # "done" /\ uv # "finishing"
           /\ ~Gone /\ main # "close"
    /\ op.what \in {"cache", "chunk"} =>
           /\ kind # "download" /\ cached = 1 /\ barrier = 0 /\ progress # "done" /\ uv # "finishing"
           /\ ~Gone /\ main # "close"
    /\ op.what = "barrier" => Gone

AllAllowed ==
    /\ \A i \in 1 .. Len(requests) : Allowed(requests[i])
    /\ \A op \in flying : Allowed(op)

\* There is one read at most, one download, and one that fills the cache.
Alone ==
    /\ \A i, j \in 1 .. Len(requests) :
           Class(requests[i]) = Class(requests[j]) /\ Class(requests[i]) \in Once => i = j
    /\ \A i \in 1 .. Len(requests) : \A op \in flying :
           Class(requests[i]) = Class(op) => Class(op) \notin Once
    /\ \A o, p \in flying : Class(o) = Class(p) /\ Class(o) \in Once => o = p

PromiseKept ==
    /\ barrier = 1 \/ uv = "finishing" => progress = "done" \/ Gone
    /\ main \in {"idle", "read"} => taken = 0 \/ (taken = 1 /\ progress = "done")
    /\ main = "await" => taken = 1 /\ kind = "download"
    /\ main = "close" /\ kind = "download" => progress = "done"
    /\ progress = "done" /\ kind # "download" => cached = 1
    /\ taken <= 1

IInv == main # "crashed" /\ StateOK /\ OpsOK /\ HistoryOK /\ AllAllowed /\ Alone /\ PromiseKept

\* A step that neither rounds the progress to 1 under the last chunk nor loses it.
Exact == early' = 0 /\ main' # "crashed"

-----------------------------------------------------------------------------
(* The queue. *)

LEMMA PlainPosted ==
    \A w \in {"cache", "cancel", "close", "closeNow", "download", "barrier", "unref"} :
        Plain(w) \in Posted /\ Plain(w).what = w
BY FileAssumption DEF Plain, Op, Posted, Ops, Versions, Unset, Chunks

LEMMA OpPosted ==
    ASSUME NEW c \in Chunks, NEW v \in Versions
    PROVE  /\ Op("read", c, 0) \in Posted /\ Op("chunk", c, 0) \in Posted /\ Op("write", c, v) \in Posted
           /\ Op("read", c, 0).what = "read" /\ Op("chunk", c, 0).what = "chunk" /\ Op("write", c, v).what = "write"
BY FileAssumption DEF Op, Posted, Ops, Versions, Unset, Chunks

\* What Post adds stands behind the rest.
LEMMA Appended ==
    ASSUME NEW S, NEW q \in Seq(S), NEW op \in S
    PROVE  /\ q \o <<op>> \in Seq(S) /\ Len(q \o <<op>>) = Len(q) + 1
           /\ \A i \in 1 .. Len(q) : (q \o <<op>>)[i] = q[i]
           /\ (q \o <<op>>)[Len(q) + 1] = op
OBVIOUS

\* The first of the queue is taken out, the others move up.
LEMMA MovedUp ==
    ASSUME NEW S, NEW q \in Seq(S), q # << >>
    PROVE  LET r == SubSeq(q, 1, 0) \o SubSeq(q, 2, Len(q))
           IN  /\ r \in Seq(S) /\ Len(r) = Len(q) - 1
               /\ \A i \in 1 .. Len(r) : r[i] = q[i + 1]
<1>1. SubSeq(q, 1, 0) = << >>
  OBVIOUS
<1>2. SubSeq(q, 2, Len(q)) \in Seq(S) /\ Len(SubSeq(q, 2, Len(q))) = Len(q) - 1
  <2>1. Len(q) \in Nat \ {0} /\ \A i \in 2 .. Len(q) : q[i] \in S
    <3>1. Len(q) \in Nat /\ \A i \in 1 .. Len(q) : q[i] \in S
      OBVIOUS
    <3>2. Len(q) # 0
      BY EmptySeq
    <3> QED
      BY <3>1, <3>2
  <2>2. /\ SubSeq(q, 2, Len(q)) \in Seq(S)
        /\ Len(SubSeq(q, 2, Len(q))) = IF 2 <= Len(q) THEN Len(q) - 2 + 1 ELSE 0
    BY <2>1, SubSeqProperties
  <2> DEFINE sub == SubSeq(q, 2, Len(q))
  <2>3. Len(sub) = IF 2 <= Len(q) THEN Len(q) - 2 + 1 ELSE 0
    BY <2>2
  <2> HIDE DEF sub
  <2>4. \A m \in Nat \ {0} : (IF 2 <= m THEN m - 2 + 1 ELSE 0) = m - 1
    OBVIOUS
  <2>5. Len(sub) = Len(q) - 1
    BY <2>1, <2>3, <2>4, Zenon
  <2> QED
    BY <2>2, <2>5, Zenon DEF sub
<1>3. \A i \in 1 .. Len(q) - 1 : SubSeq(q, 2, Len(q))[i] = q[i + 1]
  OBVIOUS
<1>4. << >> \o SubSeq(q, 2, Len(q)) = SubSeq(q, 2, Len(q))
  BY <1>2
<1> QED
  BY <1>1, <1>2, <1>3, <1>4

LEMMA PostKeeps ==
    ASSUME OpsOK, Alone, NEW op \in Posted, requests' = requests \o <<op>>, flying' = flying,
           Class(op) \in Once => /\ \A i \in 1 .. Len(requests) : Class(requests[i]) # Class(op)
                               /\ \A o \in flying : Class(o) # Class(op)
    PROVE  /\ OpsOK' /\ Alone'
           /\ \A i \in 1 .. Len(requests') :
                  requests'[i] = op \/ \E j \in 1 .. Len(requests) : requests'[i] = requests[j]
<1> DEFINE n == Len(requests)
<1>1. requests \in Seq(Posted) /\ n \in Nat
  BY DEF OpsOK
<1>2. /\ requests' \in Seq(Posted) /\ Len(requests') = n + 1
      /\ \A i \in 1 .. n : requests'[i] = requests[i]
      /\ requests'[n + 1] = op
  BY <1>1, Appended
<1>3. \A i \in 1 .. n + 1 : i \in 1 .. n \/ i = n + 1
  BY <1>1
<1>4. OpsOK'
  BY <1>2 DEF OpsOK
<1> HIDE DEF n
<1>5. \A i, j \in 1 .. n + 1 :
          Class(requests'[i]) = Class(requests'[j]) /\ Class(requests'[i]) \in Once => i = j
  BY <1>2, <1>3 DEF Alone, n
<1>6. \A i \in 1 .. n + 1 : \A o \in flying : Class(requests'[i]) = Class(o) => Class(o) \notin Once
  BY <1>2, <1>3 DEF Alone, n
<1> QED
  BY <1>2, <1>3, <1>4, <1>5, <1>6 DEF Alone, n

LEMMA ServeKeeps ==
    ASSUME OpsOK, Alone, requests # << >>, requests' = Without(1), NEW op \in Posted,
           flying' \subseteq flying \cup {op}, Class(op) \in Once => Class(op) = Class(requests[1])
    PROVE  /\ OpsOK' /\ Alone'
           /\ \A i \in 1 .. Len(requests') : \E j \in 2 .. Len(requests) : requests'[i] = requests[j]
<1> DEFINE n == Len(requests)
<1>1. requests \in Seq(Posted) /\ n \in Nat /\ n # 0
  BY DEF OpsOK
<1>2. /\ requests' \in Seq(Posted) /\ Len(requests') = n - 1
      /\ \A i \in 1 .. n - 1 : requests'[i] = requests[i + 1]
  <2>1. requests' = SubSeq(requests, 1, 0) \o SubSeq(requests, 2, n)
    BY DEF Without
  <2> QED
    BY <2>1, <1>1, MovedUp
<1>3. \A i \in 1 .. n - 1 : i + 1 \in 1 .. n /\ i + 1 \in 2 .. n /\ i + 1 # 1
  BY <1>1
<1>4. 1 \in 1 .. n
  BY <1>1
<1> HIDE DEF n
<1>5. OpsOK'
  BY <1>2 DEF OpsOK
<1>6. \A i, j \in 1 .. n - 1 :
          Class(requests'[i]) = Class(requests'[j]) /\ Class(requests'[i]) \in Once => i = j
  <2> TAKE i, j \in 1 .. n - 1
  <2>1. HAVE Class(requests'[i]) = Class(requests'[j]) /\ Class(requests'[i]) \in Once
  <2>2. i + 1 = j + 1
    BY <2>1, <1>2, <1>3 DEF Alone, n
  <2> QED
    BY <2>2, <1>1
<1>7. \A i \in 1 .. n - 1 : Class(requests'[i]) = Class(requests[1]) => Class(requests'[i]) \notin Once
  BY <1>2, <1>3, <1>4 DEF Alone, n
<1>8. \A i \in 1 .. n - 1 : \A o \in flying' : Class(requests'[i]) = Class(o) => Class(o) \notin Once
  BY <1>2, <1>3, <1>7 DEF Alone, n
<1>9. \A o, p \in flying' : Class(o) = Class(p) /\ Class(o) \in Once => o = p
  BY <1>4 DEF Alone, n
<1> QED
  BY <1>2, <1>3, <1>5, <1>6, <1>8, <1>9 DEF Alone, n

LEMMA CompleteKeeps ==
    ASSUME OpsOK, Alone, UNCHANGED requests, NEW gone, NEW op \in Posted,
           flying' \subseteq (flying \ {gone}) \cup {op},
           Class(op) \notin Once \/ (gone \in flying /\ Class(op) = Class(gone))
    PROVE  OpsOK' /\ Alone'
BY DEF OpsOK, Alone

-----------------------------------------------------------------------------
LEMMA IInvInit == Init => IInv
<1> SUFFICES ASSUME Init PROVE IInv
  OBVIOUS
<1>1. StateOK
  BY FileAssumption DEF Init, StateOK, Kinds, Versions, Unset, Chunks
<1>2. OpsOK /\ AllAllowed /\ Alone
  <2>1. CASE requests = << >>
    BY <2>1 DEF Init, OpsOK, AllAllowed, Alone
  <2>2. CASE kind = "download" /\ requests = <<Plain("download")>>
    <3>1. requests \in Seq(Posted) /\ Len(requests) = 1 /\ requests[1] = Plain("download")
      BY <2>2, PlainPosted
    <3>2. Allowed(requests[1])
      BY <3>1, <2>2, PlainPosted DEF Init, Allowed, Gone
    <3> QED
      BY <3>1, <3>2 DEF Init, OpsOK, AllAllowed, Alone
  <2> QED
    BY <2>1, <2>2 DEF Init
<1>3. HistoryOK
  BY FileAssumption DEF Init, HistoryOK, None, Plain, Op, Ops, Versions
<1>4. PromiseKept
  BY DEF Init, PromiseKept
<1>5. main # "crashed"
  BY DEF Init
<1> QED
  BY <1>1, <1>2, <1>3, <1>4, <1>5 DEF IInv

(* The first request in the queue is the one that is served. *)
LEMMA ServesFirst ==
    ASSUME OpsOK, Serve
    PROVE  /\ requests # << >> /\ requests[1] \in Posted /\ uv \in {"loop", "leaving"}
           /\ requests' = Without(1) /\ Run(requests[1])
           /\ UNCHANGED <<kind, wanted, size, handle, cached, written, last, failed, silent, cache,
                          taken, cancelled, disk, diskSize, early, answer>>
<1>1. PICK i \in 1 .. Len(requests) :
          /\ uv \in {"loop", "leaving"} /\ Turn(i) /\ requests' = Without(i) /\ Run(requests[i])
          /\ UNCHANGED <<kind, wanted, size, handle, cached, written, last, failed, silent, cache,
                         taken, cancelled, disk, diskSize, early, answer>>
  BY DEF Serve
<1>2. i = 1
  BY <1>1 DEF Turn
<1>3. requests \in Seq(Posted) /\ Len(requests) # 0
  BY <1>1, <1>2 DEF OpsOK
<1>4. requests # << >> /\ requests[1] \in Posted
  BY <1>1, <1>2, <1>3
<1> QED
  BY <1>1, <1>2, <1>4

LEMMA PostsNothing == ASSUME OpsOK, Post(<< >>) PROVE requests' = requests
BY DEF OpsOK, Post

LEMMA StateNext == ASSUME StateOK, OpsOK, Next PROVE StateOK'
<1> USE FileAssumption
<1>1. CASE StartCaching
  BY <1>1 DEF StartCaching, StateOK, caching, closing, system
<1>2. ASSUME NEW c \in Chunks, Read(c) PROVE StateOK'
  <2>1. c \in 0 .. MaxSize /\ taken + 1 \in Nat
    BY DEF Chunks, StateOK
  <2>2. CASE ReadCache(c)
    BY <1>2, <2>2 DEF Read, ReadCache, StateOK, caching, closing, system
  <2>3. CASE AwaitDownload(c)
    BY <1>2, <2>1, <2>3 DEF Read, AwaitDownload, StateOK, caching, closing, system
  <2>4. CASE ReadFile(c)
    BY <1>2, <2>1, <2>4 DEF Read, ReadFile, StateOK, caching, closing, system
  <2> QED
    BY <1>2, <2>2, <2>3, <2>4 DEF Read
<1>3. ASSUME NEW c \in Chunks, Write(c) PROVE StateOK'
  <2>1. written' \in Versions /\ written' \in Versions \cup {Unset} /\ c \in 0 .. MaxSize
    BY <1>3 DEF Write, StateOK, Versions, Chunks
  <2>2. last' \in [Chunks -> Versions] /\ cache' \in [Chunks -> Versions \cup {Unset}]
    BY <1>3, <2>1 DEF Write, StateOK
  <2>3. size' \in 0 .. MaxSize
    BY <1>3, <2>1 DEF Write, StateOK
  <2> QED
    BY <1>3, <2>1, <2>2, <2>3 DEF Write, StateOK, caching, closing, system
<1>4. CASE Downloaded
  BY <1>4 DEF Downloaded, StateOK, caching, closing, system
<1>5. CASE Close
  BY <1>5 DEF Close, StateOK, caching, closing, system
<1>6. CASE FinishClose
  BY <1>6 DEF FinishClose, StateOK, closing, system, Unset
<1>7. CASE Stop
  BY <1>7 DEF Stop, StateOK, caching, closing, system
<1>8. CASE Unref
  BY <1>8 DEF Unref, StateOK, caching, closing, system
<1>9. CASE Join
  BY <1>9 DEF Join, StateOK, caching, closing, system
<1>10. CASE Serve
  <2> DEFINE op == requests[1]
  <2>1. /\ op \in Posted /\ Run(op)
        /\ UNCHANGED <<kind, wanted, size, handle, cached, written, last, failed, silent, cache,
                       taken, cancelled, disk, diskSize, early>>
    BY <1>10, ServesFirst
  <2> HIDE DEF op
  <2>2. /\ main' \in {main, "stopped"} /\ uv' \in {uv, "finishing", "leaving"}
        /\ cachePtr' \in Nat /\ progress' \in {progress, "done"} /\ barrier' = barrier
        /\ pendingWrites' \in Int /\ closePending' \in {closePending, 1} /\ fd' \in {fd, "closing"}
    BY <2>1 DEF Run, Submit, ReadCacheChunk, CloseHandle, caching, closing, StateOK
  <2> QED
    BY <2>1, <2>2 DEF StateOK
<1>11. CASE Finish
  BY <1>11 DEF Finish, StateOK, owner, closing, system
<1>12. ASSUME NEW op \in flying, Complete(op) PROVE StateOK'
  <2>1. op \in Posted
    BY DEF OpsOK
  <2>2. CASE ReadDone(op)
    BY <1>12, <2>2 DEF Complete, ReadDone, StateOK, caching, closing, system
  <2>3. CASE ChunkDone(op)
    <3>1. op.at \in Chunks /\ disk[op.at] \in Versions
      BY <2>1, <2>3 DEF ChunkDone, Posted, StateOK
    <3>2. cache' \in [Chunks -> Versions \cup {Unset}]
      BY <2>3, <3>1 DEF ChunkDone, StateOK
    <3>3. /\ cachePtr' \in Nat /\ progress' \in {"none", "part", "done"} /\ uv' \in {uv, "finishing"}
          /\ early' \in {0, 1}
      BY <2>3 DEF ChunkDone, Ratio, ReadCacheChunk, StateOK
    <3> QED
      BY <1>12, <2>3, <3>2, <3>3 DEF Complete, ChunkDone, StateOK, closing, system
  <2>4. CASE WriteDone(op)
    <3>1. op.at \in Chunks /\ op.version \in Versions /\ op.at \in 0 .. MaxSize
      BY <2>1, <2>4 DEF WriteDone, Posted, Chunks
    <3>2. disk' \in [Chunks -> Versions] /\ diskSize' \in 0 .. MaxSize
      BY <2>4, <3>1 DEF WriteDone, Land, StateOK
    <3>3. pendingWrites' \in Int /\ fd' \in {fd, "closing"}
      BY <2>4 DEF WriteDone, StateOK
    <3> QED
      BY <1>12, <2>4, <3>2, <3>3 DEF Complete, WriteDone, StateOK, caching
  <2>5. CASE CloseDone(op)
    BY <1>12, <2>5 DEF Complete, CloseDone, StateOK, caching, closing
  <2>6. CASE ChunkLost(op)
    BY <1>12, <2>6 DEF Complete, ChunkLost, StateOK, caching, closing, system
  <2> QED
    BY <1>12, <2>2, <2>3, <2>4, <2>5, <2>6 DEF Complete
<1>13. CASE DownloadDone
  BY <1>13 DEF DownloadDone, StateOK, owner, closing, system
<1>14. CASE LoopEnds
  BY <1>14 DEF LoopEnds, StateOK, owner, caching, closing, system
<1>15. CASE CurlWrite
  <2>1. cachePtr' \in Nat /\ cachePtr' \in 0 .. MaxSize /\ 0 \in Versions
    BY <1>15 DEF CurlWrite, StateOK, Versions
  <2>2. size' \in 0 .. MaxSize /\ cache' \in [Chunks -> Versions \cup {Unset}]
    BY <1>15, <2>1 DEF CurlWrite, StateOK
  <2> QED
    BY <1>15, <2>1, <2>2 DEF CurlWrite, StateOK, closing, system
<1>16. ASSUME NEW n \in Chunks, XferInfo(n) PROVE StateOK'
  BY <1>16 DEF XferInfo, StateOK, closing, system, Chunks
<1>17. CASE FallSilent
  BY <1>17 DEF FallSilent, StateOK, owner, caching, closing, system
<1> QED
  BY <1>1, <1>2, <1>3, <1>4, <1>5, <1>6, <1>7, <1>8, <1>9, <1>10, <1>11, <1>12, <1>13, <1>14, <1>15,
     <1>16, <1>17 DEF Next, Owner, Thread

-----------------------------------------------------------------------------
(* The history. *)

LEMMA ChunkSubmitted ==
    ASSUME StateOK, NEW ptr \in Nat, NEW others, NEW stored, ReadCacheChunk(ptr, others, stored)
    PROVE  \/ flying' = others /\ racy' = racy /\ progress' = "done" /\ uv' = "finishing"
           \/ /\ Op("chunk", ptr + 1, 0) \in Posted /\ flying' = others \cup {Op("chunk", ptr + 1, 0)}
              /\ racy' \in {racy, racy \cup {Op("chunk", ptr + 1, 0)}}
              /\ progress' = stored /\ uv' = uv /\ ptr < size
<1>1. CASE ptr >= size
  BY <1>1 DEF ReadCacheChunk
<1>2. CASE ~(ptr >= size)
  <2>1. ptr + 1 \in Chunks /\ 0 \in Versions
    BY <1>2, FileAssumption DEF StateOK, Chunks, Versions
  <2>2. ptr < size
    BY <1>2, FileAssumption DEF StateOK
  <2> QED
    BY <1>2, <2>1, <2>2, OpPosted DEF ReadCacheChunk
<1> QED
  BY <1>1, <1>2

\* What a chunk that came makes of the progress is not "done" while there is more to come.
LEMMA ChunkGoesOn ==
    ASSUME StateOK, NEW op \in flying, ChunkDone(op)
    PROVE  \E ptr \in Nat, stored \in {"none", "part", "done"} :
               /\ ReadCacheChunk(ptr, flying \ {op}, stored)
               /\ Exact /\ ptr < size => stored # "done"
<1>1. PICK ptr \in Nat, stored \in {"none", "part", "done"} :
          /\ ReadCacheChunk(ptr, flying \ {op}, stored)
          /\ early' = IF ptr < size /\ progress' = "done" THEN 1 ELSE early
  BY DEF ChunkDone, Ratio, StateOK
<1>2. ptr < size => ~(ptr >= size)
  BY FileAssumption DEF StateOK
<1> QED
  BY <1>1, <1>2 DEF ReadCacheChunk, Exact

LEMMA AnswerOK == ASSUME NEW c \in Chunks, NEW v \in Versions \cup {Unset} PROVE Op("answer", c, v) \in Ops
BY FileAssumption DEF Op, Ops, Chunks

LEMMA NoneOK == None \in Ops
BY FileAssumption DEF None, Plain, Op, Ops, Versions

LEMMA HistoryNext == ASSUME StateOK, OpsOK, HistoryOK, Next PROVE HistoryOK'
<1>1. CASE StartCaching
  BY <1>1 DEF StartCaching, HistoryOK
<1>2. ASSUME NEW c \in Chunks, Read(c) PROVE HistoryOK'
  <2>1. CASE ReadCache(c)
    BY <1>2, <2>1, AnswerOK DEF Read, ReadCache, HistoryOK, StateOK
  <2>2. CASE AwaitDownload(c)
    BY <1>2, <2>2 DEF Read, AwaitDownload, HistoryOK
  <2>3. CASE ReadFile(c)
    BY <1>2, <2>3 DEF Read, ReadFile, HistoryOK
  <2> QED
    BY <1>2, <2>1, <2>2, <2>3 DEF Read
<1>3. ASSUME NEW c \in Chunks, Write(c) PROVE HistoryOK'
  BY <1>3, NoneOK DEF Write, HistoryOK
<1>4. CASE Downloaded
  BY <1>4, AnswerOK DEF Downloaded, HistoryOK, StateOK
<1>5. CASE Close \/ FinishClose \/ Stop \/ Unref \/ Join
  BY <1>5 DEF Close, FinishClose, Stop, Unref, Join, HistoryOK
<1>6. CASE Serve
  <2> DEFINE op == requests[1]
  <2>1. op \in Posted /\ Run(op) /\ answer' = answer /\ wanted' = wanted
    BY <1>6, ServesFirst
  <2> HIDE DEF op
  <2>2. main' = main \/ main' = "stopped"
    BY <2>1 DEF Run
  <2>3. racy' \subseteq Ops
    <3>1. CASE Submit(op)
      <4>1. Op(op.what, op.at, 0) \in Ops
        BY <2>1, FileAssumption DEF Posted, Op, Ops, Versions
      <4> QED
        BY <3>1, <4>1 DEF Submit, HistoryOK
    <3>2. CASE ReadCacheChunk(cachePtr, flying, progress)
      BY <3>2, ChunkSubmitted DEF HistoryOK, StateOK, Posted
    <3> QED
      BY <2>1, <3>1, <3>2 DEF Run, HistoryOK
  <2> QED
    BY <2>1, <2>2, <2>3 DEF HistoryOK
<1>7. ASSUME NEW op \in flying, Complete(op) PROVE HistoryOK'
  <2>1. op \in Posted /\ wanted' = wanted
    BY <1>7 DEF OpsOK, Complete
  <2>2. CASE ReadDone(op)
    <3>1. op.at \in Chunks
      BY <2>1, <2>2 DEF ReadDone, Posted
    <3> QED
      BY <2>2, <3>1, AnswerOK, NoneOK DEF ReadDone, HistoryOK, StateOK, Versions
  <2>3. CASE ChunkDone(op)
    <3>1. PICK ptr \in Nat, stored \in {"none", "part", "done"} :
              ReadCacheChunk(ptr, flying \ {op}, stored)
      BY <2>3, ChunkGoesOn
    <3> QED
      BY <2>1, <2>3, <3>1, ChunkSubmitted DEF ChunkDone, HistoryOK, Posted
  <2>4. CASE WriteDone(op) \/ CloseDone(op) \/ ChunkLost(op)
    BY <2>1, <2>4 DEF WriteDone, CloseDone, ChunkLost, HistoryOK
  <2> QED
    BY <1>7, <2>2, <2>3, <2>4 DEF Complete
<1>8. CASE Finish \/ DownloadDone \/ LoopEnds \/ CurlWrite \/ (\E n \in Chunks : XferInfo(n)) \/ FallSilent
  BY <1>8 DEF Finish, DownloadDone, LoopEnds, CurlWrite, XferInfo, FallSilent, HistoryOK, owner
<1> QED
  BY <1>1, <1>2, <1>3, <1>4, <1>5, <1>6, <1>7, <1>8 DEF Next, Owner, Thread

-----------------------------------------------------------------------------
(* The requests and the operations. *)

LEMMA PostAllowed ==
    ASSUME OpsOK, Alone, AllAllowed, NEW op \in Posted, flying' = flying, Allowed(op)',
           requests' = requests \o <<op>> \/ requests' = requests,
           Class(op) \in Once => /\ \A i \in 1 .. Len(requests) : Class(requests[i]) # Class(op)
                                 /\ \A o \in flying : Class(o) # Class(op),
           \A o \in Posted : Allowed(o) => Allowed(o)'
    PROVE  OpsOK' /\ Alone' /\ AllAllowed'
<1>1. \A i \in 1 .. Len(requests) : requests[i] \in Posted
  BY DEF OpsOK
<1>2. OpsOK' /\ Alone'
  <2>1. CASE requests' = requests
    BY <2>1 DEF OpsOK, Alone
  <2> QED
    BY <2>1, PostKeeps
<1>3. \A i \in 1 .. Len(requests') :
          requests'[i] = op \/ \E j \in 1 .. Len(requests) : requests'[i] = requests[j]
  <2>1. CASE requests' = requests
    BY <2>1
  <2> QED
    BY <2>1, PostKeeps
<1>4. ASSUME NEW i \in 1 .. Len(requests') PROVE Allowed(requests[i])'
  <2>1. CASE requests'[i] = op
    BY <2>1 DEF Allowed
  <2>2. ASSUME NEW j \in 1 .. Len(requests), requests'[i] = requests[j] PROVE Allowed(requests[i])'
    <3>1. requests[j] \in Posted /\ Allowed(requests[j])
      BY <1>1 DEF AllAllowed
    <3> QED
      BY <2>2, <3>1 DEF Allowed
  <2> QED
    BY <1>3, <2>1, <2>2
<1>5. \A o \in flying : Allowed(o)'
  BY DEF AllAllowed, OpsOK
<1> QED
  BY <1>2, <1>4, <1>5 DEF AllAllowed

\* What is in the queue or in flight while the owner does something.
LEMMA WhileIdle ==
    ASSUME AllAllowed, main \in {"idle", "await", "close", "closing"}
    PROVE  /\ \A i \in 1 .. Len(requests) : requests[i].what \notin {"read", "barrier"}
           /\ \A o \in flying : o.what \notin {"read", "barrier"}
BY DEF AllAllowed, Allowed, Gone

LEMMA PlainClass ==
    \A w \in {"cancel", "close", "closeNow", "barrier", "unref"} : Class(Plain(w)) \notin Once
BY DEF Plain, Op, Class, Once

LEMMA OwnerKeeps == ASSUME IInv, Owner PROVE OpsOK' /\ Alone' /\ AllAllowed'
<1> USE DEF IInv
<1>1. CASE StartCaching
  <2>1. \A o \in Posted : Allowed(o) => Allowed(o)'
    BY <1>1 DEF StartCaching, Allowed, Gone, caching
  <2>2. CASE failed = 1
    <3>1. requests' = requests /\ flying' = flying
      BY <1>1, <2>2, PostsNothing DEF StartCaching
    <3>2. Allowed(Plain("unref"))'
      BY PlainPosted DEF Allowed
    <3> QED
      BY <2>1, <3>1, <3>2, PostAllowed, PlainPosted, PlainClass
  <2>3. CASE failed # 1
    <3>1. failed = 0
      BY <2>3 DEF StateOK
    <3>2. /\ requests' = requests \o <<Plain("cache")>> /\ flying' = flying
          /\ cached = 0 /\ cached' = 1 /\ main = "idle" /\ kind # "download"
          /\ UNCHANGED <<kind, main, uv, barrier, progress>>
      BY <1>1, <3>1 DEF StartCaching, Post, caching
    <3>3. progress # "done" /\ barrier = 0 /\ uv # "finishing"
      BY <3>2 DEF PromiseKept, StateOK, Gone
    <3>4. Allowed(Plain("cache"))'
      BY <3>2, <3>3, PlainPosted DEF Allowed, Gone
    <3>5. Class(Plain("cache")) = "chunk"
      BY PlainPosted DEF Class
    <3>6. \A o : Allowed(o) => Class(o) # "chunk"
      BY <3>2 DEF Allowed, Class
    <3>7. /\ \A i \in 1 .. Len(requests) : Class(requests[i]) # "chunk"
          /\ \A o \in flying : Class(o) # "chunk"
      BY <3>6 DEF AllAllowed
    <3> QED
      BY <2>1, <3>2, <3>4, <3>5, <3>7, PostAllowed, PlainPosted
  <2> QED
    BY <2>2, <2>3
<1>2. ASSUME NEW c \in Chunks, Read(c) PROVE OpsOK' /\ Alone' /\ AllAllowed'
  <2>1. main = "idle" /\ UNCHANGED <<kind, cached, uv, barrier, progress, flying>>
    BY <1>2 DEF Read, caching
  <2>2. \A o \in Posted : Allowed(o) => Allowed(o)'
    BY <1>2, <2>1 DEF Read, ReadCache, AwaitDownload, ReadFile, Allowed, Gone
  <2>3. CASE ReadCache(c) \/ AwaitDownload(c)
    <3>1. requests' = requests \/ requests' = requests \o <<Plain("closeNow")>>
      BY <2>3, PostsNothing DEF ReadCache, AwaitDownload, Post
    <3>2. Allowed(Plain("closeNow"))'
      BY PlainPosted DEF Allowed
    <3> QED
      BY <2>1, <2>2, <3>1, <3>2, PostAllowed, PlainPosted, PlainClass
  <2>4. CASE ReadFile(c)
    <3> DEFINE op == Op("read", c, 0)
    <3>1. op \in Posted /\ op.what = "read"
      BY OpPosted, FileAssumption DEF Versions
    <3>2. requests' = requests \o <<op>> /\ main' = "read"
      BY <2>4 DEF ReadFile, Post
    <3> HIDE DEF op
    <3>3. Allowed(op)'
      BY <3>1, <3>2 DEF Allowed
    <3>4. Class(op) = "read" /\ \A o : Class(o) = "read" => o.what = "read"
      BY <3>1 DEF Class
    <3>5. /\ \A i \in 1 .. Len(requests) : Class(requests[i]) # Class(op)
          /\ \A o \in flying : Class(o) # Class(op)
      BY <2>1, <3>4, WhileIdle
    <3> QED
      BY <2>1, <2>2, <3>1, <3>2, <3>3, <3>5, PostAllowed
  <2> QED
    BY <1>2, <2>3, <2>4 DEF Read
<1>3. ASSUME NEW c \in Chunks, Write(c) PROVE OpsOK' /\ Alone' /\ AllAllowed'
  <2>1. PICK v \in Versions : requests' = requests \o <<Op("write", c, v)>>
    <3>1. written \in Versions
      BY DEF StateOK
    <3>2. written' \in Versions
      BY <1>3, <3>1, FileAssumption DEF Write, Versions
    <3>3. requests' = requests \o <<Op("write", c, written')>>
      BY <1>3 DEF Write, Post
    <3> QED
      BY <3>2, <3>3
  <2> DEFINE op == Op("write", c, v)
  <2>2. op \in Posted /\ op.what = "write" /\ Class(op) \notin Once
    BY OpPosted DEF Class, Once
  <2>3. requests' = requests \o <<op>>
    BY <2>1
  <2>4. \A o \in Posted : Allowed(o) => Allowed(o)'
    BY <1>3 DEF Write, Allowed, Gone, caching
  <2> HIDE DEF op
  <2>5. Allowed(op)'
    BY <2>2 DEF Allowed
  <2> QED
    BY <1>3, <2>2, <2>3, <2>4, <2>5, PostAllowed DEF Write
<1>4. CASE Downloaded
  <2>1. \A o \in Posted : Allowed(o) => Allowed(o)'
    BY <1>4 DEF Downloaded, Allowed, Gone, caching
  <2>2. Allowed(Plain("close"))'
    BY PlainPosted DEF Allowed
  <2> QED
    BY <1>4, <2>1, <2>2, PostAllowed, PlainPosted, PlainClass DEF Downloaded
<1>5. CASE Close
  <2>1. \A o \in Posted : Allowed(o) => Allowed(o)'
    BY <1>5 DEF Close, Unfinished, Allowed, Gone, caching
  <2>2. requests' = requests \/ requests' = requests \o <<Plain("cancel")>>
    BY <1>5, PostsNothing DEF Close, Post
  <2>3. Allowed(Plain("cancel"))'
    BY PlainPosted DEF Allowed
  <2> QED
    BY <1>5, <2>1, <2>2, <2>3, PostAllowed, PlainPosted, PlainClass DEF Close
<1>6. CASE FinishClose
  <2>1. \A o \in Posted : Allowed(o) => Allowed(o)'
    BY <1>6 DEF FinishClose, MayFree, Allowed, Gone
  <2>2. requests' = requests \/ requests' = requests \o <<Plain("close")>>
    BY <1>6, PostsNothing DEF FinishClose, Post
  <2>3. Allowed(Plain("close"))'
    BY PlainPosted DEF Allowed
  <2> QED
    BY <1>6, <2>1, <2>2, <2>3, PostAllowed, PlainPosted, PlainClass DEF FinishClose
<1>7. CASE Stop
  <2>1. \A o \in Posted : Allowed(o) => Allowed(o)'
    BY <1>7 DEF Stop, Allowed, Gone, caching
  <2>2. Allowed(Plain("barrier"))'
    BY <1>7, PlainPosted DEF Stop, Allowed, Gone
  <2> QED
    BY <1>7, <2>1, <2>2, PostAllowed, PlainPosted, PlainClass DEF Stop, Post
<1>8. CASE Unref
  <2>1. \A o \in Posted : Allowed(o) => Allowed(o)'
    BY <1>8 DEF Unref, Allowed, Gone, caching
  <2>2. Allowed(Plain("unref"))'
    BY PlainPosted DEF Allowed
  <2> QED
    BY <1>8, <2>1, <2>2, PostAllowed, PlainPosted, PlainClass DEF Unref, Post
<1>9. CASE Join
  <2>1. \A o \in Posted : Allowed(o) => Allowed(o)'
    BY <1>9 DEF Join, Allowed, Gone, caching
  <2>2. Allowed(Plain("unref"))'
    BY PlainPosted DEF Allowed
  <2> QED
    BY <1>9, <2>1, <2>2, PostAllowed, PlainPosted, PlainClass DEF Join
<1> QED
  BY <1>1, <1>2, <1>3, <1>4, <1>5, <1>6, <1>7, <1>8, <1>9 DEF Owner

LEMMA ServeAllowed ==
    ASSUME IInv, Serve
    PROVE  OpsOK' /\ Alone' /\ AllAllowed'
<1> USE DEF IInv
<1>0. Plain("close") \in Posted /\ Allowed(Plain("close"))' /\ Class(Plain("close")) \notin Once
  BY PlainPosted, PlainClass DEF Allowed
<1>1. PICK op \in Posted :
          /\ op = requests[1] /\ requests # << >> /\ Run(op) /\ requests' = Without(1)
          /\ kind' = kind /\ cached' = cached /\ uv \in {"loop", "leaving"}
  BY ServesFirst
<1>2. Allowed(op) /\ 1 \in 1 .. Len(requests) /\ \A i \in 1 .. Len(requests) : requests[i] \in Posted
  <2>1. Len(requests) \in Nat /\ Len(requests) # 0
    BY <1>1 DEF OpsOK
  <2> QED
    BY <1>1, <2>1 DEF AllAllowed, OpsOK
<1>3. op.what = "barrier" => /\ \A i \in 1 .. Len(requests) : requests[i].what # "read"
                             /\ \A o \in flying : o.what # "read"
  BY <1>2 DEF AllAllowed, Allowed, Gone
<1>fill. op.what = "cache" => /\ \A i \in 2 .. Len(requests) : Class(requests[i]) # "chunk"
                            /\ \A o \in flying : Class(o) # "chunk"
  <2> SUFFICES ASSUME op.what = "cache"
               PROVE  /\ \A i \in 2 .. Len(requests) : Class(requests[i]) # "chunk"
                      /\ \A o \in flying : Class(o) # "chunk"
    OBVIOUS
  <2>1. Class(requests[1]) = "chunk" /\ "chunk" \in Once
    BY <1>1 DEF Class, Once
  <2>2. Len(requests) \in Nat /\ \A i \in 2 .. Len(requests) : i \in 1 .. Len(requests) /\ i # 1
    BY DEF OpsOK
  <2>3. \A i \in 2 .. Len(requests) : Class(requests[i]) # "chunk"
    BY <1>2, <2>1, <2>2 DEF Alone
  <2>4. \A o \in flying : Class(o) # "chunk"
    BY <1>2, <2>1 DEF Alone
  <2> QED
    BY <2>3, <2>4
<1>4. ASSUME NEW o \in Posted, Allowed(o), op.what = "barrier" => o.what # "read",
             op.what = "cache" => Class(o) # "chunk"
      PROVE  Allowed(o)'
  <2>1. CASE op.what \in {"read", "write", "close", "closeNow", "cancel", "download", "unref"}
    BY <1>1, <1>4, <2>1 DEF Run, Allowed, Gone, caching
  <2>2. CASE op.what = "cache"
    <3>1. kind' # "download" /\ main' = main
      BY <1>1, <1>2, <2>2 DEF Run, Allowed
    <3>2. o.what # "download" /\ o.what \notin {"cache", "chunk"}
      BY <1>1, <1>4, <2>2, <3>1 DEF Allowed, Class
    <3> QED
      BY <1>4, <3>1, <3>2 DEF Allowed, Gone
  <2>3. CASE op.what = "barrier"
    BY <1>1, <1>2, <1>4, <2>3 DEF Run, Allowed, Gone, caching
  <2> QED
    BY <1>1, <2>1, <2>2, <2>3 DEF Run
<1>5. PICK p \in Posted : /\ flying' \subseteq flying \cup {p} /\ Allowed(p)'
                          /\ Class(p) \in Once => Class(p) = Class(op)
  <2>1. CASE op.what \in {"read", "write"}
    <3>1. flying' \subseteq flying \cup {op} /\ Allowed(op)'
      BY <1>1, <1>2, <1>4, <2>1 DEF Run, Submit
    <3> QED
      BY <1>1, <3>1
  <2>2. CASE op.what = "cache"
    <3>1. ReadCacheChunk(cachePtr, flying, progress)
      BY <1>1, <2>2 DEF Run
    <3>2. CASE flying' = flying
      BY <1>0, <3>2
    <3>3. ASSUME NEW chunk \in Posted, chunk.what = "chunk", flying' = flying \cup {chunk},
                 UNCHANGED <<progress, uv>>
          PROVE  /\ flying' \subseteq flying \cup {chunk} /\ Allowed(chunk)'
                 /\ Class(chunk) \in Once => Class(chunk) = Class(op)
      <4>1. Class(chunk) = Class(op)
        BY <2>2, <3>3 DEF Class
      <4>2. main' = main /\ barrier' = barrier
        BY <1>1, <2>2 DEF Run
      <4>3. Allowed(chunk)'
        BY <1>1, <1>2, <2>2, <3>3, <4>2 DEF Allowed, Gone
      <4> QED
        BY <3>3, <4>1, <4>3
    <3>4. \/ flying' = flying
          \/ \E chunk \in Posted : /\ chunk.what = "chunk" /\ flying' = flying \cup {chunk}
                                  /\ UNCHANGED <<progress, uv>>
      BY <3>1, ChunkSubmitted DEF StateOK, Op
    <3> QED
      BY <3>2, <3>3, <3>4
  <2>3. CASE op.what \in {"close", "closeNow", "cancel", "barrier", "unref"}
    <3>1. flying' \subseteq flying \cup {Plain("close")}
      BY <1>1, <2>3 DEF Run, CloseHandle
    <3> QED
      BY <1>0, <3>1
  <2>4. CASE op.what = "download"
    <3>1. flying' \subseteq flying \cup {Plain("download")}
      BY <1>1, <2>4 DEF Run
    <3>2. Plain("download") \in Posted /\ Plain("download").what = "download"
      BY PlainPosted
    <3>3. Allowed(Plain("download"))
      BY <1>2, <2>4, <3>2 DEF Allowed
    <3>4. Allowed(Plain("download"))' /\ Class(Plain("download")) = Class(op)
      BY <1>4, <2>4, <3>2, <3>3 DEF Class
    <3> QED
      BY <2>4, <3>1, <3>2, <3>4
  <2> QED
    BY <1>1, <2>1, <2>2, <2>3, <2>4 DEF Run
<1>6. /\ OpsOK' /\ Alone'
      /\ \A i \in 1 .. Len(requests') : \E j \in 2 .. Len(requests) : requests'[i] = requests[j]
  BY <1>1, <1>5, ServeKeeps
<1>7. ASSUME NEW i \in 1 .. Len(requests') PROVE Allowed(requests[i])'
  <2>1. PICK j \in 2 .. Len(requests) : requests'[i] = requests[j]
    BY <1>6
  <2>0. j \in 1 .. Len(requests)
    BY DEF OpsOK
  <2>2. PICK o \in Posted : /\ o = requests[j] /\ Allowed(o)
                            /\ op.what = "barrier" => o.what # "read"
                            /\ op.what = "cache" => Class(o) # "chunk"
    BY <1>2, <1>3, <1>fill, <2>0 DEF AllAllowed
  <2>3. Allowed(o)'
    BY <1>4, <2>2
  <2> QED
    BY <2>1, <2>2, <2>3 DEF Allowed
<1>8. \A o \in flying' : Allowed(o)'
  BY <1>3, <1>fill, <1>4, <1>5 DEF AllAllowed, OpsOK
<1> QED
  BY <1>6, <1>7, <1>8 DEF AllAllowed

\* The same for steps that leave the queue alone, and may hand on or end an operation.
LEMMA FlightAllowed ==
    ASSUME OpsOK, Alone, AllAllowed, requests' = requests, NEW gone, NEW p \in Posted,
           flying' \subseteq (flying \ {gone}) \cup {p}, Allowed(p)',
           Class(p) \notin Once \/ (gone \in flying /\ Class(p) = Class(gone)),
           \A o \in Posted : Allowed(o) /\ (Class(o) \in Once => o # gone /\ Class(gone) # Class(o)) => Allowed(o)',
           gone \in flying \/ Class(gone) \notin Once
    PROVE  OpsOK' /\ Alone' /\ AllAllowed'
<1>1. OpsOK' /\ Alone'
  BY CompleteKeeps
<1>2. ASSUME NEW i \in 1 .. Len(requests) PROVE Allowed(requests[i])'
  <2>1. PICK o \in Posted : o = requests[i] /\ Allowed(o)
    BY DEF OpsOK, AllAllowed
  <2>2. Class(o) \in Once => Class(gone) # Class(o) /\ o # gone
    BY <2>1 DEF Alone
  <2>3. Allowed(o)'
    BY <2>1, <2>2
  <2> QED
    BY <2>1, <2>3 DEF Allowed
<1>3. ASSUME NEW o \in flying' PROVE Allowed(o)'
  <2>1. CASE o = p
    BY <2>1
  <2>2. CASE o \in flying /\ o # gone
    <3>1. o \in Posted /\ Allowed(o)
      BY <2>2 DEF OpsOK, AllAllowed
    <3>2. Class(o) \in Once => Class(gone) # Class(o)
      BY <2>2 DEF Alone
    <3> QED
      BY <2>2, <3>1, <3>2
  <2> QED
    BY <2>1, <2>2
<1> QED
  BY <1>1, <1>2, <1>3 DEF AllAllowed

LEMMA ThreadKeeps == ASSUME IInv, Thread \/ FallSilent, Exact PROVE OpsOK' /\ Alone' /\ AllAllowed'
<1> USE DEF IInv
<1> DEFINE close == Plain("close")
<1>0. close \in Posted /\ Class(close) \notin Once /\ Allowed(close)'
  BY PlainPosted, PlainClass DEF Allowed
<1> HIDE DEF close
<1>1. CASE Serve
  BY <1>1, ServeAllowed
<1>2. CASE Finish
  <2>1. \A o \in Posted : Allowed(o) => Allowed(o)'
    BY <1>2 DEF Finish, Allowed, Gone, owner
  <2> QED
    BY <1>0, <1>2, <2>1, FlightAllowed DEF Finish
<1>3. ASSUME NEW op \in flying, Complete(op) PROVE OpsOK' /\ Alone' /\ AllAllowed'
  <2>1. op \in Posted /\ Allowed(op) /\ requests' = requests /\ kind' = kind /\ cached' = cached
    BY <1>3 DEF Complete, OpsOK, AllAllowed
  <2>2. CASE ReadDone(op)
    <3>1. \A o \in Posted : Allowed(o) /\ o.what # "read" => Allowed(o)'
      BY <2>1, <2>2 DEF ReadDone, Allowed, Gone, caching
    <3>2. Class(op) = "read" /\ \A o : o.what = "read" => Class(o) = "read" /\ Class(o) \in Once
      BY <2>2 DEF ReadDone, Class, Once
    <3>3. flying' \subseteq (flying \ {op}) \cup {close}
      BY <2>2 DEF ReadDone
    <3> QED
      BY <1>0, <2>1, <3>1, <3>2, <3>3, FlightAllowed
  <2>3. CASE ChunkDone(op)
    <3>1. PICK ptr \in Nat, stored \in {"none", "part", "done"} :
              ReadCacheChunk(ptr, flying \ {op}, stored) /\ (ptr < size => stored # "done")
      BY <2>3, ChunkGoesOn
    <3>2. /\ kind # "download" /\ main' = main /\ barrier' = barrier
          /\ op.what = "chunk" /\ Class(op) = "chunk"
      BY <2>1, <2>3 DEF ChunkDone, Allowed, Class
    <3>3. \A o \in Posted : Allowed(o) /\ o.what \notin {"cache", "chunk"} => Allowed(o)'
      BY <2>1, <3>2 DEF Allowed, Gone
    <3>4. \A o : o.what \in {"cache", "chunk"} => Class(o) = "chunk" /\ Class(o) \in Once
      BY DEF Class, Once
    <3>5. \A o \in Posted : Allowed(o) /\ (Class(o) \in Once => o # op /\ Class(op) # Class(o)) => Allowed(o)'
      BY <3>2, <3>3, <3>4
    <3>6. CASE flying' = flying \ {op}
      BY <1>0, <2>1, <3>5, <3>6, FlightAllowed
    <3> DEFINE chunk == Op("chunk", ptr + 1, 0)
    <3>7. CASE /\ chunk \in Posted /\ flying' = (flying \ {op}) \cup {chunk}
               /\ progress' # "done" /\ uv' = uv
      <4>1. chunk.what = "chunk" /\ Class(chunk) = "chunk"
        BY DEF Op, Class
      <4> HIDE DEF chunk
      <4>2. Allowed(chunk)'
        BY <2>1, <3>2, <3>7, <4>1 DEF Allowed, Gone
      <4> QED
        BY <2>1, <3>2, <3>5, <3>7, <4>1, <4>2, FlightAllowed
    <3> QED
      BY <3>1, <3>6, <3>7, ChunkSubmitted
  <2>4. CASE WriteDone(op) \/ CloseDone(op)
    <3>1. flying' \subseteq (flying \ {op}) \cup {close} /\ Class(op) \notin Once
      BY <2>4 DEF WriteDone, CloseDone, close, Class, Once
    <3>2. \A o \in Posted : Allowed(o) => Allowed(o)'
      BY <2>1, <2>4 DEF WriteDone, CloseDone, Allowed, Gone, caching
    <3> QED
      BY <1>0, <2>1, <3>1, <3>2, FlightAllowed
  <2> QED
    BY <1>3, <2>2, <2>3, <2>4 DEF Complete, ChunkLost, Exact
<1>4. CASE DownloadDone
  <2> DEFINE op == Plain("download")
  <2>1. op \in flying /\ op.what = "download" /\ flying' = flying \ {op}
    BY <1>4, PlainPosted DEF DownloadDone, Downloading
  <2> HIDE DEF op
  <2>2. kind = "download"
    BY <2>1 DEF AllAllowed, Allowed
  <2>3. \A o \in Posted : Allowed(o) /\ o.what # "download" => Allowed(o)'
    BY <1>4, <2>2 DEF DownloadDone, Allowed, Gone, owner
  <2>4. Class(op) = "download" /\ \A o : o.what = "download" => Class(o) = "download" /\ Class(o) \in Once
    BY <2>1 DEF Class, Once
  <2>5. requests' = requests /\ op \in Posted
    BY <1>4, <2>1 DEF DownloadDone, OpsOK
  <2>6. \A o \in Posted : Allowed(o) /\ (Class(o) \in Once => o # op /\ Class(op) # Class(o)) => Allowed(o)'
    BY <2>3, <2>4
  <2> QED
    BY <1>0, <2>1, <2>5, <2>6, FlightAllowed
<1>5. CASE LoopEnds \/ FallSilent
  <2>1. \A o \in Posted : Allowed(o) => Allowed(o)'
    BY <1>5 DEF LoopEnds, FallSilent, Allowed, Gone, owner, caching
  <2> QED
    BY <1>0, <1>5, <2>1, FlightAllowed DEF LoopEnds, FallSilent
<1>6. CASE CurlWrite \/ (\E n \in Chunks : XferInfo(n))
  <2>0. kind = "download"
    BY <1>6, PlainPosted DEF CurlWrite, XferInfo, Downloading, AllAllowed, Allowed
  <2>1. \A o \in Posted : Allowed(o) => Allowed(o)'
    BY <1>6, <2>0 DEF CurlWrite, XferInfo, Allowed, Gone
  <2>2. requests' = requests /\ flying' = flying
    BY <1>6 DEF CurlWrite, XferInfo
  <2> QED
    BY <1>0, <2>1, <2>2, FlightAllowed
<1> QED
  BY <1>1, <1>2, <1>3, <1>4, <1>5, <1>6 DEF Thread

-----------------------------------------------------------------------------
LEMMA PromiseNext == ASSUME IInv, Next, Exact PROVE PromiseKept'
<1> USE DEF IInv
<1>1. CASE StartCaching
  BY <1>1 DEF StartCaching, PromiseKept, Gone, caching
<1>2. ASSUME NEW c \in Chunks, Read(c) PROVE PromiseKept'
  BY <1>2 DEF Read, ReadCache, AwaitDownload, ReadFile, PromiseKept, Gone, caching
<1>3. ASSUME NEW c \in Chunks, Write(c) PROVE PromiseKept'
  BY <1>3 DEF Write, PromiseKept, Gone, caching
<1>4. CASE Downloaded
  BY <1>4 DEF Downloaded, PromiseKept, Gone, caching
<1>5. CASE Close
  BY <1>5 DEF Close, Unfinished, PromiseKept, Gone, caching
<1>6. CASE FinishClose
  BY <1>6 DEF FinishClose, PromiseKept, Gone
<1>7. CASE Stop \/ Unref \/ Join
  BY <1>7 DEF Stop, Unref, Join, PromiseKept, Gone, caching
<1>8. CASE Serve
  <2>1. PICK op \in Posted : Run(op) /\ UNCHANGED <<taken, kind, cached>> /\ Allowed(op)
    <3>1. 1 \in 1 .. Len(requests)
      BY <1>8, ServesFirst DEF OpsOK
    <3> QED
      BY <1>8, <3>1, ServesFirst DEF AllAllowed
  <2>2. /\ barrier' = barrier
        /\ main' = main \/ (Gone /\ main' = "stopped")
        /\ progress' = progress \/ progress' = "done"
        /\ uv' = "finishing" => progress' = "done" \/ uv = "finishing"
    <3>1. CASE op.what = "cache"
      <4>1. ReadCacheChunk(cachePtr, flying, progress) /\ barrier' = barrier /\ main' = main
        BY <2>1, <3>1 DEF Run
      <4> QED
        BY <4>1, ChunkSubmitted DEF StateOK
    <3>2. CASE op.what # "cache"
      BY <2>1, <3>2 DEF Run, caching, Allowed
    <3> QED
      BY <3>1, <3>2
  <2>3. progress = "done" => progress' = "done"
    BY <2>2
  <2>4. Gone => Gone'
    BY <2>2 DEF Gone
  <2>5. progress' = progress \/ kind = "download" \/ cached = 1
    BY <2>1 DEF Run, caching, Allowed
  <2> QED
    BY <2>1, <2>2, <2>3, <2>4, <2>5 DEF PromiseKept, Gone
<1>9. CASE Finish
  BY <1>9 DEF Finish, PromiseKept, Gone, owner
<1>10. ASSUME NEW op \in flying, Complete(op) PROVE PromiseKept'
  <2>1. UNCHANGED <<taken, kind, cached>> /\ Allowed(op)
    BY <1>10 DEF Complete, AllAllowed
  <2>2. CASE ReadDone(op)
    BY <2>1, <2>2 DEF ReadDone, PromiseKept, Gone, caching, Allowed
  <2>3. CASE ChunkDone(op)
    <3>1. PICK ptr \in Nat, stored \in {"none", "part", "done"} :
              ReadCacheChunk(ptr, flying \ {op}, stored) /\ (ptr < size => stored # "done")
      BY <2>3, ChunkGoesOn
    <3>2. main' = main /\ barrier' = barrier /\ cached = 1 /\ progress # "done" /\ kind # "download"
      BY <2>1, <2>3 DEF ChunkDone, Allowed
    <3>3. progress' = "done" \/ (progress' # "done" /\ uv' = uv)
      BY <3>1, ChunkSubmitted
    <3> QED
      BY <2>1, <3>2, <3>3 DEF PromiseKept, Gone
  <2>4. CASE WriteDone(op) \/ CloseDone(op)
    BY <2>1, <2>4 DEF WriteDone, CloseDone, PromiseKept, Gone, caching
  <2> QED
    BY <1>10, <2>2, <2>3, <2>4 DEF Complete, ChunkLost, Exact
<1>11. CASE DownloadDone
  <2>1. kind = "download"
    BY <1>11, PlainPosted DEF DownloadDone, Downloading, AllAllowed, Allowed
  <2> QED
    BY <1>11, <2>1 DEF DownloadDone, PromiseKept, Gone, owner
<1>12. CASE LoopEnds \/ FallSilent
  BY <1>12 DEF LoopEnds, FallSilent, PromiseKept, Gone, owner, caching
<1>13. CASE CurlWrite \/ (\E n \in Chunks : XferInfo(n))
  <2>1. Downloading /\ UNCHANGED <<kind, main, barrier, uv, taken>>
    BY <1>13 DEF CurlWrite, XferInfo
  <2>2. Allowed(Plain("download")) /\ Plain("download").what = "download" /\ uv = "loop"
    BY <2>1, PlainPosted DEF AllAllowed, Downloading
  <2>3. kind = "download" /\ barrier = 0 /\ progress # "done" /\ main # "close"
    BY <2>2 DEF Allowed
  <2> QED
    BY <2>1, <2>2, <2>3 DEF PromiseKept, Gone
<1> QED
  BY <1>1, <1>2, <1>3, <1>4, <1>5, <1>6, <1>7, <1>8, <1>9, <1>10, <1>11, <1>12, <1>13
     DEF Next, Owner, Thread

LEMMA IInvNext == ASSUME IInv, [Next]_vars, Exact PROVE IInv'
<1>1. CASE Next
  <2>1. StateOK' /\ HistoryOK' /\ PromiseKept'
    BY <1>1, StateNext, HistoryNext, PromiseNext DEF IInv
  <2>2. OpsOK' /\ Alone' /\ AllAllowed'
    BY <1>1, OwnerKeeps, ThreadKeeps DEF Next
  <2> QED
    BY <2>1, <2>2 DEF IInv, Exact
<1>2. CASE UNCHANGED vars
  <2>1. StateOK'
    BY <1>2 DEF IInv, StateOK, vars, owner, caching, closing, system
  <2>2. OpsOK' /\ HistoryOK' /\ Alone' /\ PromiseKept'
    BY <1>2 DEF IInv, OpsOK, HistoryOK, Alone, PromiseKept, Gone, vars, owner, caching, closing, system
  <2>3. AllAllowed'
    BY <1>2 DEF IInv, AllAllowed, Allowed, Gone, vars, owner, caching, closing, system
  <2> QED
    BY <2>1, <2>2, <2>3 DEF IInv, Exact
<1> QED
  BY <1>1, <1>2

-----------------------------------------------------------------------------
(* The types alone, whatever becomes of the progress. *)

LEMMA OwnerPosts ==
    ASSUME StateOK, OpsOK, Owner
    PROVE  flying' = flying /\ \E op \in Posted : requests' = requests \/ requests' = requests \o <<op>>
<1>0. \A w \in {"cache", "cancel", "close", "closeNow", "download", "barrier", "unref"} : Plain(w) \in Posted
  BY PlainPosted
<1>1. CASE StartCaching \/ Close \/ FinishClose
  <2>1. \/ requests' = requests \/ requests' = requests \o <<Plain("cache")>>
        \/ requests' = requests \o <<Plain("cancel")>> \/ requests' = requests \o <<Plain("close")>>
    BY <1>1, PostsNothing DEF StartCaching, Close, FinishClose, Post
  <2>2. flying' = flying
    BY <1>1 DEF StartCaching, Close, FinishClose
  <2> QED
    BY <1>0, <2>1, <2>2
<1>2. ASSUME NEW c \in Chunks, Read(c)
      PROVE  flying' = flying /\ \E op \in Posted : requests' = requests \/ requests' = requests \o <<op>>
  <2>1. Op("read", c, 0) \in Posted
    BY OpPosted, FileAssumption DEF Versions
  <2>2. \/ requests' = requests \/ requests' = requests \o <<Plain("closeNow")>>
        \/ requests' = requests \o <<Op("read", c, 0)>>
    BY <1>2, PostsNothing DEF Read, ReadCache, AwaitDownload, ReadFile, Post
  <2>3. flying' = flying
    BY <1>2 DEF Read
  <2> QED
    BY <1>0, <2>1, <2>2, <2>3
<1>3. ASSUME NEW c \in Chunks, Write(c)
      PROVE  flying' = flying /\ \E op \in Posted : requests' = requests \/ requests' = requests \o <<op>>
  <2>1. written' \in Versions
    BY <1>3, FileAssumption DEF Write, StateOK, Versions
  <2>2. Op("write", c, written') \in Posted
    BY <2>1, OpPosted
  <2> QED
    BY <1>3, <2>2 DEF Write, Post
<1>4. CASE Downloaded \/ Stop \/ Unref \/ Join
  <2>1. \/ requests' = requests \/ requests' = requests \o <<Plain("barrier")>>
        \/ requests' = requests \o <<Plain("unref")>>
    BY <1>4 DEF Downloaded, Stop, Unref, Join, Post
  <2>2. flying' = flying
    BY <1>4 DEF Downloaded, Stop, Unref, Join
  <2> QED
    BY <1>0, <2>1, <2>2
<1> QED
  BY <1>1, <1>2, <1>3, <1>4 DEF Owner

LEMMA OpsNext == ASSUME StateOK, OpsOK, Next PROVE OpsOK'
<1>0. Plain("close") \in Posted /\ Plain("download") \in Posted
  BY PlainPosted
<1>1. CASE Owner
  <2>1. PICK op \in Posted : flying' = flying /\ (requests' = requests \/ requests' = requests \o <<op>>)
    BY <1>1, OwnerPosts
  <2>2. requests \o <<op>> \in Seq(Posted)
    BY Appended DEF OpsOK
  <2> QED
    BY <2>1, <2>2 DEF OpsOK
<1>2. CASE Serve
  <2> DEFINE op == requests[1]
  <2>1. requests # << >> /\ op \in Posted /\ Run(op) /\ requests' = Without(1)
    BY <1>2, ServesFirst
  <2>2. requests' = SubSeq(requests, 1, 0) \o SubSeq(requests, 2, Len(requests))
    BY <2>1 DEF Without
  <2>3. requests' \in Seq(Posted)
    BY <2>1, <2>2, MovedUp DEF OpsOK
  <2> HIDE DEF op
  <2>4. flying' \subseteq Posted
    <3>1. CASE op.what = "cache"
      <4>1. ReadCacheChunk(cachePtr, flying, progress) /\ cachePtr \in Nat
        BY <2>1, <3>1 DEF Run, StateOK
      <4> QED
        BY <4>1, ChunkSubmitted DEF OpsOK
    <3>2. CASE op.what # "cache"
      <4>1. flying' \subseteq flying \cup {op, Plain("close"), Plain("download")}
        BY <2>1, <3>2 DEF Run, Submit, CloseHandle
      <4> QED
        BY <1>0, <2>1, <4>1 DEF OpsOK
    <3> QED
      BY <3>1, <3>2
  <2> QED
    BY <2>3, <2>4 DEF OpsOK
<1>3. ASSUME NEW op \in flying, Complete(op) PROVE OpsOK'
  <2>1. requests' = requests
    BY <1>3 DEF Complete
  <2>2. CASE ChunkDone(op)
    <3>1. PICK ptr \in Nat, stored \in {"none", "part", "done"} :
              ReadCacheChunk(ptr, flying \ {op}, stored)
      BY <2>2, ChunkGoesOn
    <3>2. flying' \subseteq Posted
      BY <3>1, ChunkSubmitted DEF OpsOK
    <3> QED
      BY <2>1, <3>2 DEF OpsOK
  <2>3. CASE ReadDone(op) \/ ChunkLost(op) \/ WriteDone(op) \/ CloseDone(op)
    <3>1. flying' \subseteq flying \cup {Plain("close")}
      BY <2>3 DEF ReadDone, ChunkLost, WriteDone, CloseDone, closing, system
    <3> QED
      BY <1>0, <2>1, <3>1 DEF OpsOK
  <2> QED
    BY <1>3, <2>2, <2>3 DEF Complete
<1>4. CASE Finish \/ DownloadDone \/ LoopEnds \/ CurlWrite \/ (\E n \in Chunks : XferInfo(n)) \/ FallSilent
  <2>1. requests' = requests /\ flying' \subseteq flying
    BY <1>4 DEF Finish, DownloadDone, LoopEnds, CurlWrite, XferInfo, FallSilent
  <2> QED
    BY <2>1 DEF OpsOK
<1> QED
  BY <1>1, <1>2, <1>3, <1>4 DEF Next, Thread

(* The state of the file, its thread and its queue stays well formed, for  *)
(* files of every size and any number of writes (support/uvfile.h).        *)
THEOREM TypeCorrect == Spec => []TypeOK
<1> DEFINE Inv == StateOK /\ OpsOK /\ HistoryOK
<1>1. Init => Inv
  BY IInvInit DEF IInv
<1>2. Inv /\ [Next]_vars => Inv'
  <2> SUFFICES ASSUME Inv, [Next]_vars PROVE Inv'
    OBVIOUS
  <2>1. CASE Next
    BY <2>1, StateNext, OpsNext, HistoryNext
  <2>2. CASE UNCHANGED vars
    BY <2>2 DEF StateOK, OpsOK, HistoryOK, vars, owner, caching, closing, system
  <2> QED
    BY <2>1, <2>2
<1>3. Inv => TypeOK
  <2> SUFFICES ASSUME Inv PROVE TypeOK
    OBVIOUS
  <2>1. requests \in Seq(Ops) /\ flying \subseteq Ops
    BY DEF OpsOK, Posted
  <2> QED
    BY <2>1 DEF StateOK, HistoryOK, TypeOK
<1> QED
  BY <1>1, <1>2, <1>3, PTL DEF Spec

-----------------------------------------------------------------------------
(* The handle of the system. *)

\* The requests that use the handle, and those that close it.
Closers == {"close", "closeNow"}
Users == {"read", "write", "cache"} \cup Closers
Index == 1 .. Len(requests)
InFlight == {o \in flying : o.what = "write"}

\* A file without a handle posts nothing that would need one: it is gone or a download, could not be
\* opened and is empty, or is read from its cache.
Settled ==
    \/ Gone \/ kind = "download"
    \/ failed = 1 /\ size = 0
    \/ kind = "readonly" /\ progress = "done"

OpenHandle == handle = 1 => /\ fd = "open" /\ closePending = 0 /\ kind # "download"
                            /\ \A i \in Index : requests[i].what \notin Closers
ShutHandle == handle = 0 => Settled

\* What closes the handle comes when no read is waited for and no cache is filled, and is the last
\* request that uses it.
Closes(op) ==
    \/ op.what = "close" /\ Gone
    \/ op.what = "closeNow" /\ kind = "readonly" /\ main # "read" /\ (progress = "done" \/ Gone)
CloserLast ==
    \A i \in Index : requests[i].what \in Closers =>
        /\ Closes(requests[i])
        /\ \A j \in Index : j > i => requests[j].what \notin Users
CloserWaits == closePending = 1 => Gone /\ \A i \in Index : requests[i].what \notin Users

ClosedQuiet ==
    /\ fd # "open" => /\ \A i \in Index : requests[i].what \notin Users
                      /\ \A o \in flying : o.what \notin {"read", "write", "chunk"}
    /\ \A o \in flying : o.what = "close" => fd # "open"

\* Each write is another one, so that pendingWrites counts those in flight.
Written(op) == kind = "writable" /\ op.version <= written
Different ==
    /\ \A i \in Index : requests[i].what = "write" =>
           /\ Written(requests[i]) /\ requests[i] \notin flying
           /\ \A j \in Index : requests[j] = requests[i] => j = i
    /\ \A o \in InFlight : Written(o)
Counted == IsFiniteSet(InFlight) /\ pendingWrites = Cardinality(InFlight)

HandleInv ==
    /\ OpenHandle /\ ShutHandle /\ CloserLast /\ CloserWaits /\ ClosedQuiet
    /\ Different /\ Counted

-----------------------------------------------------------------------------
LEMMA HandleInvInit == Init => HandleInv
<1> SUFFICES ASSUME Init PROVE HandleInv
  OBVIOUS
<1>1. InFlight = {}
  BY DEF Init, InFlight
<1>2. \A i \in Index : requests[i].what = "download" /\ kind = "download"
  BY PlainPosted DEF Init, Index
<1>3. OpenHandle /\ ShutHandle
  BY <1>2 DEF Init, OpenHandle, ShutHandle, Settled, Closers
<1>4. CloserLast /\ CloserWaits /\ ClosedQuiet
  BY <1>2 DEF Init, CloserLast, CloserWaits, ClosedQuiet, Closers, Users
<1>5. Different /\ Counted
  BY <1>1, <1>2, FS_EmptySet DEF Init, Different, Counted
<1> QED
  BY <1>3, <1>4, <1>5 DEF HandleInv

LEMMA SameFlight ==
    ASSUME HandleInv, InFlight' = InFlight, pendingWrites' = pendingWrites
    PROVE  Counted'
BY DEF HandleInv, Counted

\* The owner posts a request that uses the handle only while it has one, and none that closes it twice.
LEMMA OwnerHandle ==
    ASSUME StateOK, OpsOK, HandleInv, NEW op \in Posted, NEW posts \in BOOLEAN,
           requests' = IF posts THEN requests \o <<op>> ELSE requests,
           UNCHANGED <<kind, failed, fd, flying, closePending, pendingWrites>>,
           handle' \in {0, handle}, handle' = 0 => Settled', Gone => Gone',
           written' = written \/ (written' = written + 1 /\ posts),
           posts /\ op.what \in Users => handle = 1,
           posts /\ op.what \in Closers => handle' = 0 /\ Closes(op)',
           posts /\ op.what = "write" => kind = "writable" /\ written' = written + 1 /\ op.version = written',
           \A o \in Posted : Closes(o) => Closes(o)'
    PROVE  HandleInv'
<1> USE DEF HandleInv
<1> DEFINE n == Len(requests)
<1>1. /\ requests \in Seq(Posted) /\ n \in Nat /\ \A i \in 1 .. n : requests[i] \in Posted
      /\ written \in Nat /\ written' \in Nat /\ written <= written'
  BY FileAssumption DEF OpsOK, StateOK, Versions
<1>2. /\ posts => /\ Len(requests') = n + 1 /\ requests'[n + 1] = op
                  /\ \A i \in 1 .. n : requests'[i] = requests[i]
      /\ ~posts => requests' = requests
  BY <1>1, Appended
<1>3. \A i \in 1 .. n + 1 : i \in 1 .. n \/ i = n + 1
  BY <1>1
<1>4. \A i \in 1 .. n : i \in Index /\ i < n + 1
  BY <1>1 DEF Index
<1> HIDE DEF n
<1>5. \A i \in Index' : \/ i \in Index /\ requests'[i] = requests[i]
                        \/ posts /\ i = n + 1 /\ requests'[i] = op
  BY <1>2, <1>3 DEF Index, n
<1>6. OpenHandle'
  <2> SUFFICES ASSUME handle' = 1
               PROVE  /\ fd' = "open" /\ closePending' = 0 /\ kind' # "download"
                      /\ \A i \in Index' : requests'[i].what \notin Closers
    BY DEF OpenHandle
  <2>1. handle = 1 /\ ~(posts /\ op.what \in Closers)
    OBVIOUS
  <2> QED
    BY <1>5, <2>1 DEF OpenHandle
<1>7. ShutHandle'
  BY DEF ShutHandle
<1>8. CloserLast'
  <2> SUFFICES ASSUME NEW i \in Index', requests'[i].what \in Closers
               PROVE  /\ Closes(requests[i])'
                      /\ \A j \in Index' : j > i => requests'[j].what \notin Users
    BY DEF CloserLast
  <2>1. CASE i \in Index /\ requests'[i] = requests[i]
    <3>1. handle # 1
      BY <2>1 DEF OpenHandle
    <3>2. requests[i] \in Posted
      BY <1>1, <2>1 DEF Index, n
    <3>3. Closes(requests[i])'
      BY <2>1, <3>2 DEF CloserLast, Closes
    <3>4. \A j \in Index' : j > i => requests'[j].what \notin Users
      BY <1>5, <2>1, <3>1 DEF CloserLast
    <3> QED
      BY <3>3, <3>4
  <2>2. CASE posts /\ i = n + 1 /\ requests'[i] = op
    <3>1. \A j \in Index' : ~(j > i)
      BY <1>1, <1>4, <1>5, <2>2 DEF n, Index
    <3> QED
      BY <2>2, <3>1 DEF Closes
  <2> QED
    BY <1>5, <2>1, <2>2
<1>9. CloserWaits' /\ ClosedQuiet'
  <2>1. closePending = 1 \/ fd # "open" => ~(posts /\ op.what \in Users)
    BY DEF OpenHandle
  <2>2. closePending = 1 \/ fd # "open" => \A i \in Index' : requests'[i].what \notin Users
    BY <1>5, <2>1 DEF CloserWaits, ClosedQuiet
  <2>3. CloserWaits'
    BY <2>2 DEF CloserWaits
  <2>4. ClosedQuiet'
    BY <2>2 DEF ClosedQuiet
  <2> QED
    BY <2>3, <2>4
<1>10. Different'
  <2>1. \A o \in Posted : Written(o) => Written(o)'
    <3>1. \A v \in Versions \cup {Unset} : v <= written => v <= written'
      BY <1>1 DEF Versions, Unset
    <3> QED
      BY <3>1 DEF Posted, Ops, Written
  <2>2. posts /\ op.what = "write" => Written(op)' /\ ~(op.version <= written)
    BY <1>1 DEF Written
  <2>3. \A o \in InFlight' : Written(o)'
    BY <2>1 DEF Different, InFlight, OpsOK
  <2>4. posts /\ op.what = "write" => op \notin flying
    BY <2>2 DEF Different, InFlight, Written
  <2>5. posts /\ op.what = "write" => \A i \in Index : requests[i] # op
    BY <2>2 DEF Different, Written
  <2>6. ASSUME NEW i \in Index', requests'[i].what = "write"
        PROVE  /\ Written(requests[i])' /\ requests'[i] \notin flying'
               /\ \A j \in Index' : requests'[j] = requests'[i] => j = i
    <3>1. CASE i \in Index /\ requests'[i] = requests[i]
      <4>1. Written(requests[i])' /\ requests'[i] \notin flying'
        BY <1>1, <2>1, <2>6, <3>1 DEF Different, Index, n, Written
      <4>2. \A j \in Index' : requests'[j] = requests'[i] => j = i
        BY <1>5, <2>5, <2>6, <3>1 DEF Different
      <4> QED
        BY <4>1, <4>2
    <3>2. CASE posts /\ i = n + 1 /\ requests'[i] = op
      BY <1>5, <2>2, <2>4, <2>5, <2>6, <3>2 DEF Written
    <3> QED
      BY <1>5, <3>1, <3>2
  <2> QED
    BY <2>3, <2>6 DEF Different
<1>11. Counted'
  BY SameFlight DEF InFlight
<1> QED
  BY <1>6, <1>7, <1>8, <1>9, <1>10, <1>11


LEMMA PlainUses ==
    /\ \A w \in {"cancel", "barrier", "unref"} : Plain(w).what \notin Users /\ Plain(w).what # "write"
    /\ Plain("close").what \in Closers /\ Plain("closeNow").what \in Closers
    /\ Plain("cache").what \in Users \ Closers
    /\ Closers \subseteq Users /\ "write" \notin Closers /\ "read" \notin Closers
BY PlainPosted DEF Users, Closers

LEMMA OwnerNext == ASSUME IInv, HandleInv, Owner PROVE HandleInv'
<1> USE DEF IInv
<1>0. /\ StateOK /\ OpsOK /\ \A w \in {"cache", "cancel", "close", "closeNow", "barrier", "unref"} : Plain(w) \in Posted
      /\ ShutHandle /\ OpenHandle /\ handle \in {0, 1}
  BY PlainPosted DEF StateOK, HandleInv
<1>1. CASE StartCaching
  <2> DEFINE posts == failed # 1
  <2>1. requests' = IF posts THEN requests \o <<Plain("cache")>> ELSE requests
    BY <1>0, <1>1, PostsNothing DEF StartCaching, Post
  <2>2. posts => handle = 1
    BY <1>1 DEF StartCaching, PromiseKept, HandleInv, ShutHandle, Settled, Gone, StateOK
  <2>3. UNCHANGED <<kind, failed, fd, flying, closePending, pendingWrites, handle, written, main, progress, size>>
    BY <1>1 DEF StartCaching, caching, closing, system
  <2>4. (Gone => Gone') /\ (handle' = 0 => Settled') /\ \A o \in Posted : Closes(o) => Closes(o)'
    BY <2>3, <1>0 DEF ShutHandle, Settled, Gone, Closes
  <2>5. posts \in BOOLEAN /\ Plain("cache").what \notin Closers /\ Plain("cache").what # "write"
    BY PlainPosted DEF Closers
  <2> HIDE DEF posts
  <2> QED
    BY <1>0, <2>1, <2>2, <2>3, <2>4, <2>5, OwnerHandle
<1>2. ASSUME NEW c \in Chunks, Read(c) PROVE HandleInv'
  <2>1. /\ UNCHANGED <<kind, failed, fd, flying, closePending, pendingWrites, written, progress, size>>
        /\ main = "idle" /\ c <= size /\ size \in Nat /\ c \in Nat \ {0}
    BY <1>2, FileAssumption DEF Read, caching, closing, system, StateOK, Chunks
  <2>2. CASE ReadCache(c)
    <3> DEFINE posts == handle = 1 /\ kind # "writable"
    <3>1. requests' = IF posts THEN requests \o <<Plain("closeNow")>> ELSE requests
      BY <1>0, <2>2, PostsNothing DEF ReadCache, Post
    <3>2. handle' = (IF posts THEN 0 ELSE handle) /\ progress = "done" /\ main' = main
      BY <2>2 DEF ReadCache
    <3>3. posts => kind = "readonly"
      BY <1>0 DEF StateOK, Kinds, HandleInv, OpenHandle
    <3>4. (Gone => Gone') /\ \A o \in Posted : Closes(o) => Closes(o)'
      BY <2>1, <3>2 DEF Gone, Closes
    <3>5. handle' = 0 => Settled'
      BY <1>0, <2>1, <3>2, <3>3 DEF ShutHandle, Settled, Gone
    <3>6. posts => Closes(Plain("closeNow"))'
      BY <2>1, <3>2, <3>3, PlainPosted DEF Closes
    <3>7. posts \in BOOLEAN /\ (posts => handle' = 0 /\ handle = 1) /\ handle' \in {0, handle}
      BY <3>2
    <3>8. Plain("closeNow").what # "write"
      BY PlainPosted
    <3> HIDE DEF posts
    <3> QED
      BY <1>0, <2>1, <3>1, <3>4, <3>5, <3>6, <3>7, <3>8, OwnerHandle
  <2>3. CASE AwaitDownload(c)
    <3>1. UNCHANGED <<requests, handle>> /\ main' = "await"
      BY <2>3 DEF AwaitDownload
    <3>2. (Gone => Gone') /\ (handle' = 0 => Settled') /\ \A o \in Posted : Closes(o) => Closes(o)'
      BY <1>0, <2>1, <3>1 DEF ShutHandle, Settled, Gone, Closes
    <3> QED
      BY <1>0, <2>1, <3>1, <3>2, OwnerHandle
  <2>4. CASE ReadFile(c)
    <3> DEFINE op == Op("read", c, 0)
    <3>1. op \in Posted /\ op.what = "read"
      BY OpPosted, FileAssumption DEF Versions
    <3>2. requests' = requests \o <<op>> /\ main' = "read" /\ handle' = handle
      BY <2>4 DEF ReadFile, Post
    <3>3. handle = 1
      BY <1>0, <2>1, <2>4 DEF ReadFile, ShutHandle, Settled, Gone
    <3>4. (Gone => Gone') /\ (handle' = 0 => Settled')
      BY <2>1, <3>2, <3>3 DEF Gone
    <3>5. \A o \in Posted : Closes(o) => Closes(o)'
      BY <2>1, <2>4 DEF ReadFile, Closes, Gone
    <3> HIDE DEF op
    <3> QED
      BY <1>0, <2>1, <3>1, <3>2, <3>3, <3>4, <3>5, PlainUses, OwnerHandle
  <2> QED
    BY <1>2, <2>2, <2>3, <2>4 DEF Read
<1>3. ASSUME NEW c \in Chunks, Write(c) PROVE HandleInv'
  <2>1. /\ UNCHANGED <<kind, failed, fd, flying, closePending, pendingWrites, handle, main, progress>>
        /\ main = "idle" /\ kind = "writable" /\ failed = 0 /\ written' = written + 1
    BY <1>3 DEF Write, caching, closing, system
  <2> DEFINE op == Op("write", c, written')
  <2>2. op \in Posted /\ op.what = "write" /\ op.version = written'
    <3>1. written' \in Versions
      BY <1>3, FileAssumption DEF Write, Versions, StateOK
    <3> QED
      BY <3>1, OpPosted DEF Op
  <2>3. requests' = requests \o <<op>>
    BY <1>3 DEF Write, Post
  <2>4. handle = 1
    BY <1>0, <2>1 DEF ShutHandle, Settled, Gone
  <2>5. (Gone => Gone') /\ (handle' = 0 => Settled') /\ \A o \in Posted : Closes(o) => Closes(o)'
    BY <2>1, <2>4 DEF Gone, Closes
  <2> HIDE DEF op
  <2> QED
    BY <1>0, <2>1, <2>2, <2>3, <2>4, <2>5, PlainUses, OwnerHandle
<1>4. CASE Downloaded \/ Join
  <2>1. /\ UNCHANGED <<requests, kind, failed, fd, flying, closePending, pendingWrites, handle, written, progress, size>>
        /\ main' \in {"idle", "ended"} /\ (Gone => Gone')
    BY <1>4 DEF Downloaded, Join, caching, closing, system, Gone
  <2>2. (handle' = 0 => Settled') /\ \A o \in Posted : Closes(o) => Closes(o)'
    BY <1>0, <2>1 DEF ShutHandle, Settled, Closes
  <2> QED
    BY <1>0, <2>1, <2>2, OwnerHandle
<1>5. CASE Close \/ Stop \/ Unref
  <2>1. /\ UNCHANGED <<kind, failed, fd, flying, closePending, pendingWrites, handle, written, progress, size>>
        /\ main' # "read" /\ (Gone => Gone')
    BY <1>5 DEF Close, Stop, Unref, caching, closing, system, Gone
  <2>2. PICK w \in {"cancel", "barrier", "unref"}, posts \in BOOLEAN :
            requests' = IF posts THEN requests \o <<Plain(w)>> ELSE requests
    <3>1. \E posts \in BOOLEAN : requests' = requests \/ requests' = requests \o <<Plain("cancel")>>
                \/ requests' = requests \o <<Plain("barrier")>> \/ requests' = requests \o <<Plain("unref")>>
      BY <1>0, <1>5, PostsNothing DEF Close, Stop, Unref, Post
    <3> QED
      BY <3>1
  <2>3. (handle' = 0 => Settled') /\ \A o \in Posted : Closes(o) => Closes(o)'
    BY <1>0, <2>1 DEF ShutHandle, Settled, Closes
  <2> DEFINE op == Plain(w)
  <2>4. op \in Posted /\ op.what \notin Users /\ op.what \notin Closers /\ op.what # "write"
    BY <1>0, PlainUses
  <2>5. requests' = IF posts THEN requests \o <<op>> ELSE requests
    BY <2>2
  <2> HIDE DEF op
  <2> QED
    BY <1>0, <2>1, <2>3, <2>4, <2>5, OwnerHandle
<1>6. CASE FinishClose
  <2>1. /\ UNCHANGED <<kind, failed, fd, flying, closePending, pendingWrites, written, size>>
        /\ main' = "gone" /\ handle' = 0
    BY <1>6 DEF FinishClose, caching, closing, system
  <2> DEFINE posts == handle = 1
  <2>2. requests' = IF posts THEN requests \o <<Plain("close")>> ELSE requests
    BY <1>0, <1>6, PostsNothing DEF FinishClose, Post
  <2>3. Gone' /\ Settled' /\ Closes(Plain("close"))' /\ \A o \in Posted : Closes(o) => Closes(o)'
    BY <2>1, PlainPosted DEF Gone, Settled, Closes
  <2>4. posts \in BOOLEAN /\ Plain("close").what # "write"
    BY PlainPosted
  <2>5. posts => handle = 1
    OBVIOUS
  <2> HIDE DEF posts
  <2> QED
    BY <1>0, <2>1, <2>2, <2>3, <2>4, <2>5, OwnerHandle
<1> QED
  BY <1>1, <1>2, <1>3, <1>4, <1>5, <1>6 DEF Owner


\* What the thread does: it takes the first request, or none, and hands operations on.
LEMMA ThreadHandle ==
    ASSUME OpsOK, HandleInv, NEW d \in {0, 1}, d = 1 => 1 \in Index,
           \A i \in Index' : i + d \in Index /\ requests'[i] = requests[i + d],
           UNCHANGED <<kind, handle, written>>, handle = 0 => Settled',
           \A o \in Posted : Closes(o) => Closes(o)',
           handle = 1 => UNCHANGED <<closePending, fd>>,
           closePending' = 1 =>
               Gone' /\ (closePending = 1 \/ \A i \in Index' : requests'[i].what \notin Users),
           fd # "open" => fd' # "open",
           fd' # "open" => \/ fd # "open"
                           \/ /\ \A i \in Index' : requests'[i].what \notin Users
                              /\ \A o \in flying' : o.what \notin {"read", "write", "chunk"},
           \A o \in flying' : \/ o \in flying
                              \/ o.what \in {"read", "chunk"} /\ fd = "open"
                              \/ o.what = "write" /\ fd = "open" /\ d = 1 /\ o = requests[1]
                              \/ o.what = "close" /\ fd' # "open"
                              \/ o.what = "download",
           Counted'
    PROVE  HandleInv'
<1> USE DEF HandleInv
<1>1. /\ \A i \in Index : i \in Nat \ {0} /\ requests[i] \in Posted
      /\ \A i \in Index' : i \in Nat \ {0}
  BY DEF OpsOK, Index
<1>2. OpenHandle'
  <2>1. handle = 1 => \A i \in Index' : requests'[i].what \notin Closers
    BY DEF OpenHandle
  <2> QED
    BY <2>1 DEF OpenHandle
<1>3. ShutHandle'
  BY DEF ShutHandle
<1>4. CloserLast'
  <2> SUFFICES ASSUME NEW i \in Index', requests'[i].what \in Closers
               PROVE  /\ Closes(requests[i])'
                      /\ \A j \in Index' : j > i => requests'[j].what \notin Users
    BY DEF CloserLast
  <2>1. Closes(requests[i + d]) /\ requests[i + d] \in Posted
    BY <1>1 DEF CloserLast
  <2>2. Closes(requests[i])'
    BY <2>1 DEF Closes
  <2>3. \A j \in Index' : j > i => j + d > i + d
    BY <1>1
  <2> QED
    BY <2>2, <2>3 DEF CloserLast
<1>5. CloserWaits'
  BY DEF CloserWaits
<1>6. ClosedQuiet'
  <2>1. fd' # "open" => \A i \in Index' : requests'[i].what \notin Users
    BY DEF ClosedQuiet
  <2>2. fd' # "open" => \A o \in flying' : o.what \notin {"read", "write", "chunk"}
    BY DEF ClosedQuiet
  <2>3. \A o \in flying' : o.what = "close" => fd' # "open"
    BY DEF ClosedQuiet
  <2> QED
    BY <2>1, <2>2, <2>3 DEF ClosedQuiet
<1>7. Different'
  <2>1. \A o : Written(o) => Written(o)'
    BY DEF Written
  <2>2. \A o \in flying' : o.what = "write" => o \in flying \/ (d = 1 /\ o = requests[1])
    OBVIOUS
  <2>3. \A o \in InFlight' : Written(o)'
    BY <2>1, <2>2 DEF Different, InFlight
  <2>4. ASSUME NEW i \in Index', requests'[i].what = "write"
        PROVE  /\ Written(requests[i])' /\ requests'[i] \notin flying'
               /\ \A j \in Index' : requests'[j] = requests'[i] => j = i
    <3>1. i + d \in Index /\ requests'[i] = requests[i + d] /\ i \in Nat \ {0}
      BY <1>1
    <3>2. Written(requests[i + d]) /\ requests[i + d] \notin flying
      BY <2>4, <3>1 DEF Different
    <3>3. d = 1 => requests[i + d] # requests[1]
      BY <2>4, <3>1 DEF Different
    <3>4. \A j \in Index' : requests'[j] = requests'[i] => j + d = i + d
      BY <2>4, <3>1 DEF Different
    <3>5. \A j \in Index' : j + d = i + d => j = i
      BY <1>1, <3>1
    <3>6. Written(requests[i])'
      BY <3>1, <3>2 DEF Written
    <3> QED
      BY <2>2, <2>4, <3>1, <3>2, <3>3, <3>4, <3>5, <3>6
  <2> QED
    BY <2>3, <2>4 DEF Different
<1> QED
  BY <1>2, <1>3, <1>4, <1>5, <1>6, <1>7

LEMMA FlightHandle ==
    ASSUME OpsOK, HandleInv, requests' = requests,
           UNCHANGED <<kind, handle, written, closePending, fd>>, handle = 0 => Settled',
           \A o \in Posted : Closes(o) => Closes(o)', closePending = 1 => Gone',
           \A o \in flying' : o \in flying \/ (o.what = "chunk" /\ fd = "open"),
           Counted'
    PROVE  HandleInv'
<1>1. \A i \in Index' : i + 0 \in Index /\ requests'[i] = requests[i + 0]
  BY DEF Index, OpsOK
<1> QED
  BY <1>1, ThreadHandle DEF HandleInv, ClosedQuiet

LEMMA CompleteHandle ==
    ASSUME IInv, HandleInv, NEW op \in flying, Complete(op), Exact PROVE HandleInv'
<1> USE DEF IInv
<1>1. /\ op \in Posted /\ Allowed(op) /\ ShutHandle /\ ClosedQuiet /\ CloserWaits /\ Different /\ Counted
      /\ UNCHANGED <<requests, kind, handle, size, written, failed>>
  BY DEF Complete, HandleInv, OpsOK, AllAllowed
<1>2. CASE ReadDone(op)
  <2>1. /\ main = "read" /\ main' = "idle" /\ flying' = flying \ {op} /\ op.what = "read"
        /\ UNCHANGED <<progress, pendingWrites, closePending, fd>>
    BY <1>1, <1>2 DEF ReadDone, Allowed, caching, closing, system
  <2>2. Counted'
    BY <2>1, SameFlight DEF InFlight
  <2>3. (handle = 0 => Settled') /\ (closePending = 1 => Gone') /\ \A o \in Posted : Closes(o) => Closes(o)'
    BY <1>1, <2>1 DEF ShutHandle, Settled, Gone, Closes, CloserWaits
  <2> QED
    BY <1>1, <2>1, <2>2, <2>3, FlightHandle
<1>3. CASE ChunkDone(op)
  <2>1. PICK ptr \in Nat, stored \in {"none", "part", "done"} : ReadCacheChunk(ptr, flying \ {op}, stored)
    BY <1>3, ChunkGoesOn
  <2>2. op.what = "chunk" /\ UNCHANGED <<main, pendingWrites, closePending, fd>>
    BY <1>3 DEF ChunkDone, closing, system
  <2>3. fd = "open"
    BY <1>1, <2>2 DEF ClosedQuiet
  <2>4. /\ \A o \in flying' : o \in flying \/ o.what = "chunk"
        /\ InFlight' = InFlight
        /\ progress # "done"
    BY <1>1, <2>1, <2>2 DEF ReadCacheChunk, Op, InFlight, Allowed
  <2>5. Counted'
    BY <2>2, <2>4, SameFlight
  <2>6. (handle = 0 => Settled') /\ (closePending = 1 => Gone') /\ \A o \in Posted : Closes(o) => Closes(o)'
    BY <1>1, <2>2, <2>4 DEF ShutHandle, Settled, Gone, Closes, CloserWaits
  <2> QED
    BY <1>1, <2>2, <2>3, <2>4, <2>5, <2>6, FlightHandle
<1>4. CASE WriteDone(op)
  <2> DEFINE closes == pendingWrites' = 0 /\ closePending = 1
  <2>1. /\ op.what = "write" /\ UNCHANGED <<main, progress, closePending>>
        /\ pendingWrites' = pendingWrites - 1
        /\ flying' = (flying \ {op}) \cup (IF closes THEN {Plain("close")} ELSE {})
        /\ fd' = IF closes THEN "closing" ELSE fd
    BY <1>4 DEF WriteDone, caching
  <2>2. InFlight' = InFlight \ {op} /\ op \in InFlight
    BY <2>1, PlainPosted DEF InFlight
  <2>3. Counted'
    BY <1>1, <2>1, <2>2, FS_RemoveElement DEF Counted
  <2>4. (handle = 0 => Settled') /\ (closePending = 1 => Gone') /\ \A o \in Posted : Closes(o) => Closes(o)'
    BY <1>1, <2>1 DEF ShutHandle, Settled, Gone, Closes, CloserWaits
  <2>5. CASE ~closes
    <3>1. flying' = flying \ {op} /\ fd' = fd
      BY <2>1, <2>5
    <3> QED
      BY <1>1, <2>1, <2>3, <2>4, <3>1, FlightHandle
  <2>6. CASE closes
    <3>1. InFlight' = {} /\ closePending = 1 /\ Gone /\ fd' = "closing"
      BY <1>1, <2>1, <2>3, <2>6, FS_EmptySet DEF Counted, CloserWaits
    <3>2. \A i \in Index' : i + 0 \in Index /\ requests'[i] = requests[i + 0] /\ requests'[i].what \notin Users
      BY <1>1, <3>1 DEF Index, OpsOK, CloserWaits
    <3>3. \A o \in flying' : o.what \notin {"read", "chunk"}
      BY <2>1, <3>1, PlainPosted DEF AllAllowed, Allowed, Gone
    <3>4. \A o \in flying' : o \in flying \/ o.what = "close"
      BY <2>1, PlainPosted
    <3>5. \A o \in flying' : o.what # "write"
      BY <3>1 DEF InFlight
    <3>6. handle # 1
      BY <3>1 DEF HandleInv, OpenHandle
    <3>7. closePending' = 1 => Gone' /\ (closePending = 1 \/ \A i \in Index' : requests'[i].what \notin Users)
      BY <2>1, <2>4, <3>1
    <3>8. \A o \in flying' : o.what \notin {"read", "write", "chunk"}
      BY <3>3, <3>5
    <3>9. fd' # "open" /\ 0 \in {0, 1} /\ 0 # 1 /\ UNCHANGED <<kind, handle, written>>
      BY <1>1, <3>1
    <3> HIDE DEF closes
    <3> QED
      BY <1>1, <2>3, <2>4, <3>2, <3>4, <3>6, <3>7, <3>8, <3>9, ThreadHandle
  <2> QED
    BY <2>5, <2>6
<1>5. CASE CloseDone(op)
  <2>1. /\ op.what = "close" /\ UNCHANGED <<main, progress, pendingWrites, closePending>>
        /\ flying' = flying \ {op} /\ fd' = "closed"
    BY <1>5 DEF CloseDone, caching, closing
  <2>2. fd # "open" /\ handle # 1
    BY <1>1, <2>1 DEF ClosedQuiet, HandleInv, OpenHandle
  <2>3. Counted'
    BY <2>1, SameFlight DEF InFlight
  <2>4. (handle = 0 => Settled') /\ (closePending = 1 => Gone') /\ \A o \in Posted : Closes(o) => Closes(o)'
    BY <1>1, <2>1 DEF ShutHandle, Settled, Gone, Closes, CloserWaits
  <2>5. \A i \in Index' : i + 0 \in Index /\ requests'[i] = requests[i + 0]
    BY <1>1 DEF Index, OpsOK
  <2> QED
    BY <1>1, <2>1, <2>2, <2>3, <2>4, <2>5, ThreadHandle
<1> QED
  BY <1>2, <1>3, <1>4, <1>5 DEF Complete, ChunkLost, Exact


LEMMA ServeHandle == ASSUME IInv, HandleInv, Serve PROVE HandleInv'
<1> USE DEF IInv
<1>1. PICK op \in Posted :
          /\ op = requests[1] /\ requests # << >> /\ Run(op) /\ requests' = Without(1)
          /\ UNCHANGED <<kind, handle, size, written, failed>>
  BY ServesFirst
<1>2. 1 \in Index /\ \A i \in Index' : /\ i + 1 \in Index /\ requests'[i] = requests[i + 1]
                                      /\ i + 1 > 1 /\ requests[i + 1] \in Posted
  <2>1. requests \in Seq(Posted) /\ Len(requests) \in Nat /\ Len(requests) # 0
    BY <1>1 DEF OpsOK
  <2>2. requests' = SubSeq(requests, 1, 0) \o SubSeq(requests, 2, Len(requests))
    BY <1>1 DEF Without
  <2>3. Len(requests') = Len(requests) - 1 /\ \A i \in 1 .. Len(requests') : requests'[i] = requests[i + 1]
    BY <1>1, <2>1, <2>2, MovedUp
  <2>4. \A i \in 1 .. Len(requests) - 1 : i + 1 \in 1 .. Len(requests) /\ i + 1 > 1
    BY <2>1
  <2>5. \A i \in 1 .. Len(requests) : requests[i] \in Posted
    BY <2>1
  <2> QED
    BY <2>1, <2>3, <2>4, <2>5 DEF Index
<1>3. /\ Allowed(op) /\ ShutHandle /\ OpenHandle /\ ClosedQuiet /\ CloserWaits /\ CloserLast /\ Different /\ Counted
  BY <1>1, <1>2 DEF HandleInv, AllAllowed, Index
<1>4. UNCHANGED <<kind, handle, written>> /\ 1 \in {0, 1}
  BY <1>1
<1>5. op.what \in Users => fd = "open" /\ closePending # 1
  BY <1>1, <1>2, <1>3 DEF ClosedQuiet, CloserWaits
<1>6. closePending = 1 => \A i \in Index' : requests'[i].what \notin Users
  BY <1>2, <1>3 DEF CloserWaits
<1>7. ASSUME UNCHANGED <<main, progress>> \/ (Gone /\ Gone') \/ (main' = main /\ progress' = "done")
      PROVE  /\ handle = 0 => Settled'
             /\ \A o \in Posted : Closes(o) => Closes(o)'
             /\ closePending = 1 => Gone'
  BY <1>1, <1>3, <1>7 DEF ShutHandle, Settled, Gone, Closes, CloserWaits
<1>8. CASE op.what \in {"read", "write"}
  <2>1. /\ UNCHANGED <<main, progress, closePending, fd>>
        /\ flying' = flying \cup {op}
        /\ pendingWrites' = IF op.what = "write" THEN pendingWrites + 1 ELSE pendingWrites
    BY <1>1, <1>8 DEF Run, Submit, caching, closing
  <2>2. fd = "open" /\ closePending # 1
    BY <1>5, <1>8 DEF Users
  <2>3. Counted'
    <3>1. CASE op.what = "read"
      <4>1. InFlight' = InFlight /\ pendingWrites' = pendingWrites
        BY <2>1, <3>1 DEF InFlight
      <4> QED
        BY <4>1, SameFlight
    <3>2. CASE op.what = "write"
      <4>1. op \notin InFlight /\ InFlight' = InFlight \cup {op} /\ pendingWrites' = pendingWrites + 1
        BY <1>1, <1>2, <1>3, <2>1, <3>2 DEF InFlight, Different
      <4> QED
        BY <1>3, <4>1, FS_AddElement DEF Counted
    <3> QED
      BY <1>8, <3>1, <3>2
  <2>4. \A o \in flying' : \/ o \in flying
                           \/ o.what = "read" /\ fd = "open"
                           \/ o.what = "write" /\ fd = "open" /\ o = requests[1]
    BY <1>1, <1>8, <2>1, <2>2
  <2> QED
    BY <1>1, <1>2, <1>4, <1>7, <2>1, <2>2, <2>3, <2>4, ThreadHandle
<1>9. CASE op.what = "cache"
  <2>1. ReadCacheChunk(cachePtr, flying, progress) /\ UNCHANGED <<main, closePending, fd, pendingWrites>>
    BY <1>1, <1>9 DEF Run, closing
  <2>2. fd = "open" /\ closePending # 1
    BY <1>5, <1>9 DEF Users
  <2>3. /\ \A o \in flying' : o \in flying \/ o.what = "chunk"
        /\ InFlight' = InFlight /\ (progress' = progress \/ progress' = "done")
    BY <2>1 DEF ReadCacheChunk, Op, InFlight
  <2>4. Counted'
    BY <2>1, <2>3, SameFlight
  <2> QED
    BY <1>1, <1>2, <1>4, <1>7, <2>1, <2>2, <2>3, <2>4, ThreadHandle
<1>10. CASE op.what \in {"cancel", "download", "unref", "barrier"}
  <2>1. /\ UNCHANGED <<progress, closePending, fd, pendingWrites>>
        /\ flying' = flying \/ flying' = flying \cup {Plain("download")}
        /\ main' = main \/ (Gone /\ main' = "stopped")
    BY <1>1, <1>3, <1>10 DEF Run, Allowed, caching, closing
  <2>2. UNCHANGED <<main, progress>> \/ (Gone /\ Gone')
    BY <2>1 DEF Gone
  <2>3. InFlight' = InFlight /\ \A o \in flying' : o \in flying \/ o.what = "download"
    BY <2>1, PlainPosted DEF InFlight
  <2>4. Counted'
    BY <2>1, <2>3, SameFlight
  <2>5. fd' # "open" => fd # "open"
    BY <2>1
  <2> QED
    BY <1>1, <1>2, <1>4, <1>6, <1>7, <2>1, <2>2, <2>3, <2>4, <2>5, ThreadHandle
<1>11. CASE op.what \in Closers
  <2>1. /\ Closes(op) /\ handle # 1 /\ \A i \in Index' : requests'[i].what \notin Users
    BY <1>1, <1>2, <1>3, <1>11 DEF CloserLast, OpenHandle
  <2>2. /\ UNCHANGED <<main, progress, pendingWrites>>
        /\ \/ flying' = flying \cup {Plain("close")} /\ fd' = "closing" /\ closePending' = closePending
              /\ (op.what = "closeNow" \/ pendingWrites = 0)
           \/ flying' = flying /\ fd' = fd /\ closePending' = 1 /\ op.what = "close"
    BY <1>1, <1>11 DEF Run, CloseHandle, DeferClose, Closers, caching, closing
  <2>3. InFlight' = InFlight
    BY <2>2, PlainPosted DEF InFlight
  <2>4. Counted'
    BY <2>2, <2>3, SameFlight
  <2>5. \A o \in flying : o.what \notin {"read", "chunk"}
    BY <2>1 DEF Closes, AllAllowed, Allowed, Gone
  <2>6. op.what = "closeNow" \/ pendingWrites = 0 => \A o \in flying : o.what # "write"
    <3>1. CASE op.what = "closeNow"
      BY <1>3, <2>1, <3>1 DEF Closes, Different, InFlight, Written
    <3>2. CASE pendingWrites = 0
      <4>1. InFlight = {}
        BY <1>3, <3>2, FS_EmptySet DEF Counted
      <4> QED
        BY <4>1 DEF InFlight
    <3> QED
      BY <3>1, <3>2
  <2>7. op.what = "close" => Gone /\ Gone'
    BY <2>1, <2>2 DEF Closes, Gone
  <2>8. CASE flying' = flying /\ fd' = fd /\ closePending' = 1 /\ op.what = "close"
    BY <1>1, <1>2, <1>4, <1>7, <2>1, <2>2, <2>4, <2>7, <2>8, ThreadHandle
  <2>9. CASE /\ flying' = flying \cup {Plain("close")} /\ fd' = "closing" /\ closePending' = closePending
             /\ op.what = "closeNow" \/ pendingWrites = 0
    <3>1. \A o \in flying' : o.what \notin {"read", "write", "chunk"} /\ (o \in flying \/ o.what = "close")
      BY <2>5, <2>6, <2>9, PlainPosted
    <3>2. closePending' = 1 => Gone' /\ closePending = 1
      BY <1>7, <2>2, <2>9
    <3>3. fd' # "open" /\ handle # 1
      BY <2>1, <2>9
    <3> QED
      BY <1>1, <1>2, <1>4, <1>7, <2>1, <2>2, <2>4, <3>1, <3>2, <3>3, ThreadHandle
  <2> QED
    BY <2>2, <2>8, <2>9
<1> QED
  BY <1>1, <1>8, <1>9, <1>10, <1>11 DEF Run, Closers

LEMMA HandleNext == ASSUME IInv, HandleInv, Next, Exact PROVE HandleInv'
<1> USE DEF IInv
<1>0. ShutHandle /\ CloserWaits /\ StateOK /\ OpsOK
  BY DEF HandleInv
<1>1. CASE Finish \/ LoopEnds \/ FallSilent
  <2>1. UNCHANGED <<owner, failed, requests, progress, closing, flying, system>>
    BY <1>1 DEF Finish, LoopEnds, FallSilent, caching
  <2>2. Counted'
    BY <2>1, SameFlight DEF InFlight, closing
  <2>3. (handle = 0 => Settled') /\ (closePending = 1 => Gone') /\ \A o \in Posted : Closes(o) => Closes(o)'
    BY <1>0, <2>1 DEF ShutHandle, Settled, Gone, Closes, CloserWaits, owner
  <2> QED
    BY <1>0, <2>1, <2>2, <2>3, FlightHandle DEF owner, closing, system
<1>2. CASE DownloadDone \/ CurlWrite \/ (\E n \in Chunks : XferInfo(n))
  <2>1. Downloading
    BY <1>2 DEF DownloadDone, CurlWrite, XferInfo
  <2>2. kind = "download"
    BY <2>1, PlainPosted DEF Downloading, AllAllowed, Allowed
  <2>3. /\ UNCHANGED <<kind, main, handle, written, requests, closing, system>>
        /\ flying' \subseteq flying /\ InFlight' = InFlight
    BY <1>2, PlainPosted DEF DownloadDone, CurlWrite, XferInfo, owner, InFlight
  <2>4. Counted'
    BY <2>3, SameFlight DEF closing
  <2>5. (handle = 0 => Settled') /\ (closePending = 1 => Gone') /\ \A o \in Posted : Closes(o) => Closes(o)'
    BY <1>0, <2>2, <2>3 DEF Settled, Gone, Closes, CloserWaits
  <2> QED
    BY <1>0, <2>3, <2>4, <2>5, FlightHandle DEF closing, system
<1> QED
  BY <1>1, <1>2, OwnerNext, ServeHandle, CompleteHandle DEF Next, Thread

LEMMA HandleStep == ASSUME IInv, HandleInv, [Next]_vars, Exact PROVE HandleInv'
<1>1. CASE UNCHANGED vars
  <2>1. UNCHANGED <<owner, failed, requests, progress, closing, flying, system>>
    BY <1>1 DEF vars, caching
  <2>2. Counted'
    BY <2>1, SameFlight DEF InFlight, closing
  <2>3. (handle = 0 => Settled') /\ (closePending = 1 => Gone') /\ \A o \in Posted : Closes(o) => Closes(o)'
    BY <2>1 DEF HandleInv, ShutHandle, Settled, Gone, Closes, CloserWaits, owner
  <2> QED
    BY <1>1, <2>1, <2>2, <2>3, FlightHandle DEF IInv, owner, closing, system
<1> QED
  BY <1>1, HandleNext

-----------------------------------------------------------------------------
(* Where the progress was never rounded to 1 early. *)

LEMMA EarlyStays == [Next]_vars /\ early' = 0 => early = 0
<1> SUFFICES ASSUME [Next]_vars, early' = 0 PROVE early = 0
  OBVIOUS
<1>1. CASE Owner
  BY <1>1 DEF Owner, StartCaching, Read, Write, Downloaded, Close, FinishClose, Stop, Unref, Join
<1>2. CASE Serve
  BY <1>2 DEF Serve
<1>3. ASSUME NEW op \in flying, Complete(op) PROVE early = 0
  BY <1>3 DEF Complete, ReadDone, ChunkDone, ChunkLost, WriteDone, CloseDone
<1>4. CASE Finish \/ DownloadDone \/ LoopEnds \/ CurlWrite \/ (\E n \in Chunks : XferInfo(n)) \/ FallSilent
  BY <1>4 DEF Finish, DownloadDone, LoopEnds, CurlWrite, XferInfo, FallSilent
<1>5. CASE UNCHANGED vars
  BY <1>5 DEF vars
<1> QED
  BY <1>1, <1>2, <1>3, <1>4, <1>5 DEF Next, Thread

\* A chunk is lost only when its handle is closed, its memory freed, or the progress was "done" before.
LEMMA NothingLost == ASSUME IInv, HandleInv, [Next]_vars, early' = 0 PROVE Exact
<1> SUFFICES main' # "crashed"
  BY DEF Exact
<1> USE DEF IInv
<1>1. CASE Owner
  BY <1>1 DEF Owner, StartCaching, Read, ReadCache, AwaitDownload, ReadFile, Write, Downloaded, Close,
     FinishClose, Stop, Unref, Join
<1>2. CASE Serve
  BY <1>2, ServesFirst DEF Run
<1>3. ASSUME NEW op \in flying, Complete(op) PROVE main' # "crashed"
  <2>1. ~ChunkLost(op)
    BY DEF ChunkLost, AllAllowed, Allowed, HandleInv, ClosedQuiet
  <2> QED
    BY <1>3, <2>1 DEF Complete, ReadDone, ChunkDone, WriteDone, CloseDone
<1>4. CASE Finish \/ DownloadDone \/ LoopEnds \/ CurlWrite \/ (\E n \in Chunks : XferInfo(n)) \/ FallSilent
  BY <1>4 DEF Finish, DownloadDone, LoopEnds, CurlWrite, XferInfo, FallSilent, owner
<1>5. CASE UNCHANGED vars
  BY <1>5 DEF vars, owner
<1> QED
  BY <1>1, <1>2, <1>3, <1>4, <1>5 DEF Next, Thread

Safe == early = 0 => IInv /\ HandleInv

LEMMA SafeInit == Init => Safe
BY IInvInit, HandleInvInit DEF Safe

LEMMA SafeNext == Safe /\ [Next]_vars => Safe'
<1> SUFFICES ASSUME Safe, [Next]_vars, early' = 0 PROVE IInv' /\ HandleInv'
  BY DEF Safe
<1>1. IInv /\ HandleInv
  BY EarlyStays DEF Safe
<1>2. Exact
  BY <1>1, NothingLost
<1> QED
  BY <1>1, <1>2, IInvNext, HandleStep

(* As long as the progress was not rounded to 1 under the last chunk,      *)
(* nothing fills the cache of a file that is gone: closeInternal frees it  *)
(* only when its barrier says that the last chunk, or the download, has    *)
(* come (uvfile.cc:215).                                                   *)
THEOREM CacheIsKept == Spec => []CacheKept
<1>1. Safe => CacheKept
  <2> SUFFICES ASSUME IInv, Gone, NEW op \in Queued \cup flying
               PROVE  op.what \notin {"cache", "chunk", "download"}
    BY DEF CacheKept, Safe
  <2>1. requests \in Seq(Posted)
    BY DEF IInv, OpsOK
  <2>2. Allowed(op)
    BY <2>1 DEF IInv, AllAllowed, Queued
  <2> QED
    BY <2>2 DEF Allowed
<1> QED
  BY <1>1, SafeInit, SafeNext, PTL DEF Spec

(* As long as the progress was not rounded to 1 under the last chunk, the  *)
(* handle of the system is not used once it was closed, or is being        *)
(* closed, and is closed once, whether a cache that is complete lets go of *)
(* it early or writes under way put its close off (uvfile.cc:222).         *)
THEOREM HandleIsKept == Spec => []HandleKept
<1>1. Safe => HandleKept
  <2> SUFFICES ASSUME IInv, HandleInv, fd # "open"
               PROVE  /\ \A op \in Queued : op.what \notin {"read", "write", "cache", "close", "closeNow"}
                      /\ \A op \in flying : op.what \notin {"read", "write", "chunk"}
    BY DEF HandleKept, Safe
  <2>1. \A op \in Queued : \E i \in Index : op = requests[i]
    BY DEF Queued, Index, IInv, OpsOK
  <2> QED
    BY <2>1 DEF HandleInv, ClosedQuiet, Users, Closers
<1> QED
  BY <1>1, SafeInit, SafeNext, PTL DEF Spec

-----------------------------------------------------------------------------
(* What the file and its cache hold. *)

Racy(w, c) == Op(w, c, 0) \in racy
IsWrite(op, c) == op.what = "write" /\ op.at = c

\* Writes are queued in the order of their versions, and none is newer than the last one.
Ordered ==
    /\ \A i, j \in Index : i < j /\ requests[i].what = "write" /\ requests[j].what = "write" =>
           requests[i].version < requests[j].version
    /\ \A o \in InFlight : \A i \in Index : requests[i].what = "write" => o.version < requests[i].version
    /\ \A i \in Index : requests[i].what = "write" => requests[i].version <= last[requests[i].at]
    /\ \A o \in InFlight : o.version <= last[o.at]
    /\ \A c \in Chunks : last[c] <= written

\* The last write of a chunk is queued, in flight, or done and nothing else to come.
Awaits(c) == \E i \in Index : IsWrite(requests[i], c) /\ requests[i].version = last[c]
Flies(c) == \E o \in flying : IsWrite(o, c) /\ o.version = last[c]
Still(c) == (\A i \in Index : ~IsWrite(requests[i], c)) /\ \A o \in flying : ~IsWrite(o, c)
Landed(c) == disk[c] = last[c] /\ Still(c)
Latest == \A c \in Chunks : Racy("write", c) \/
    /\ \A o, p \in flying : IsWrite(o, c) /\ IsWrite(p, c) => o = p
    /\ Awaits(c) \/ Flies(c) \/ Landed(c)

\* What reads comes after every write there is.
ReadsAfter ==
    /\ \A i, j \in Index : requests[i].what \in {"read", "cache"} /\ i < j => requests[j].what # "write"
    /\ \A o \in flying : o.what \in {"read", "chunk"} =>
           /\ \A i \in Index : requests[i].what # "write"
           /\ Racy(o.what, o.at) \/ \A p \in flying : ~IsWrite(p, o.at)

\* The chunks up to m_cachePtr are in the cache, and those written since the last one came.
Good(c) == cache[c] = last[c] \/ Racy("chunk", c) \/ Racy("write", c)
CacheGood == kind # "download" /\ main \in {"idle", "read"} =>
    /\ cached = 0 => cachePtr = 0
    /\ \A o \in flying : o.what = "chunk" => o.at = cachePtr + 1
    /\ cached = 1 => \A c \in Chunks : c <= cachePtr \/ (progress = "done" /\ c <= size) => Good(c)
CancelLast == \A i \in Index : requests[i].what = "cancel" => kind # "download" /\ main \notin {"idle", "read"}

DownloadGood == kind = "download" =>
    /\ \A c \in Chunks : last[c] = 0
    /\ ~Gone => \A c \in Chunks : c <= cachePtr => cache[c] = 0
    /\ progress = "done" /\ failed = 0 => cachePtr >= size
    /\ main = "await" => wanted <= size

AnswerGood == answer # None =>
    /\ answer.at \in Chunks
    /\ \/ answer.version = last[answer.at]
       \/ Racy("read", answer.at) \/ Racy("chunk", answer.at) \/ Racy("write", answer.at)
       \/ kind = "download" /\ failed = 1
    /\ kind = "download" => progress = "done" \/ Gone

\* A download is read from its cache.
OnlyFiles == kind = "download" =>
    /\ \A i \in Index : requests[i].what # "read"
    /\ \A o \in flying : o.what # "read"

ContentInv == Ordered /\ Latest /\ ReadsAfter /\ CacheGood /\ CancelLast /\ DownloadGood /\ AnswerGood /\ OnlyFiles

\* The thread ends when the file is gone and nothing is left to do; its handle has a request that closes it.
Leaves ==
    /\ uv \in {"leaving", "ended"} => main \in {"joining", "ended"}
    /\ main = "ended" => uv = "ended"
    /\ uv = "ended" => requests = << >> /\ flying = {}
    /\ \A i \in Index : /\ requests[i].what = "unref" => main = "joining"
                        /\ requests[i].what = "barrier" =>
                               /\ main = "stopping"
                               /\ \A j \in Index : requests[j].what = "barrier" => j = i
WillClose ==
    /\ fd = "open" => \/ handle = 1 \/ (closePending = 1 /\ pendingWrites # 0)
                      \/ \E i \in Index : requests[i].what \in Closers
    /\ fd = "closing" => \E o \in flying : o.what = "close"
    /\ Gone => handle = 0
EndInv == Leaves /\ WillClose

-----------------------------------------------------------------------------
\* What the owner posts stands behind the rest ...
LEMMA PostShape ==
    ASSUME OpsOK, NEW op \in Posted, NEW posts \in BOOLEAN,
           requests' = IF posts THEN requests \o <<op>> ELSE requests
    PROVE  /\ \A i \in Index : i \in Nat /\ i \in Index' /\ requests'[i] = requests[i]
           /\ \A i \in Index' : \/ i \in Index
                                \/ posts /\ requests'[i] = op /\ \A j \in Index' : ~(j > i)
           /\ posts => \E i \in Index' : requests'[i] = op /\ \A j \in Index : j < i
<1>1. requests \in Seq(Posted) /\ Len(requests) \in Nat
  BY DEF OpsOK
<1>2. CASE posts
  <2>1. /\ Len(requests') = Len(requests) + 1 /\ requests'[Len(requests) + 1] = op
        /\ \A i \in 1 .. Len(requests) : requests'[i] = requests[i]
    BY <1>1, <1>2, Appended
  <2> QED
    BY <1>1, <1>2, <2>1 DEF Index
<1>3. CASE ~posts
  BY <1>1, <1>3 DEF Index
<1> QED
  BY <1>2, <1>3

\* ... and what the thread serves is the first of it.
LEMMA ServeShape ==
    ASSUME OpsOK, requests # << >>, requests' = Without(1)
    PROVE  /\ 1 \in Index
           /\ \A i \in Index' : i \in Nat /\ i + 1 \in Index /\ i + 1 > 1 /\ requests'[i] = requests[i + 1]
           /\ \A i \in Index : i \in Nat /\ (i = 1 \/ (i - 1 \in Index' /\ requests'[i - 1] = requests[i]))
<1>1. requests \in Seq(Posted) /\ Len(requests) \in Nat /\ Len(requests) # 0
  BY DEF OpsOK
<1>2. requests' = SubSeq(requests, 1, 0) \o SubSeq(requests, 2, Len(requests))
  BY DEF Without
<1>3. Len(requests') = Len(requests) - 1 /\ \A i \in 1 .. Len(requests') : requests'[i] = requests[i + 1]
  BY <1>1, <1>2, MovedUp
<1>4. \A i \in 1 .. Len(requests) : i = 1 \/ i - 1 \in 1 .. Len(requests) - 1
  BY <1>1
<1>5. \A i \in 1 .. Len(requests) - 1 : i \in Nat /\ i + 1 \in 1 .. Len(requests) /\ i + 1 > 1
  BY <1>1
<1>6. \A i \in 1 .. Len(requests) : i \in Nat /\ (i - 1) + 1 = i
  BY <1>1
<1> QED
  BY <1>1, <1>3, <1>4, <1>5, <1>6 DEF Index

\* The requests are requests.
LEMMA IndexPosted == ASSUME OpsOK, NEW i \in Index PROVE i \in Nat /\ requests[i] \in Posted
BY DEF OpsOK, Index

-----------------------------------------------------------------------------
\* A step that moves no write.
LEMMA WritesStay ==
    ASSUME OpsOK, Ordered, Latest, UNCHANGED <<disk, last, written>>, racy \subseteq racy',
           NEW d \in {0, 1},
           \A i \in Index' : requests'[i].what = "write" =>
               i \in Nat /\ i + d \in Index /\ requests'[i] = requests[i + d],
           \A i \in Index : requests[i].what = "write" => i - d \in Index' /\ requests'[i - d] = requests[i],
           InFlight' = InFlight
    PROVE  Ordered' /\ Latest'
<1>1. Ordered'
  <2>1. \A i, j \in Index' : i < j /\ requests'[i].what = "write" /\ requests'[j].what = "write" =>
           requests'[i].version < requests'[j].version
    <3> SUFFICES ASSUME NEW i \in Index', NEW j \in Index', i < j,
                        requests'[i].what = "write", requests'[j].what = "write"
                 PROVE  requests'[i].version < requests'[j].version
      OBVIOUS
    <3>1. i \in Nat /\ j \in Nat /\ i + d < j + d
      OBVIOUS
    <3> QED
      BY <3>1 DEF Ordered
  <2>2. \A o \in InFlight' : \A i \in Index' : requests'[i].what = "write" => o.version < requests'[i].version
    BY DEF Ordered
  <2>3. \A i \in Index' : requests'[i].what = "write" => requests'[i].version <= last[requests'[i].at]
    BY DEF Ordered
  <2> QED
    BY <2>1, <2>2, <2>3 DEF Ordered
<1>2. \A c \in Chunks : Racy("write", c) => Racy("write", c)'
  BY DEF Racy
<1>3. \A o : o \in flying /\ o.what = "write" <=> o \in flying' /\ o.what = "write"
  BY DEF InFlight
<1>4. ASSUME NEW c \in Chunks, ~Racy("write", c)
      PROVE  /\ \A o, p \in flying' : IsWrite(o, c) /\ IsWrite(p, c) => o = p
             /\ Awaits(c)' \/ Flies(c)' \/ Landed(c)'
  <2>1. /\ \A o, p \in flying : IsWrite(o, c) /\ IsWrite(p, c) => o = p
        /\ Awaits(c) \/ Flies(c) \/ Landed(c)
    BY <1>4 DEF Latest
  <2>2. \A o, p \in flying' : IsWrite(o, c) /\ IsWrite(p, c) => o = p
    BY <1>3, <2>1 DEF IsWrite
  <2>3. Awaits(c) => Awaits(c)'
    BY DEF Awaits, IsWrite
  <2>4. Flies(c) => Flies(c)'
    BY <1>3 DEF Flies, IsWrite
  <2>5. Landed(c) => Landed(c)'
    BY <1>3 DEF Landed, Still, IsWrite
  <2> QED
    BY <2>1, <2>2, <2>3, <2>4, <2>5
<1>5. Latest'
  BY <1>2, <1>4 DEF Latest, IsWrite
<1> QED
  BY <1>1, <1>5

\* The owner writes.
LEMMA WritesQueued ==
    ASSUME IInv, HandleInv, Ordered, Latest, NEW c \in Chunks, Write(c)
    PROVE  Ordered' /\ Latest'
<1> DEFINE op == Op("write", c, written')
<1>1. /\ written' = written + 1 /\ last' = [last EXCEPT ![c] = written'] /\ requests' = requests \o <<op>>
      /\ UNCHANGED <<flying, disk, racy>> /\ written \in Nat /\ written' \in Versions
      /\ last \in [Chunks -> Versions] /\ OpsOK
  BY FileAssumption DEF Write, Post, system, IInv, StateOK, Versions
<1>2. op \in Posted /\ op.what = "write" /\ op.at = c /\ op.version = written + 1
  BY <1>1, OpPosted DEF Op
<1> HIDE DEF op
<1>3. /\ \A i \in Index : i \in Nat /\ i \in Index' /\ requests'[i] = requests[i]
      /\ \A i \in Index' : i \in Index \/ (requests'[i] = op /\ \A j \in Index' : ~(j > i))
      /\ \E i \in Index' : requests'[i] = op
  <2>1. requests' = IF TRUE THEN requests \o <<op>> ELSE requests
    BY <1>1
  <2> QED
    BY <1>1, <1>2, <2>1, PostShape
<1>4. /\ \A b \in Chunks : last[b] \in Nat /\ last[b] <= written /\ last'[b] = IF b = c THEN written + 1 ELSE last[b]
      /\ last' \in [Chunks -> Versions]
  BY <1>1 DEF Ordered, Versions
<1>5. \A i \in Index : requests[i].what = "write" =>
          requests[i].version \in Nat /\ requests[i].version <= written /\ requests[i].at \in Chunks
  BY <1>1, IndexPosted DEF HandleInv, Different, Written, Posted, Versions
<1>6. \A o \in InFlight : o.version \in Nat /\ o.version <= written /\ o.at \in Chunks
  BY <1>1 DEF HandleInv, Different, Written, OpsOK, Posted, InFlight, Versions
<1>7. InFlight' = InFlight
  BY <1>1 DEF InFlight
<1>8. Ordered'
  <2>1. \A i, j \in Index' : i < j /\ requests'[i].what = "write" /\ requests'[j].what = "write" =>
           requests'[i].version < requests'[j].version
    <3> SUFFICES ASSUME NEW i \in Index', NEW j \in Index', i < j,
                        requests'[i].what = "write", requests'[j].what = "write"
                 PROVE  requests'[i].version < requests'[j].version
      OBVIOUS
    <3>1. i \in Index
      <4>1. i \in Int /\ j \in Int
        BY DEF Index
      <4> QED
        BY <1>3, <4>1
    <3>2. CASE j \in Index
      BY <1>3, <3>1, <3>2 DEF Ordered
    <3>3. CASE requests'[j] = op
      <4>1. requests'[i].version \in Nat /\ requests'[i].version <= written
        BY <1>3, <1>5, <3>1
      <4>2. requests'[j].version = written + 1
        BY <1>2, <3>3
      <4>3. \A v \in Nat : v <= written => v < written + 1
        BY <1>1
      <4> QED
        BY <4>1, <4>2, <4>3
    <3> QED
      BY <1>3, <3>2, <3>3
  <2>2. \A o \in InFlight' : \A i \in Index' : requests'[i].what = "write" => o.version < requests'[i].version
    <3>1. \A o \in InFlight : o.version < written + 1
      BY <1>1, <1>6
    <3> QED
      BY <1>2, <1>3, <1>7, <3>1 DEF Ordered
  <2>3. \A i \in Index' : requests'[i].what = "write" => requests'[i].version <= last'[requests'[i].at]
    <3>1. \A i \in Index : requests[i].what = "write" => requests[i].version <= last'[requests[i].at]
      <4> SUFFICES ASSUME NEW i \in Index, requests[i].what = "write"
                   PROVE  requests[i].version <= last'[requests[i].at]
        OBVIOUS
      <4>1. requests[i].version <= last[requests[i].at]
        BY DEF Ordered
      <4> QED
        BY <1>1, <1>4, <1>5, <4>1
    <3>2. op.version <= last'[op.at]
      BY <1>1, <1>2, <1>4
    <3> QED
      BY <1>3, <3>1, <3>2
  <2>4. \A o \in InFlight' : o.version <= last'[o.at]
    <3> SUFFICES ASSUME NEW o \in InFlight PROVE o.version <= last'[o.at]
      BY <1>7
    <3>1. o.version <= last[o.at]
      BY DEF Ordered
    <3> QED
      BY <1>1, <1>4, <1>6, <3>1
  <2>5. \A b \in Chunks : last'[b] <= written'
    BY <1>1, <1>4
  <2> QED
    BY <2>1, <2>2, <2>3, <2>4, <2>5 DEF Ordered
<1>9. Latest'
  <2> SUFFICES ASSUME NEW b \in Chunks, ~Racy("write", b)'
               PROVE  /\ \A o, p \in flying' : IsWrite(o, b) /\ IsWrite(p, b) => o = p
                      /\ Awaits(b)' \/ Flies(b)' \/ Landed(b)'
    BY DEF Latest, IsWrite
  <2>1. /\ \A o, p \in flying : IsWrite(o, b) /\ IsWrite(p, b) => o = p
        /\ Awaits(b) \/ Flies(b) \/ Landed(b)
    BY <1>1 DEF Latest, Racy
  <2>2. CASE b = c
    <3>1. Awaits(b)'
      BY <1>1, <1>2, <1>3, <1>4, <2>2 DEF Awaits, IsWrite
    <3> QED
      BY <1>1, <2>1, <3>1
  <2>3. CASE b # c
    <3>1. last'[b] = last[b]
      BY <1>4, <2>3
    <3>2. Awaits(b) => Awaits(b)'
      BY <1>3, <3>1 DEF Awaits, IsWrite
    <3>3. Flies(b) => Flies(b)'
      BY <1>1, <3>1 DEF Flies, IsWrite
    <3>4. Landed(b) => Landed(b)'
      BY <1>1, <1>2, <1>3, <2>3, <3>1 DEF Landed, Still, IsWrite
    <3> QED
      BY <1>1, <2>1, <3>2, <3>3, <3>4
  <2> QED
    BY <2>2, <2>3
<1> QED
  BY <1>8, <1>9

\* The thread serves a write.
LEMMA WriteServed ==
    ASSUME IInv, HandleInv, Ordered, Latest, Serve, requests[1].what = "write"
    PROVE  Ordered' /\ Latest'
<1> DEFINE op == requests[1]
<1>1. /\ requests # << >> /\ requests' = Without(1) /\ Run(op) /\ op \in Posted
      /\ UNCHANGED <<written, last, disk>> /\ OpsOK
  BY ServesFirst DEF IInv
<1>2. /\ 1 \in Index
      /\ \A i \in Index' : i \in Nat /\ i + 1 \in Index /\ i + 1 > 1 /\ requests'[i] = requests[i + 1]
      /\ \A i \in Index : i \in Nat /\ (i = 1 \/ (i - 1 \in Index' /\ requests'[i - 1] = requests[i]))
  BY <1>1, ServeShape
<1>3. /\ flying' = flying \cup {op} /\ op.what = "write" /\ op.at \in Chunks
      /\ racy' = IF Overlaps(op) THEN racy \cup {Op("write", op.at, 0)} ELSE racy
  BY <1>1 DEF Run, Submit, Posted
<1>4. InFlight' = InFlight \cup {op}
  BY <1>3 DEF InFlight
<1> HIDE DEF op
<1>5. op = requests[1]
  BY DEF op
<1>6. Ordered'
  <2>1. \A i, j \in Index' : i < j /\ requests'[i].what = "write" /\ requests'[j].what = "write" =>
           requests'[i].version < requests'[j].version
    <3> SUFFICES ASSUME NEW i \in Index', NEW j \in Index', i < j,
                        requests'[i].what = "write", requests'[j].what = "write"
                 PROVE  requests'[i].version < requests'[j].version
      OBVIOUS
    <3>1. i + 1 < j + 1
      BY <1>2
    <3> QED
      BY <1>2, <3>1 DEF Ordered
  <2>2. \A o \in InFlight' : \A i \in Index' : requests'[i].what = "write" => o.version < requests'[i].version
    <3>1. \A i \in Index' : requests'[i].what = "write" => op.version < requests'[i].version
      BY <1>2, <1>3, <1>5 DEF Ordered
    <3>2. \A o \in InFlight : \A i \in Index' : requests'[i].what = "write" => o.version < requests'[i].version
      BY <1>2 DEF Ordered
    <3> QED
      BY <1>4, <3>1, <3>2
  <2>3. \A i \in Index' : requests'[i].what = "write" => requests'[i].version <= last[requests'[i].at]
    BY <1>2 DEF Ordered
  <2>4. op.version <= last[op.at]
    BY <1>2, <1>3, <1>5 DEF Ordered
  <2> QED
    BY <1>1, <1>4, <2>1, <2>2, <2>3, <2>4 DEF Ordered
<1>7. Latest'
  <2> SUFFICES ASSUME NEW b \in Chunks, ~Racy("write", b)'
               PROVE  /\ \A o, p \in flying' : IsWrite(o, b) /\ IsWrite(p, b) => o = p
                      /\ Awaits(b)' \/ Flies(b)' \/ Landed(b)'
    BY DEF Latest, IsWrite
  <2>1. /\ ~Racy("write", b)
        /\ \A o, p \in flying : IsWrite(o, b) /\ IsWrite(p, b) => o = p
        /\ Awaits(b) \/ Flies(b) \/ Landed(b)
    BY <1>3 DEF Latest, Racy
  <2>2. op.at = b => \A o \in flying : ~IsWrite(o, b)
    BY <1>3 DEF Racy, Overlaps, IsWrite
  <2>3. \A o, p \in flying' : IsWrite(o, b) /\ IsWrite(p, b) => o = p
    BY <1>3, <2>1, <2>2 DEF IsWrite
  <2>4. CASE Awaits(b)
    <3>1. PICK i \in Index : IsWrite(requests[i], b) /\ requests[i].version = last[b]
      BY <2>4 DEF Awaits
    <3>2. CASE i = 1
      <4>1. Flies(b)'
        BY <1>1, <1>3, <1>5, <3>1, <3>2 DEF Flies
      <4> QED
        BY <2>3, <4>1
    <3>3. CASE i # 1
      <4>1. Awaits(b)'
        BY <1>1, <1>2, <3>1, <3>3 DEF Awaits, IsWrite
      <4> QED
        BY <2>3, <4>1
    <3> QED
      BY <3>2, <3>3
  <2>5. CASE Flies(b)
    <3>1. Flies(b)'
      BY <1>1, <1>3, <2>5 DEF Flies, IsWrite
    <3> QED
      BY <2>3, <3>1
  <2>6. CASE Landed(b)
    <3>1. op.at # b
      BY <1>2, <1>3, <1>5, <2>6 DEF Landed, Still, IsWrite
    <3>2. Landed(b)'
      BY <1>1, <1>2, <1>3, <2>6, <3>1 DEF Landed, Still, IsWrite
    <3> QED
      BY <2>3, <3>2
  <2> QED
    BY <2>1, <2>4, <2>5, <2>6
<1> QED
  BY <1>6, <1>7

\* A write is done.
LEMMA WriteLands ==
    ASSUME IInv, HandleInv, Ordered, Latest, NEW op \in flying, Complete(op), op.what = "write", Exact
    PROVE  Ordered' /\ Latest'
<1>1. /\ WriteDone(op) /\ UNCHANGED <<written, last, requests, racy>> /\ OpsOK /\ op \in Posted
  BY DEF Complete, WriteDone, ReadDone, ChunkDone, ChunkLost, CloseDone, IInv, OpsOK
<1>2. fd = "open"
  BY DEF HandleInv, ClosedQuiet
<1>3. /\ disk' = [disk EXCEPT ![op.at] = op.version] /\ disk \in [Chunks -> Versions] /\ op.at \in Chunks
      /\ \A o : o \in flying' /\ o.what = "write" <=> o \in flying \ {op} /\ o.what = "write"
  BY <1>1, <1>2, PlainPosted DEF WriteDone, Land, IInv, StateOK, Posted
<1>4. InFlight' = InFlight \ {op} /\ op \in InFlight
  BY <1>3 DEF InFlight
<1>5. Ordered'
  BY <1>1, <1>4 DEF Ordered, Index
<1>6. Latest'
  <2> SUFFICES ASSUME NEW b \in Chunks, ~Racy("write", b)
               PROVE  /\ \A o, p \in flying' : IsWrite(o, b) /\ IsWrite(p, b) => o = p
                      /\ Awaits(b)' \/ Flies(b)' \/ Landed(b)'
    BY <1>1 DEF Latest, IsWrite, Racy
  <2>1. /\ \A o, p \in flying : IsWrite(o, b) /\ IsWrite(p, b) => o = p
        /\ Awaits(b) \/ Flies(b) \/ Landed(b)
    BY DEF Latest
  <2>2. \A o, p \in flying' : IsWrite(o, b) /\ IsWrite(p, b) => o = p
    BY <1>3, <2>1 DEF IsWrite
  <2>3. Awaits(b) => Awaits(b)'
    BY <1>1 DEF Awaits, Index
  <2>4. CASE Flies(b)
    <3>1. PICK o \in flying : IsWrite(o, b) /\ o.version = last[b]
      BY <2>4 DEF Flies
    <3>2. CASE o = op
      <4>1. disk'[b] = last'[b] /\ \A p \in flying' : ~IsWrite(p, b)
        BY <1>1, <1>3, <2>1, <3>1, <3>2 DEF IsWrite
      <4>2. \A i \in Index : ~IsWrite(requests[i], b)
        <5> SUFFICES ASSUME NEW i \in Index, IsWrite(requests[i], b) PROVE FALSE
          OBVIOUS
        <5>1. op.version < requests[i].version /\ requests[i].version <= last[b]
          BY <1>4 DEF Ordered, IsWrite
        <5>2. op.version \in Nat /\ requests[i].version \in Int
          BY <1>1, IndexPosted DEF Posted, Versions, IsWrite
        <5>3. last[b] = op.version
          BY <3>1, <3>2
        <5> QED
          BY <5>1, <5>2, <5>3
      <4>3. Landed(b)'
        BY <1>1, <4>1, <4>2 DEF Landed, Still, Index
      <4> QED
        BY <2>2, <4>3
    <3>3. CASE o # op
      <4>1. Flies(b)'
        BY <1>1, <1>3, <3>1, <3>3 DEF Flies, IsWrite
      <4> QED
        BY <2>2, <4>1
    <3> QED
      BY <3>2, <3>3
  <2>5. CASE Landed(b)
    <3>1. op.at # b
      BY <2>5 DEF Landed, Still, IsWrite
    <3>2. Landed(b)'
      BY <1>1, <1>3, <2>5, <3>1 DEF Landed, Still, IsWrite, Index
    <3> QED
      BY <2>2, <3>2
  <2> QED
    BY <2>1, <2>2, <2>3, <2>4, <2>5
<1> QED
  BY <1>5, <1>6

-----------------------------------------------------------------------------
\* The owner posts something else than a write, or nothing.
LEMMA PostKeepsContent ==
    ASSUME OpsOK, ContentInv, NEW op \in Posted, NEW posts \in BOOLEAN,
           requests' = IF posts THEN requests \o <<op>> ELSE requests, op.what # "write",
           UNCHANGED <<flying, disk, last, written, racy, kind>>,
           posts /\ op.what = "cancel" => kind # "download" /\ main' \notin {"idle", "read"},
           kind # "download" /\ main' \in {"idle", "read"} => main \in {"idle", "read"},
           posts /\ op.what = "read" => kind # "download"
    PROVE  Ordered' /\ Latest' /\ ReadsAfter' /\ CancelLast' /\ OnlyFiles'
<1> USE DEF ContentInv
<1>1. /\ \A i \in Index : i \in Nat /\ i \in Index' /\ requests'[i] = requests[i]
      /\ \A i \in Index' : i \in Index \/ (posts /\ requests'[i] = op /\ \A j \in Index' : ~(j > i))
  BY PostShape
<1>2. Ordered' /\ Latest'
  <2>0. \A i \in Index \cup Index' : i \in Nat /\ i + 0 = i /\ i - 0 = i
    BY DEF Index
  <2>1. \A i \in Index' : requests'[i].what = "write" =>
            i \in Nat /\ i + 0 \in Index /\ requests'[i] = requests[i + 0]
    BY <1>1, <2>0
  <2>2. \A i \in Index : requests[i].what = "write" => i - 0 \in Index' /\ requests'[i - 0] = requests[i]
    BY <1>1, <2>0
  <2>3. InFlight' = InFlight
    BY DEF InFlight
  <2> QED
    BY <2>1, <2>2, <2>3, WritesStay
<1>3. ReadsAfter'
  <2>1. \A i, j \in Index' : requests'[i].what \in {"read", "cache"} /\ i < j => requests'[j].what # "write"
    <3> SUFFICES ASSUME NEW i \in Index', NEW j \in Index', requests'[i].what \in {"read", "cache"}, i < j
                 PROVE  requests'[j].what # "write"
      OBVIOUS
    <3>1. i \in Index
      <4>1. i \in Int /\ j \in Int
        BY DEF Index
      <4> QED
        BY <1>1, <4>1
    <3> QED
      BY <1>1, <3>1 DEF ReadsAfter
  <2>2. \A o \in flying' : o.what \in {"read", "chunk"} =>
           /\ \A i \in Index' : requests'[i].what # "write"
           /\ Racy(o.what, o.at)' \/ \A p \in flying' : ~IsWrite(p, o.at)
    BY <1>1 DEF ReadsAfter, Racy
  <2> QED
    BY <2>1, <2>2 DEF ReadsAfter, IsWrite, Racy
<1>4. CancelLast' /\ OnlyFiles'
  BY <1>1 DEF CancelLast, OnlyFiles
<1> QED
  BY <1>2, <1>3, <1>4

\* Neither the file nor its cache nor an answer changes.
LEMMA SameContent ==
    ASSUME ContentInv, UNCHANGED <<kind, failed, size, cached, cache, cachePtr, progress, last, answer, wanted>>,
           \A o \in flying' : o.what = "chunk" => o \in flying,
           racy \subseteq racy', kind # "download" /\ main' \in {"idle", "read"} => main \in {"idle", "read"},
           main' = "await" => main = "await", Gone => Gone'
    PROVE  CacheGood' /\ DownloadGood' /\ AnswerGood'
<1> USE DEF ContentInv
<1>1. \A w, c : Racy(w, c) => Racy(w, c)'
  BY DEF Racy
<1>2. CacheGood'
  BY <1>1 DEF CacheGood, Good
<1>3. DownloadGood' /\ AnswerGood'
  BY <1>1 DEF DownloadGood, AnswerGood
<1> QED
  BY <1>2, <1>3

LEMMA AnswerIs == \A c, v : Op("answer", c, v).at = c /\ Op("answer", c, v).version = v
BY DEF Op

LEMMA OwnerContent == ASSUME IInv, HandleInv, ContentInv, Owner PROVE ContentInv'
<1> USE DEF IInv, ContentInv
<1>0. /\ StateOK /\ OpsOK /\ PromiseKept
      /\ \A w \in {"cache", "cancel", "close", "closeNow", "barrier", "unref"} :
             Plain(w) \in Posted /\ Plain(w).what = w
  BY PlainPosted
<1>1. CASE StartCaching
  <2> DEFINE posts == failed # 1
             op == Plain("cache")
  <2>1. /\ requests' = (IF posts THEN requests \o <<op>> ELSE requests)
        /\ main = "idle" /\ kind # "download" /\ cached = 0 /\ progress # "done"
        /\ UNCHANGED <<kind, main, wanted, size, written, last, failed, cache, cachePtr, progress, flying,
                       disk, racy, answer>>
    <3>1. requests' = IF posts THEN requests \o <<op>> ELSE requests
      BY <1>0, <1>1, PostsNothing DEF StartCaching, Post
    <3>2. main = "idle" /\ kind # "download" /\ cached = 0
      BY <1>1 DEF StartCaching
    <3>3. progress # "done"
      BY <3>2 DEF PromiseKept
    <3>4. UNCHANGED <<kind, main, wanted, size, written, last, failed, cache, cachePtr, progress, flying,
                      disk, racy, answer>>
      BY <1>1 DEF StartCaching, caching, system
    <3> QED
      BY <3>1, <3>2, <3>3, <3>4
  <2>2. posts \in BOOLEAN /\ op \in Posted /\ op.what = "cache"
    BY <1>0
  <2> HIDE DEF posts, op
  <2>3. Ordered' /\ Latest' /\ ReadsAfter' /\ CancelLast' /\ OnlyFiles'
    BY <1>0, <2>1, <2>2, PostKeepsContent
  <2>4. CacheGood'
    <3>1. cachePtr = 0 /\ \A c \in Chunks : ~(c <= 0)
      BY <2>1 DEF CacheGood, Chunks
    <3> QED
      BY <2>1, <3>1 DEF CacheGood
  <2>5. DownloadGood' /\ AnswerGood'
    BY <2>1 DEF DownloadGood, AnswerGood, Racy
  <2> QED
    BY <2>3, <2>4, <2>5
<1>2. ASSUME NEW c \in Chunks, Read(c) PROVE ContentInv'
  <2>1. /\ UNCHANGED <<kind, failed, fd, flying, written, progress, size, cached, last, cache, cachePtr, racy, disk>>
        /\ main = "idle" /\ c <= size
    BY <1>2 DEF Read, caching, system
  <2>2. CASE ReadCache(c)
    <3> DEFINE posts == handle = 1 /\ kind # "writable"
               op == Plain("closeNow")
    <3>1. requests' = IF posts THEN requests \o <<op>> ELSE requests
      BY <1>0, <2>2, PostsNothing DEF ReadCache, Post
    <3>2. progress = "done" /\ UNCHANGED <<main, wanted>> /\ answer' = Op("answer", c, cache[c])
      BY <2>2 DEF ReadCache
    <3>3. posts \in BOOLEAN /\ op \in Posted /\ op.what = "closeNow"
      BY <1>0
    <3> HIDE DEF posts, op
    <3>4. Ordered' /\ Latest' /\ ReadsAfter' /\ CancelLast' /\ OnlyFiles'
      BY <1>0, <2>1, <3>1, <3>2, <3>3, PostKeepsContent
    <3>5. CacheGood' /\ DownloadGood'
      BY <2>1, <3>2 DEF CacheGood, DownloadGood, Good, Racy, Gone
    <3>6. kind # "download" => Good(c)
      BY <2>1, <3>2, <1>0 DEF CacheGood, PromiseKept, StateOK
    <3>7. kind = "download" => failed = 1 \/ cache[c] = last[c]
      <4>1. kind = "download" /\ failed # 1 => cachePtr >= size
        BY <1>0, <3>2 DEF DownloadGood, StateOK
      <4>2. size \in Nat /\ cachePtr \in Nat /\ c \in Nat /\ ~Gone
        BY <1>0, <2>1, FileAssumption DEF StateOK, Chunks, Gone
      <4>3. kind = "download" /\ failed # 1 => c <= cachePtr
        BY <2>1, <4>1, <4>2
      <4> QED
        BY <4>2, <4>3 DEF DownloadGood
    <3>8. AnswerGood'
      BY <2>1, <3>2, <3>6, <3>7, AnswerIs DEF AnswerGood, Good, Racy
    <3> QED
      BY <3>4, <3>5, <3>8
  <2>3. CASE AwaitDownload(c)
    <3>1. UNCHANGED <<requests, answer>> /\ main' = "await" /\ kind = "download" /\ wanted' = c
      BY <2>3 DEF AwaitDownload
    <3>2. Ordered' /\ Latest' /\ ReadsAfter' /\ CancelLast' /\ OnlyFiles'
      BY <1>0, <2>1, <3>1, PostKeepsContent
    <3>3. CacheGood' /\ DownloadGood' /\ AnswerGood'
      BY <2>1, <3>1 DEF CacheGood, DownloadGood, AnswerGood, Racy, Gone
    <3> QED
      BY <3>2, <3>3
  <2>4. CASE ReadFile(c)
    <3> DEFINE op == Op("read", c, 0)
    <3>1. op \in Posted /\ op.what = "read"
      BY OpPosted, FileAssumption DEF Versions
    <3>2. requests' = (IF TRUE THEN requests \o <<op>> ELSE requests) /\ main' = "read" /\ answer' = answer
          /\ kind # "download"
      BY <2>4 DEF ReadFile, Post
    <3> HIDE DEF op
    <3>3. Ordered' /\ Latest' /\ ReadsAfter' /\ CancelLast' /\ OnlyFiles'
      BY <1>0, <2>1, <3>1, <3>2, PostKeepsContent
    <3>4. CacheGood' /\ DownloadGood' /\ AnswerGood'
      BY <2>1, <3>2 DEF CacheGood, DownloadGood, AnswerGood, Good, Racy
    <3> QED
      BY <3>3, <3>4
  <2> QED
    BY <1>2, <2>2, <2>3, <2>4 DEF Read
<1>3. ASSUME NEW c \in Chunks, Write(c) PROVE ContentInv'
  <2>1. /\ UNCHANGED <<kind, failed, fd, flying, progress, cached, cachePtr, racy, main>>
        /\ main = "idle" /\ kind = "writable" /\ (cached = 1 => progress = "done") /\ written' = written + 1
        /\ last' = [last EXCEPT ![c] = written'] /\ answer' = None /\ c <= size + 1
        /\ cache' = (IF cached = 1 THEN [cache EXCEPT ![c] = written'] ELSE cache)
        /\ size' = (IF c > size THEN c ELSE size)
        /\ requests' = IF TRUE THEN requests \o <<Op("write", c, written')>> ELSE requests
    BY <1>3 DEF Write, MayWrite, Post, caching, system
  <2>2. Ordered' /\ Latest'
    BY <1>3, WritesQueued
  <2>3. /\ \A i \in Index : requests[i].what \notin {"read", "cache"}
        /\ \A o \in flying : o.what \notin {"read", "chunk"}
    <3>1. cached = 1 => progress = "done"
      BY <2>1
    <3> QED
      BY <2>1, <3>1 DEF AllAllowed, Allowed, Index
  <2> DEFINE op == Op("write", c, written')
  <2>4. op \in Posted /\ op.what = "write"
    <3>1. written' \in Versions
      BY <1>3, FileAssumption DEF Write, Versions, StateOK
    <3> QED
      BY <3>1, OpPosted
  <2>5. requests' = IF TRUE THEN requests \o <<op>> ELSE requests
    BY <2>1
  <2> HIDE DEF op
  <2>6. \A i \in Index' : (i \in Index /\ requests'[i] = requests[i]) \/ requests'[i] = op
    BY <1>0, <2>4, <2>5, PostShape
  <2>7. ReadsAfter' /\ CancelLast' /\ OnlyFiles'
    <3>1. \A i \in Index' : requests'[i].what \notin {"read", "cache"}
      BY <2>3, <2>4, <2>6
    <3>2. ReadsAfter'
      BY <2>1, <2>3, <3>1 DEF ReadsAfter
    <3>3. CancelLast' /\ OnlyFiles'
      BY <2>1, <2>4, <2>6 DEF CancelLast, OnlyFiles
    <3> QED
      BY <3>2, <3>3
  <2>8. CacheGood'
    <3>1. \A b \in Chunks : \/ b = c /\ (cached = 1 => cache'[b] = last'[b])
                            \/ b # c /\ cache'[b] = cache[b] /\ last'[b] = last[b]
      BY <1>0, <2>1 DEF StateOK
    <3>2. \A b \in Chunks : b <= size' => b = c \/ b <= size
      BY <1>0, <2>1, FileAssumption DEF StateOK, Chunks
    <3>3. \A b \in Chunks : b # c /\ Good(b) => Good(b)'
      BY <2>1, <3>1 DEF Good, Racy
    <3>4. cached = 1 => Good(c)'
      BY <3>1 DEF Good
    <3> QED
      BY <2>1, <3>2, <3>3, <3>4 DEF CacheGood
  <2>9. DownloadGood' /\ AnswerGood'
    BY <2>1 DEF DownloadGood, AnswerGood
  <2> QED
    BY <2>2, <2>7, <2>8, <2>9
<1>4. CASE Downloaded
  <2>1. /\ UNCHANGED <<kind, failed, requests, flying, written, progress, size, cached, last, cache, cachePtr, racy, disk, wanted>>
        /\ main = "await" /\ barrier = 1 /\ main' = "idle" /\ answer' = Op("answer", wanted, cache[wanted])
    BY <1>4 DEF Downloaded, caching, system
  <2>2. kind = "download" /\ progress = "done" /\ wanted \in Chunks /\ ~Gone
    BY <1>0, <2>1 DEF PromiseKept, HistoryOK, Gone
  <2>3. Ordered' /\ Latest' /\ ReadsAfter' /\ CancelLast' /\ OnlyFiles'
    BY <1>0, <2>1, <2>2, PostKeepsContent
  <2>4. failed = 1 \/ cache[wanted] = last[wanted]
    <3>1. failed # 1 => cachePtr >= size /\ wanted <= size
      BY <1>0, <2>1, <2>2 DEF DownloadGood, StateOK
    <3>2. size \in Nat /\ cachePtr \in Nat /\ wanted \in Nat
      BY <1>0, FileAssumption DEF StateOK
    <3>3. failed # 1 => wanted <= cachePtr
      BY <3>1, <3>2
    <3> QED
      BY <2>2, <3>3 DEF DownloadGood
  <2>5. CacheGood' /\ DownloadGood'
    BY <2>1, <2>2 DEF CacheGood, DownloadGood, Gone
  <2>6. AnswerGood'
    BY <2>1, <2>2, <2>4, AnswerIs DEF AnswerGood
  <2> QED
    BY <2>3, <2>5, <2>6
<1>5. CASE Close \/ Stop \/ Unref \/ Join
  <2>1. /\ UNCHANGED <<kind, failed, flying, written, progress, size, cached, last, cache, cachePtr, racy, disk, wanted, answer>>
        /\ main' \notin {"idle", "read", "await"} /\ (Gone => Gone')
    BY <1>5 DEF Close, Stop, Unref, Join, caching, system, Gone
  <2>2. PICK w \in {"cancel", "barrier", "unref"}, posts \in BOOLEAN :
            /\ requests' = IF posts THEN requests \o <<Plain(w)>> ELSE requests
            /\ posts /\ w = "cancel" => kind # "download"
    <3>1. \/ requests' = requests \/ (requests' = requests \o <<Plain("cancel")>> /\ kind # "download")
          \/ requests' = requests \o <<Plain("barrier")>> \/ requests' = requests \o <<Plain("unref")>>
      BY <1>0, <1>5, PostsNothing DEF Close, Stop, Unref, Join, Post
    <3> QED
      BY <3>1
  <2> DEFINE op == Plain(w)
  <2>3. op \in Posted /\ op.what # "write" /\ op.what = w
    BY <1>0
  <2>4. requests' = IF posts THEN requests \o <<op>> ELSE requests
    BY <2>2
  <2> HIDE DEF op
  <2>5. Ordered' /\ Latest' /\ ReadsAfter' /\ CancelLast' /\ OnlyFiles'
    BY <1>0, <2>1, <2>2, <2>3, <2>4, PostKeepsContent
  <2>6. CacheGood' /\ DownloadGood' /\ AnswerGood'
    BY <2>1, SameContent
  <2> QED
    BY <2>5, <2>6
<1>6. CASE FinishClose
  <2>1. /\ UNCHANGED <<kind, failed, flying, written, size, last, cachePtr, racy, disk, wanted, answer>>
        /\ main' = "gone"
    BY <1>6 DEF FinishClose, system
  <2> DEFINE posts == handle = 1
             op == Plain("close")
  <2>2. /\ requests' = IF posts THEN requests \o <<op>> ELSE requests
        /\ progress' = "none"
    BY <1>0, <1>6, PostsNothing DEF FinishClose, Post
  <2>3. posts \in BOOLEAN /\ op \in Posted /\ op.what = "close"
    BY <1>0
  <2> HIDE DEF posts, op
  <2>4. Ordered' /\ Latest' /\ ReadsAfter' /\ CancelLast' /\ OnlyFiles'
    BY <1>0, <2>1, <2>2, <2>3, PostKeepsContent
  <2>5. CacheGood' /\ DownloadGood' /\ AnswerGood'
    BY <2>1, <2>2 DEF CacheGood, DownloadGood, AnswerGood, Gone, Racy
  <2> QED
    BY <2>4, <2>5
<1> QED
  BY <1>1, <1>2, <1>3, <1>4, <1>5, <1>6 DEF Owner

\* The thread serves what is not a write.
LEMMA ServeKeepsContent ==
    ASSUME IInv, HandleInv, ContentInv, Serve, requests[1].what # "write"
    PROVE  Ordered' /\ Latest' /\ ReadsAfter' /\ CancelLast' /\ OnlyFiles'
<1> USE DEF IInv, ContentInv
<1> DEFINE op == requests[1]
<1>1. /\ requests # << >> /\ requests' = Without(1) /\ Run(op) /\ op \in Posted
      /\ UNCHANGED <<kind, size, written, last, disk>> /\ OpsOK
  BY ServesFirst
<1>2. /\ 1 \in Index
      /\ \A i \in Index' : i \in Nat /\ i + 1 \in Index /\ i + 1 > 1 /\ requests'[i] = requests[i + 1]
      /\ \A i \in Index : i \in Nat /\ (i = 1 \/ (i - 1 \in Index' /\ requests'[i - 1] = requests[i]))
  BY <1>1, ServeShape
<1> HIDE DEF op
<1>3. op = requests[1]
  BY DEF op
<1>4. /\ \A o \in flying' : \/ o \in flying \/ o.what \in {"close", "download"}
                            \/ /\ op.what \in {"read", "cache"} /\ o.what \in {"read", "chunk"}
                               /\ (o.what = "read" => op.what = "read")
                               /\ Racy(o.what, o.at)' \/ \A p \in flying : ~IsWrite(p, o.at)
      /\ InFlight' = InFlight /\ racy \subseteq racy'
  <2>1. CASE op.what = "read"
    <3>1. /\ flying' = flying \cup {op}
          /\ racy' = IF Overlaps(op) THEN racy \cup {Op(op.what, op.at, 0)} ELSE racy
      BY <1>1, <2>1 DEF Run, Submit
    <3> QED
      BY <2>1, <3>1 DEF Overlaps, Racy, IsWrite, InFlight
  <2>2. CASE op.what = "cache"
    <3>1. ReadCacheChunk(cachePtr, flying, progress)
      BY <1>1, <2>2 DEF Run
    <3> QED
      BY <2>2, <3>1 DEF ReadCacheChunk, Overlaps, Racy, IsWrite, InFlight, Op
  <2>3. CASE op.what \notin {"read", "cache"}
    <3>1. flying' \in {flying, flying \cup {Plain("close")}, flying \cup {Plain("download")}} /\ racy' = racy
      BY <1>1, <1>3, <2>3 DEF Run, CloseHandle
    <3> QED
      BY <3>1, PlainPosted DEF InFlight
  <2> QED
    BY <2>1, <2>2, <2>3
<1>5. Ordered' /\ Latest'
  <2>1. \A i \in Index : requests[i].what = "write" => i # 1
    BY <1>3
  <2> QED
    BY <1>1, <1>2, <1>4, <2>1, WritesStay
<1>6. ReadsAfter'
  <2>1. \A i, j \in Index' : requests'[i].what \in {"read", "cache"} /\ i < j => requests'[j].what # "write"
    <3> SUFFICES ASSUME NEW i \in Index', NEW j \in Index', requests'[i].what \in {"read", "cache"}, i < j
                 PROVE  requests'[j].what # "write"
      OBVIOUS
    <3>1. i + 1 < j + 1
      BY <1>2
    <3> QED
      BY <1>2, <3>1 DEF ReadsAfter
  <2>2. ASSUME NEW o \in flying', o.what \in {"read", "chunk"}
        PROVE  /\ \A i \in Index' : requests'[i].what # "write"
               /\ Racy(o.what, o.at)' \/ \A p \in flying' : ~IsWrite(p, o.at)
    <3>1. \A a : (\A p \in flying : ~IsWrite(p, a)) => \A p \in flying' : ~IsWrite(p, a)
      BY <1>4 DEF InFlight, IsWrite
    <3>2. CASE o \in flying
      BY <1>2, <1>4, <2>2, <3>1, <3>2 DEF ReadsAfter, Racy
    <3>3. CASE op.what \in {"read", "cache"} /\ (Racy(o.what, o.at)' \/ \A p \in flying : ~IsWrite(p, o.at))
      <4>1. \A i \in Index' : requests'[i].what # "write"
        BY <1>2, <1>3, <3>3 DEF ReadsAfter
      <4> QED
        BY <3>1, <3>3, <4>1
    <3> QED
      BY <1>4, <2>2, <3>2, <3>3
  <2> QED
    BY <2>1, <2>2 DEF ReadsAfter, Racy, IsWrite
<1>7. CancelLast' /\ OnlyFiles'
  <2>1. main' = main \/ main' = "stopped"
    BY <1>1 DEF Run
  <2>2. OnlyFiles'
    BY <1>1, <1>2, <1>3, <1>4 DEF OnlyFiles
  <2> QED
    BY <1>1, <1>2, <2>1, <2>2 DEF CancelLast
<1> QED
  BY <1>5, <1>6, <1>7

LEMMA ServeContent == ASSUME IInv, HandleInv, ContentInv, Serve PROVE ContentInv'
<1> USE DEF IInv, ContentInv
<1> DEFINE op == requests[1]
<1>1. /\ requests # << >> /\ requests' = Without(1) /\ Run(op) /\ op \in Posted /\ Allowed(op) /\ 1 \in Index
      /\ UNCHANGED <<kind, wanted, size, cached, last, failed, cache, written, disk, answer>>
      /\ OpsOK /\ StateOK
  <2>1. requests \in Seq(Posted) /\ requests # << >> => 1 \in Index
    BY DEF Index
  <2>2. requests # << >> /\ requests \in Seq(Posted)
    BY ServesFirst DEF OpsOK
  <2>3. Allowed(op)
    BY <2>1, <2>2 DEF AllAllowed, Index
  <2> QED
    BY <2>1, <2>2, <2>3, ServesFirst
<1>2. Ordered' /\ Latest' /\ ReadsAfter' /\ CancelLast' /\ OnlyFiles'
  <2>1. CASE op.what # "write"
    BY <2>1, ServeKeepsContent
  <2>2. CASE op.what = "write"
    <3>1. Ordered' /\ Latest'
      BY <2>2, WriteServed
    <3>2. /\ \A i \in Index' : i \in Nat /\ i + 1 \in Index /\ i + 1 > 1 /\ requests'[i] = requests[i + 1]
      BY <1>1, ServeShape
    <3>3. flying' = flying \cup {op} /\ UNCHANGED <<main>>
      BY <1>1, <2>2 DEF Run, Submit
    <3>4. \A o \in flying' : o.what \notin {"read", "chunk"}
      BY <1>1, <2>2, <3>3 DEF ReadsAfter
    <3>5. ReadsAfter'
      <4>1. \A i, j \in Index' : requests'[i].what \in {"read", "cache"} /\ i < j => requests'[j].what # "write"
        <5> SUFFICES ASSUME NEW i \in Index', NEW j \in Index', requests'[i].what \in {"read", "cache"}, i < j
                     PROVE  requests'[j].what # "write"
          OBVIOUS
        <5>1. i + 1 < j + 1
          BY <3>2
        <5> QED
          BY <3>2, <5>1 DEF ReadsAfter
      <4> QED
        BY <3>4, <4>1 DEF ReadsAfter
    <3>6. CancelLast' /\ OnlyFiles'
      BY <1>1, <2>2, <3>2, <3>3 DEF CancelLast, OnlyFiles
    <3> QED
      BY <3>1, <3>5, <3>6
  <2> QED
    BY <2>1, <2>2
<1>3. CacheGood' /\ DownloadGood' /\ AnswerGood'
  <2>1. CASE op.what = "cache"
    <3>1. /\ ReadCacheChunk(cachePtr, flying, progress) /\ main' = main /\ kind # "download" /\ cached = 1
      BY <1>1, <2>1 DEF Run, Allowed
    <3>2. cachePtr' = cachePtr /\ racy \subseteq racy'
      BY <3>1 DEF ReadCacheChunk
    <3>3. \A w, c : Racy(w, c) => Racy(w, c)'
      BY <3>2 DEF Racy
    <3>4. CacheGood'
      <4>1. \A o \in flying' : o \in flying \/ o.at = cachePtr + 1
        BY <3>1 DEF ReadCacheChunk, Op
      <4>2. progress' = progress \/ cachePtr >= size
        BY <3>1 DEF ReadCacheChunk
      <4>3. \A c \in Chunks : cachePtr >= size /\ c <= size => c <= cachePtr
        BY <1>1, FileAssumption DEF Chunks, StateOK
      <4> QED
        BY <1>1, <3>1, <3>2, <3>3, <4>1, <4>2, <4>3 DEF CacheGood, Good
    <3>5. DownloadGood' /\ AnswerGood'
      BY <1>1, <3>1, <3>3 DEF DownloadGood, AnswerGood
    <3> QED
      BY <3>4, <3>5
  <2>2. CASE op.what = "cancel"
    <3>1. main' = main /\ racy' = racy /\ kind # "download" /\ main \notin {"idle", "read"}
      BY <1>1, <2>2 DEF Run, CancelLast
    <3> QED
      BY <1>1, <3>1 DEF CacheGood, DownloadGood, AnswerGood, Racy
  <2>3. CASE op.what \notin {"cache", "cancel"}
    <3>1. UNCHANGED <<cachePtr, progress>> /\ racy \subseteq racy'
      BY <1>1, <2>3 DEF Run, Submit, caching
    <3>2. \A o \in flying' : o.what = "chunk" => o \in flying
      <4>1. flying' \in {flying, flying \cup {op}, flying \cup {Plain("close")}, flying \cup {Plain("download")}}
            /\ (flying' = flying \cup {op} => op.what # "chunk" \/ flying' = flying)
        BY <1>1, <2>3 DEF Run, Submit, CloseHandle
      <4> QED
        BY <4>1, PlainPosted
    <3>3. main' = main \/ (main' = "stopped" /\ op.what = "barrier")
      BY <1>1 DEF Run
    <3>4. Gone => Gone'
      BY <3>3 DEF Gone
    <3> QED
      BY <1>1, <3>1, <3>2, <3>3, <3>4, SameContent
  <2> QED
    BY <2>1, <2>2, <2>3
<1> QED
  BY <1>2, <1>3

-----------------------------------------------------------------------------
\* A step that leaves the requests and the writes alone.
LEMMA StayContent ==
    ASSUME OpsOK, ContentInv, UNCHANGED <<requests, disk, last, written, kind>>, racy \subseteq racy',
           InFlight' = InFlight,
           kind # "download" /\ main' \in {"idle", "read"} => main \in {"idle", "read"},
           \A o \in flying' : o.what \in {"read", "chunk"} =>
               \/ o \in flying
               \/ /\ \A i \in Index : requests[i].what # "write"
                  /\ Racy(o.what, o.at)' \/ \A p \in flying : ~IsWrite(p, o.at)
                  /\ o.what = "chunk"
    PROVE  Ordered' /\ Latest' /\ ReadsAfter' /\ CancelLast' /\ OnlyFiles'
<1> USE DEF ContentInv
<1>1. Index' = Index /\ \A i \in Index : i \in Nat /\ i + 0 = i /\ i - 0 = i
  BY DEF Index
<1>2. Ordered' /\ Latest'
  <2>1. \A i \in Index' : requests'[i].what = "write" =>
            i \in Nat /\ i + 0 \in Index /\ requests'[i] = requests[i + 0]
    BY <1>1
  <2>2. \A i \in Index : requests[i].what = "write" => i - 0 \in Index' /\ requests'[i - 0] = requests[i]
    BY <1>1
  <2> QED
    BY <2>1, <2>2, WritesStay
<1>3. ReadsAfter'
  <2>1. \A a : (\A p \in flying : ~IsWrite(p, a)) => \A p \in flying' : ~IsWrite(p, a)
    BY DEF InFlight, IsWrite
  <2>2. ASSUME NEW o \in flying', o.what \in {"read", "chunk"}
        PROVE  /\ \A i \in Index' : requests'[i].what # "write"
               /\ Racy(o.what, o.at)' \/ \A p \in flying' : ~IsWrite(p, o.at)
    <3>1. CASE o \in flying
      BY <1>1, <2>1, <2>2, <3>1 DEF ReadsAfter, Racy
    <3>2. CASE o \notin flying
      BY <1>1, <2>1, <2>2, <3>2
    <3> QED
      BY <3>1, <3>2
  <2>3. \A i, j \in Index' : requests'[i].what \in {"read", "cache"} /\ i < j => requests'[j].what # "write"
    BY <1>1 DEF ReadsAfter
  <2> QED
    BY <2>2, <2>3 DEF ReadsAfter, Racy, IsWrite
<1>4. CancelLast' /\ OnlyFiles'
  <2>1. CancelLast'
    BY <1>1 DEF CancelLast
  <2>2. OnlyFiles'
    BY <1>1 DEF OnlyFiles
  <2> QED
    BY <2>1, <2>2
<1> QED
  BY <1>2, <1>3, <1>4

\* What the file holds where no write is to come.
LEMMA ReadsLatest ==
    ASSUME ContentInv, OpsOK, NEW op \in flying, op.what \in {"read", "chunk"}
    PROVE  op.at \in Chunks /\ (disk[op.at] = last[op.at] \/ Racy(op.what, op.at) \/ Racy("write", op.at))
<1> USE DEF ContentInv
<1>1. op.at \in Chunks
  BY DEF OpsOK, Posted
<1>2. CASE ~Racy(op.what, op.at) /\ ~Racy("write", op.at)
  <2>1. (\A i \in Index : requests[i].what # "write") /\ \A p \in flying : ~IsWrite(p, op.at)
    BY <1>2 DEF ReadsAfter
  <2>2. Awaits(op.at) \/ Flies(op.at) \/ Landed(op.at)
    BY <1>1, <1>2 DEF Latest
  <2> QED
    BY <1>1, <2>1, <2>2 DEF Awaits, Flies, Landed, IsWrite
<1> QED
  BY <1>1, <1>2

LEMMA ChunkContent ==
    ASSUME IInv, ContentInv, NEW op \in flying, Complete(op), op.what = "chunk", Exact
    PROVE  ContentInv'
<1> USE DEF ContentInv
<1>0. StateOK /\ OpsOK /\ Allowed(op) /\ Alone
  BY DEF IInv, AllAllowed
<1> DEFINE got == op.at <= diskSize
           ptr == IF got THEN cachePtr + 1 ELSE cachePtr
           next == Op("chunk", ptr + 1, 0)
<1>1. /\ UNCHANGED <<kind, wanted, size, cached, last, failed, requests, written, main, answer, disk, diskSize>>
      /\ cache' = IF got THEN [cache EXCEPT ![op.at] = disk[op.at]] ELSE cache
      /\ \E stored \in Ratio(ptr) : ReadCacheChunk(ptr, flying \ {op}, stored)
      /\ early' = IF ptr < size /\ progress' = "done" THEN 1 ELSE early
  BY DEF Complete, ReadDone, ChunkDone, ChunkLost, WriteDone, CloseDone, Exact, system
<1>2. kind # "download" /\ cached = 1 /\ progress # "done" /\ op.at \in Chunks
  BY <1>0 DEF Allowed, OpsOK, Posted
<1>3. \A o \in flying : o.what = "chunk" => o = op
  BY <1>0 DEF Alone, Class, Once
<1> HIDE DEF got
<1>4. /\ cachePtr' = ptr /\ racy \subseteq racy'
      /\ \A o \in flying' : (o \in flying /\ o # op) \/ (o = next /\ (Racy(o.what, o.at)' \/ ~Overlaps(next)))
      /\ progress' # "done" \/ ptr >= size
  <2>1. cachePtr' = ptr
    BY <1>1 DEF ReadCacheChunk
  <2>2. CASE ptr >= size
    BY <1>1, <2>2 DEF ReadCacheChunk
  <2>3. CASE ~(ptr >= size)
    <3>1. /\ flying' = (flying \ {op}) \cup {next} /\ progress' # "done"
          /\ racy' = IF Overlaps(next) THEN racy \cup {next} ELSE racy
      <4>1. ptr < size
        BY <1>0, <2>3, FileAssumption DEF StateOK
      <4> QED
        BY <1>1, <2>3, <4>1 DEF ReadCacheChunk, Exact
    <3>2. next = Op(next.what, next.at, 0)
      BY DEF Op
    <3> HIDE DEF next
    <3>3. \A o \in flying' : (o \in flying /\ o # op) \/ o = next
      BY <3>1
    <3>4. Overlaps(next) => \A o : o = next => Racy(o.what, o.at)'
      BY <3>1, <3>2 DEF Racy
    <3> QED
      BY <2>1, <3>1, <3>3, <3>4
  <2> QED
    BY <2>1, <2>2, <2>3
<1>5. InFlight' = InFlight
  <2>1. next.what = "chunk"
    BY DEF Op
  <2>2. \A o \in flying : o # op => o \in flying'
    BY <1>1 DEF ReadCacheChunk
  <2> QED
    BY <1>4, <2>1, <2>2 DEF InFlight
<1>6. Ordered' /\ Latest' /\ ReadsAfter' /\ CancelLast' /\ OnlyFiles'
  <2>1. \A i \in Index : requests[i].what # "write"
    BY DEF ReadsAfter
  <2>2. next.what = "chunk"
    BY DEF Op
  <2>3. ~Overlaps(next) => \A p \in flying : ~IsWrite(p, next.at)
    BY DEF Overlaps, IsWrite
  <2> HIDE DEF next
  <2>4. \A o \in flying' : o.what \in {"read", "chunk"} =>
               \/ o \in flying
               \/ /\ \A i \in Index : requests[i].what # "write"
                  /\ Racy(o.what, o.at)' \/ \A p \in flying : ~IsWrite(p, o.at)
                  /\ o.what = "chunk"
    BY <1>4, <2>1, <2>2, <2>3
  <2> QED
    BY <1>0, <1>1, <1>4, <1>5, <2>4, StayContent
<1>7. CacheGood'
  <2> SUFFICES ASSUME main \in {"idle", "read"} PROVE CacheGood'
    BY <1>1 DEF CacheGood
  <2>1. op.at = cachePtr + 1
    BY <1>2 DEF CacheGood
  <2>2. \A o \in flying' : o.what = "chunk" => o.at = cachePtr' + 1
    <3>1. next.at = ptr + 1
      BY DEF Op
    <3> QED
      BY <1>3, <1>4, <3>1
  <2>3. \A w, c : Racy(w, c) => Racy(w, c)'
    BY <1>4 DEF Racy
  <2>4. size \in Nat /\ cachePtr \in Nat /\ Chunks \subseteq Nat
    BY <1>0, FileAssumption DEF StateOK, Chunks
  <2>5. \A c \in Chunks : c <= cachePtr => Good(c)
    BY <1>2 DEF CacheGood
  <2>6. \A c \in Chunks : c <= cachePtr => Good(c)'
    <3>1. \A c \in Chunks : c <= cachePtr => c # op.at
      BY <2>1, <2>4
    <3>2. \A c \in Chunks : c # op.at => cache'[c] = cache[c]
      BY <1>0, <1>1 DEF StateOK
    <3> QED
      BY <1>1, <2>3, <2>5, <3>1, <3>2 DEF Good
  <2>7. got => Good(op.at)'
    <3>1. got => cache'[op.at] = disk[op.at]
      BY <1>0, <1>1, <1>2 DEF StateOK
    <3> QED
      BY <1>0, <1>1, <2>3, <3>1, ReadsLatest DEF Good
  <2>8. \A c \in Chunks : c <= ptr => c <= cachePtr \/ (got /\ c = op.at)
    BY <2>1, <2>4
  <2>9. \A c \in Chunks : c <= ptr => Good(c)'
    BY <2>6, <2>7, <2>8
  <2>10. \A c \in Chunks : ptr >= size /\ c <= size => c <= ptr
    BY <2>4
  <2> HIDE DEF ptr
  <2>11. \A c \in Chunks : c <= cachePtr' \/ (progress' = "done" /\ c <= size') => Good(c)'
    BY <1>1, <1>2, <1>4, <2>9, <2>10
  <2> QED
    BY <1>1, <1>2, <2>2, <2>11 DEF CacheGood, Good, Racy
<1>8. DownloadGood' /\ AnswerGood'
  BY <1>1, <1>2, <1>4 DEF DownloadGood, AnswerGood, Racy
<1> QED
  BY <1>6, <1>7, <1>8

LEMMA CompleteContent ==
    ASSUME IInv, HandleInv, ContentInv, NEW op \in flying, Complete(op), Exact PROVE ContentInv'
<1> USE DEF ContentInv
<1>0. /\ StateOK /\ OpsOK /\ Allowed(op)
      /\ UNCHANGED <<kind, wanted, size, handle, cached, written, last, failed, requests, taken, cancelled>>
  BY DEF IInv, AllAllowed, Complete
<1>1. CASE op.what = "read"
  <2>1. /\ flying' = flying \ {op} /\ UNCHANGED <<cache, cachePtr, progress, disk, racy>>
        /\ main' = "idle" /\ main = "read" /\ kind # "download"
        /\ answer' = IF op.at <= diskSize THEN Op("answer", op.at, disk[op.at]) ELSE None
    BY <1>0, <1>1 DEF Complete, ReadDone, ChunkDone, ChunkLost, WriteDone, CloseDone, Exact, caching, system, Allowed, OnlyFiles
  <2>2. InFlight' = InFlight
    BY <1>1, <2>1 DEF InFlight
  <2>3. Ordered' /\ Latest' /\ ReadsAfter' /\ CancelLast' /\ OnlyFiles'
    BY <1>0, <2>1, <2>2, StayContent
  <2>4. CacheGood' /\ DownloadGood'
    BY <1>0, <2>1 DEF CacheGood, DownloadGood, Good, Racy
  <2>5. AnswerGood'
    BY <1>0, <1>1, <2>1, ReadsLatest, AnswerIs DEF AnswerGood, Racy
  <2> QED
    BY <2>3, <2>4, <2>5
<1>2. CASE op.what = "chunk"
  BY <1>2, ChunkContent
<1>3. CASE op.what = "write"
  <2>1. /\ UNCHANGED <<main, cache, cachePtr, progress, racy, answer>>
        /\ \A o \in flying' : o \in flying \/ o.what = "close"
    BY <1>3, PlainPosted DEF Complete, ReadDone, ChunkDone, ChunkLost, WriteDone, CloseDone, Exact, caching
  <2>2. Ordered' /\ Latest'
    BY <1>3, WriteLands
  <2>3. ReadsAfter'
    <3>1. \A a : (\A p \in flying : ~IsWrite(p, a)) => \A p \in flying' : ~IsWrite(p, a)
      BY <2>1 DEF IsWrite
    <3> QED
      BY <1>0, <2>1, <3>1 DEF ReadsAfter, Racy, Index, IsWrite
  <2>4. CancelLast' /\ OnlyFiles'
    BY <1>0, <2>1 DEF CancelLast, OnlyFiles, Index
  <2>5. CacheGood' /\ DownloadGood' /\ AnswerGood'
    BY <1>0, <2>1, SameContent DEF Gone
  <2> QED
    BY <2>2, <2>3, <2>4, <2>5
<1>4. CASE op.what = "close"
  <2>1. UNCHANGED <<main, cache, cachePtr, progress, racy, answer, disk>> /\ flying' = flying \ {op}
    BY <1>4 DEF Complete, ReadDone, ChunkDone, ChunkLost, WriteDone, CloseDone, Exact, caching
  <2>2. InFlight' = InFlight
    BY <1>4, <2>1 DEF InFlight
  <2>3. Ordered' /\ Latest' /\ ReadsAfter' /\ CancelLast' /\ OnlyFiles'
    BY <1>0, <2>1, <2>2, StayContent
  <2>4. CacheGood' /\ DownloadGood' /\ AnswerGood'
    BY <1>0, <2>1, SameContent DEF Gone
  <2> QED
    BY <2>3, <2>4
<1> QED
  BY <1>1, <1>2, <1>3, <1>4 DEF Complete, ReadDone, ChunkDone, ChunkLost, WriteDone, CloseDone, Exact

-----------------------------------------------------------------------------
\* Curl, and the ends.
LEMMA DownloadContent ==
    ASSUME IInv, HandleInv, ContentInv, (\E n \in Chunks : XferInfo(n)) \/ CurlWrite \/ DownloadDone
    PROVE  ContentInv'
<1> USE DEF ContentInv
<1> DEFINE op == Plain("download")
<1>0. StateOK /\ OpsOK /\ op \in flying /\ op.what = "download"
  BY PlainPosted DEF IInv, XferInfo, CurlWrite, DownloadDone, Downloading
<1>1. kind = "download" /\ ~Gone /\ progress # "done"
  BY <1>0 DEF IInv, AllAllowed, Allowed
<1>2. /\ UNCHANGED <<kind, main, wanted, last, written, requests, racy, disk, answer>>
      /\ flying' \subseteq flying /\ InFlight' = InFlight
  <2>1. /\ UNCHANGED <<kind, main, wanted, last, written, requests, racy, disk, answer>>
        /\ flying' = flying \/ flying' = flying \ {op}
    BY DEF XferInfo, CurlWrite, DownloadDone, owner, system
  <2> QED
    BY <1>0, <2>1 DEF InFlight
<1>3. Ordered' /\ Latest' /\ ReadsAfter' /\ CancelLast' /\ OnlyFiles'
  BY <1>0, <1>2, StayContent
<1>4. CacheGood' /\ AnswerGood'
  BY <1>1, <1>2 DEF CacheGood, AnswerGood, Gone
<1>5. DownloadGood'
  <2>1. size \in Nat /\ cachePtr \in Nat /\ cache \in [Chunks -> Versions \cup {Unset}] /\ Chunks \subseteq Nat
        /\ wanted \in Nat
    BY <1>0, FileAssumption DEF StateOK, Chunks
  <2>2. CASE \E n \in Chunks : XferInfo(n)
    <3>1. PICK n \in Chunks : XferInfo(n)
      BY <2>2
    <3>2. UNCHANGED <<cache, cachePtr>> /\ progress' = "part" /\ size' = n /\ n > size
      BY <3>1 DEF XferInfo
    <3>3. wanted <= size => wanted <= n
      BY <2>1, <3>2
    <3> QED
      BY <1>1, <1>2, <3>2, <3>3 DEF DownloadGood, Gone
  <2>3. CASE CurlWrite
    <3>1. /\ cachePtr' = cachePtr + 1 /\ cache' = [cache EXCEPT ![cachePtr + 1] = 0] /\ progress' = "part"
          /\ size' = IF cachePtr + 1 > size THEN cachePtr + 1 ELSE size
      BY <2>3 DEF CurlWrite
    <3>2. \A c \in Chunks : c <= cachePtr + 1 => c <= cachePtr \/ c = cachePtr + 1
      BY <2>1
    <3>3. \A c \in Chunks : c <= cachePtr => cache[c] = 0
      BY <1>1 DEF DownloadGood
    <3>4. \A c \in Chunks : c <= cachePtr + 1 => cache'[c] = 0
      BY <2>1, <3>1, <3>2, <3>3
    <3>5. wanted <= size => wanted <= size'
      BY <2>1, <3>1
    <3> QED
      BY <1>1, <1>2, <3>1, <3>4, <3>5 DEF DownloadGood, Gone
  <2>4. CASE DownloadDone
    <3>1. /\ UNCHANGED <<cache, cachePtr, size>>
          /\ failed' = 0 => ~(cachePtr < size)
      BY <2>4 DEF DownloadDone, owner
    <3>2. failed' = 0 => cachePtr >= size
      BY <2>1, <3>1
    <3> QED
      BY <1>1, <1>2, <3>1, <3>2 DEF DownloadGood, Gone
  <2> QED
    BY <2>2, <2>3, <2>4
<1> QED
  BY <1>3, <1>4, <1>5

LEMMA ContentNext == ASSUME IInv, HandleInv, ContentInv, [Next]_vars, Exact PROVE ContentInv'
<1> USE DEF ContentInv
<1>1. CASE Owner
  BY <1>1, OwnerContent
<1>2. CASE Serve
  BY <1>2, ServeContent
<1>3. CASE \E op \in flying : Complete(op)
  BY <1>3, CompleteContent
<1>4. CASE (\E n \in Chunks : XferInfo(n)) \/ CurlWrite \/ DownloadDone
  BY <1>4, DownloadContent
<1>5. CASE Finish \/ LoopEnds \/ FallSilent \/ UNCHANGED vars
  <2>1. UNCHANGED <<kind, main, wanted, size, cached, written, last, failed, cache, requests, cachePtr, progress,
                    flying, disk, racy, answer>>
    BY <1>5 DEF Finish, LoopEnds, FallSilent, vars, owner, caching, system
  <2>2. InFlight' = InFlight /\ OpsOK
    BY <2>1 DEF InFlight, IInv
  <2>3. Ordered' /\ Latest' /\ ReadsAfter' /\ CancelLast' /\ OnlyFiles'
    BY <2>1, <2>2, StayContent
  <2>4. CacheGood' /\ DownloadGood' /\ AnswerGood'
    BY <2>1, SameContent DEF Gone
  <2> QED
    BY <2>3, <2>4
<1> QED
  BY <1>1, <1>2, <1>3, <1>4, <1>5 DEF Next, Thread

LEMMA ContentInit == Init => ContentInv
<1> SUFFICES ASSUME Init PROVE ContentInv
  OBVIOUS
<1>1. /\ flying = {} /\ InFlight = {}
      /\ \A i \in Index : requests[i].what = "download"
  BY PlainPosted DEF Init, InFlight, Index
<1>2. /\ \A c \in Chunks : last[c] = 0 /\ disk[c] = 0
      /\ written = 0 /\ cachePtr = 0 /\ progress = "none" /\ cached = 0 /\ main = "idle" /\ answer = None
  BY DEF Init
<1>3. Ordered
  BY <1>1, <1>2 DEF Ordered
<1>4. Latest
  BY <1>1, <1>2 DEF Latest, Landed, Still, IsWrite
<1>5. ReadsAfter /\ CancelLast /\ OnlyFiles
  BY <1>1, <1>2 DEF ReadsAfter, CancelLast, OnlyFiles
<1>6. CacheGood /\ AnswerGood /\ DownloadGood
  <2>1. \A c \in Chunks : ~(c <= 0)
    BY DEF Chunks
  <2> QED
    BY <1>1, <1>2, <2>1 DEF CacheGood, AnswerGood, DownloadGood
<1> QED
  BY <1>3, <1>4, <1>5, <1>6 DEF ContentInv

SafeContent == early = 0 => ContentInv

LEMMA SafeContentNext == Safe /\ SafeContent /\ [Next]_vars => SafeContent'
<1> SUFFICES ASSUME Safe, SafeContent, [Next]_vars, early' = 0 PROVE ContentInv'
  BY DEF SafeContent
<1>1. IInv /\ HandleInv /\ ContentInv
  BY EarlyStays DEF Safe, SafeContent
<1> QED
  BY <1>1, NothingLost, ContentNext

(* As long as the progress was not rounded to 1 under the last chunk, what *)
(* a read returns was written last (see ReadsLast), for files of every     *)
(* size and any number of writes.                                          *)
THEOREM ReadsAreLast == Spec => []ReadsLast
<1>1. Init => Safe /\ SafeContent
  BY SafeInit, ContentInit DEF SafeContent
<1>2. Safe /\ SafeContent /\ [Next]_vars => (Safe /\ SafeContent)'
  BY SafeNext, SafeContentNext
<1>3. SafeContent => ReadsLast
  BY DEF SafeContent, ContentInv, AnswerGood, ReadsLast, Racy
<1> QED
  BY <1>1, <1>2, <1>3, PTL DEF Spec

-----------------------------------------------------------------------------
\* The owner posts something, or nothing, and nearer its end.
LEMMA PostKeepsEnd ==
    ASSUME OpsOK, EndInv, NEW op \in Posted, NEW posts \in BOOLEAN,
           requests' = IF posts THEN requests \o <<op>> ELSE requests,
           UNCHANGED <<uv, flying, fd, closing>>,
           posts => main \notin {"joining", "ended"},
           posts /\ op.what = "unref" => main' = "joining",
           posts /\ op.what = "barrier" => main # "stopping" /\ main' = "stopping",
           \/ main' = main
           \/ main \notin {"stopping", "joining", "ended"} /\ main' # "ended"
           \/ main = "joining" /\ main' = "ended" /\ uv = "ended",
           handle' = handle \/ (posts /\ op.what \in Closers), Gone' => handle' = 0
    PROVE  EndInv'
<1> USE DEF EndInv
<1>1. /\ \A i \in Index : i \in Nat /\ i \in Index' /\ requests'[i] = requests[i]
      /\ \A i \in Index' : i \in Index \/ (posts /\ requests'[i] = op /\ \A j \in Index' : ~(j > i))
      /\ posts => \E i \in Index' : requests'[i] = op /\ \A j \in Index : j < i
  BY PostShape
<1>2. Leaves'
  <2>1. uv' \in {"leaving", "ended"} => main' \in {"joining", "ended"}
    BY DEF Leaves
  <2>2. main' = "ended" => uv' = "ended"
    BY DEF Leaves
  <2>3. uv' = "ended" => requests' = << >> /\ flying' = {}
    BY DEF Leaves
  <2>4. \A i \in Index' : requests'[i].what = "unref" => main' = "joining"
    <3> SUFFICES ASSUME NEW i \in Index', requests'[i].what = "unref" PROVE main' = "joining"
      OBVIOUS
    <3>1. CASE i \in Index
      <4>1. main = "joining" /\ requests # << >>
        BY <1>1, <3>1 DEF Leaves, Index
      <4> QED
        BY <4>1 DEF Leaves
    <3> QED
      BY <1>1, <3>1
  <2>5. \A i \in Index' : requests'[i].what = "barrier" =>
            main' = "stopping" /\ \A j \in Index' : requests'[j].what = "barrier" => j = i
    <3> SUFFICES ASSUME NEW i \in Index', requests'[i].what = "barrier"
                 PROVE  main' = "stopping" /\ \A j \in Index' : requests'[j].what = "barrier" => j = i
      OBVIOUS
    <3>1. CASE i \in Index
      <4>1. main = "stopping" /\ \A j \in Index : requests[j].what = "barrier" => j = i
        BY <1>1, <3>1 DEF Leaves
      <4> QED
        BY <1>1, <4>1
    <3>2. CASE posts /\ requests'[i] = op /\ \A j \in Index' : ~(j > i)
      <4>1. \A j \in Index : requests[j].what # "barrier"
        BY <3>2 DEF Leaves
      <4>2. \A j \in Index' : j \in Index \/ \A k \in Index' : ~(k > j)
        BY <1>1
      <4>3. i \in Int /\ Index' \subseteq Int
        BY DEF Index
      <4>4. \A j \in Index' : j \notin Index => j = i
        BY <1>1, <3>2, <4>3
      <4>5. \A j \in Index' : j \in Index => requests'[j].what # "barrier"
        BY <1>1, <4>1
      <4>6. main' = "stopping"
        BY <3>2
      <4> QED
        BY <4>4, <4>5, <4>6
    <3> QED
      BY <1>1, <3>1, <3>2
  <2> QED
    BY <2>1, <2>2, <2>3, <2>4, <2>5 DEF Leaves
<1>3. WillClose'
  <2>1. fd' = "open" => \/ handle' = 1 \/ (closePending' = 1 /\ pendingWrites' # 0)
                        \/ \E i \in Index' : requests'[i].what \in Closers
    <3>1. CASE handle = 1
      BY <1>1, <3>1
    <3>2. CASE handle # 1
      BY <1>1, <3>2 DEF WillClose, closing
    <3> QED
      BY <3>1, <3>2
  <2> QED
    BY <2>1 DEF WillClose
<1> QED
  BY <1>2, <1>3

LEMMA OwnerEnd == ASSUME IInv, HandleInv, EndInv, Owner PROVE EndInv'
<1> USE DEF IInv, EndInv
<1>0. /\ StateOK /\ OpsOK /\ (Gone => handle = 0)
      /\ \A w \in {"cache", "cancel", "close", "closeNow", "barrier", "unref"} :
             Plain(w) \in Posted /\ Plain(w).what = w
      /\ UNCHANGED <<uv, flying, fd, closing>>
  BY PlainPosted DEF WillClose, Owner, StartCaching, Read, Write, Downloaded, Close, FinishClose, Stop, Unref,
     Join, system
<1>1. CASE StartCaching \/ Close \/ Stop \/ Unref \/ Join \/ Downloaded
  <2>1. PICK w \in {"cache", "cancel", "barrier", "unref"}, posts \in BOOLEAN :
            /\ requests' = IF posts THEN requests \o <<Plain(w)>> ELSE requests
            /\ posts => main \notin {"joining", "ended"}
            /\ posts /\ w = "unref" => main' = "joining"
            /\ posts /\ w = "barrier" => main # "stopping" /\ main' = "stopping"
    <3>1. \/ requests' = requests
          \/ main = "idle" /\ requests' = requests \o <<Plain("cache")>>
          \/ main = "idle" /\ requests' = requests \o <<Plain("cancel")>>
          \/ main = "gone" /\ main' = "stopping" /\ requests' = requests \o <<Plain("barrier")>>
          \/ main = "stopped" /\ main' = "joining" /\ requests' = requests \o <<Plain("unref")>>
      BY <1>0, <1>1, PostsNothing DEF StartCaching, Close, Stop, Unref, Join, Downloaded, Post
    <3> QED
      BY <3>1
  <2> DEFINE op == Plain(w)
  <2>2. op \in Posted /\ op.what = w
    BY <1>0
  <2>3. requests' = IF posts THEN requests \o <<op>> ELSE requests
    BY <2>1
  <2> HIDE DEF op
  <2>4. /\ handle' = handle /\ (Gone' => Gone)
        /\ \/ main' = main
           \/ main \notin {"stopping", "joining", "ended"} /\ main' # "ended"
           \/ main = "joining" /\ main' = "ended" /\ uv = "ended"
    BY <1>1 DEF StartCaching, Close, Stop, Unref, Join, Downloaded, Gone
  <2> QED
    BY <1>0, <2>1, <2>2, <2>3, <2>4, PostKeepsEnd
<1>2. ASSUME NEW c \in Chunks, Read(c) PROVE EndInv'
  <2>0. main = "idle"
    BY <1>2 DEF Read
  <2>1. PICK op \in Posted, posts \in BOOLEAN :
            /\ requests' = IF posts THEN requests \o <<op>> ELSE requests
            /\ op.what \in {"read", "closeNow"}
            /\ handle' = handle \/ (posts /\ op.what \in Closers)
    <3>1. CASE ReadFile(c)
      <4>1. Op("read", c, 0) \in Posted /\ Op("read", c, 0).what = "read"
        BY OpPosted, FileAssumption DEF Versions
      <4> QED
        BY <3>1, <4>1 DEF ReadFile, Post
    <3>2. CASE ReadCache(c) \/ AwaitDownload(c)
      <4>1. \/ requests' = requests /\ handle' = handle
            \/ requests' = requests \o <<Plain("closeNow")>>
        BY <1>0, <3>2, PostsNothing DEF ReadCache, AwaitDownload, Post
      <4> QED
        BY <1>0, <4>1 DEF Closers
    <3> QED
      BY <1>2, <3>1, <3>2 DEF Read
  <2>2. main' \in {"idle", "read", "await"}
    BY <1>2, <2>0 DEF Read, ReadCache, AwaitDownload, ReadFile
  <2> QED
    BY <1>0, <2>0, <2>1, <2>2, PostKeepsEnd DEF Gone
<1>3. ASSUME NEW c \in Chunks, Write(c) PROVE EndInv'
  <2> DEFINE op == Op("write", c, written')
  <2>1. /\ requests' = (IF TRUE THEN requests \o <<op>> ELSE requests)
        /\ main = "idle" /\ main' = main /\ handle' = handle /\ written' \in Versions
    BY <1>3, FileAssumption DEF Write, Post, Versions, StateOK
  <2>2. op \in Posted /\ op.what = "write"
    BY <2>1, OpPosted
  <2> HIDE DEF op
  <2> QED
    BY <1>0, <2>1, <2>2, PostKeepsEnd DEF Gone
<1>4. CASE FinishClose
  <2>1. /\ main \in {"close", "closing"} /\ main' = "gone" /\ handle' = 0
        /\ requests' = IF handle = 1 THEN requests \o <<Plain("close")>> ELSE requests
    BY <1>0, <1>4, PostsNothing DEF FinishClose, MayFree, Post
  <2> DEFINE op == Plain("close")
             posts == handle = 1
  <2>2. op \in Posted /\ op.what = "close" /\ posts \in BOOLEAN /\ op.what \in Closers
    BY <1>0 DEF Closers
  <2>3. handle' = handle \/ posts
    BY <1>0, <2>1 DEF StateOK
  <2>4. requests' = IF posts THEN requests \o <<op>> ELSE requests
    BY <2>1
  <2> HIDE DEF op, posts
  <2> QED
    BY <1>0, <2>1, <2>2, <2>3, <2>4, PostKeepsEnd
<1> QED
  BY <1>1, <1>2, <1>3, <1>4 DEF Owner

LEMMA ServeEnd == ASSUME IInv, HandleInv, EndInv, Serve PROVE EndInv'
<1> USE DEF IInv, EndInv
<1> DEFINE op == requests[1]
<1>1. /\ requests # << >> /\ requests' = Without(1) /\ Run(op) /\ op \in Posted
      /\ uv \in {"loop", "leaving"} /\ handle' = handle /\ OpsOK /\ StateOK
  BY ServesFirst
<1>2. /\ 1 \in Index
      /\ \A i \in Index' : i \in Nat /\ i + 1 \in Index /\ i + 1 > 1 /\ requests'[i] = requests[i + 1]
      /\ \A i \in Index : i \in Nat /\ (i = 1 \/ (i - 1 \in Index' /\ requests'[i - 1] = requests[i]))
  BY <1>1, ServeShape
<1>3. Allowed(op) /\ (op.what = "unref" => main = "joining")
      /\ (op.what = "barrier" => main = "stopping" /\ \A j \in Index : requests[j].what = "barrier" => j = 1)
  BY <1>2 DEF AllAllowed, Index, Leaves
<1> HIDE DEF op
<1>4. op = requests[1]
  BY DEF op
<1>5. /\ main' = main \/ (op.what = "barrier" /\ main' = "stopped")
      /\ uv' = uv \/ (op.what = "unref" /\ uv' = "leaving") \/ (op.what = "cache" /\ uv' = "finishing")
  BY <1>1 DEF Run, ReadCacheChunk
<1>6. Leaves'
  <2>1. uv' \in {"leaving", "ended"} => main' \in {"joining", "ended"}
    BY <1>1, <1>3, <1>5 DEF Leaves
  <2>2. (main' = "ended" => uv' = "ended") /\ (uv' = "ended" => requests' = << >> /\ flying' = {})
    BY <1>1, <1>5 DEF Leaves
  <2>3. \A i \in Index' : requests'[i].what = "unref" => main' = "joining"
    <3> SUFFICES ASSUME NEW i \in Index', requests'[i].what = "unref" PROVE main' = "joining"
      OBVIOUS
    <3>1. main = "joining"
      BY <1>2 DEF Leaves
    <3> QED
      BY <1>3, <1>5, <3>1
  <2>4. \A i \in Index' : requests'[i].what = "barrier" =>
            main' = "stopping" /\ \A j \in Index' : requests'[j].what = "barrier" => j = i
    <3> SUFFICES ASSUME NEW i \in Index', requests'[i].what = "barrier"
                 PROVE  main' = "stopping" /\ \A j \in Index' : requests'[j].what = "barrier" => j = i
      OBVIOUS
    <3>1. i + 1 \in Index /\ i + 1 # 1 /\ requests[i + 1].what = "barrier"
      BY <1>2
    <3>2. main = "stopping" /\ \A j \in Index : requests[j].what = "barrier" => j = i + 1
      BY <3>1 DEF Leaves
    <3>3. op.what # "barrier"
      BY <1>3, <3>1
    <3>4. ASSUME NEW j \in Index', requests'[j].what = "barrier" PROVE j = i
      <4>1. j + 1 = i + 1 /\ j \in Nat /\ i \in Nat
        BY <1>2, <3>2, <3>4
      <4> QED
        BY <4>1
    <3> QED
      BY <1>5, <3>2, <3>3, <3>4
  <2> QED
    BY <2>1, <2>2, <2>3, <2>4 DEF Leaves
<1>7. WillClose'
  <2>1. Gone' => handle' = 0
    BY <1>1, <1>3, <1>5 DEF WillClose, Gone
  <2>2. CASE op.what \in Closers /\ ~(op.what = "close" /\ DeferClose)
    <3>1. flying' = flying \cup {Plain("close")} /\ fd' = "closing"
      BY <1>1, <2>2 DEF Run, CloseHandle, Closers
    <3> QED
      BY <2>1, <3>1, PlainPosted DEF WillClose
  <2>3. CASE op.what = "close" /\ DeferClose
    <3>1. closePending' = 1 /\ UNCHANGED <<flying, pendingWrites, fd>> /\ pendingWrites # 0
      BY <1>1, <2>3 DEF Run, DeferClose
    <3> QED
      BY <2>1, <3>1 DEF WillClose
  <2>4. CASE op.what \notin Closers
    <3>1. /\ fd' = fd /\ closePending' = closePending /\ (\A o \in flying : o.what = "close" => o \in flying')
          /\ pendingWrites' = pendingWrites \/ op.what = "write"
      BY <1>1, <2>4 DEF Run, Submit, ReadCacheChunk, closing, Closers
    <3>2. op.what = "write" => closePending = 0
      BY <1>1, <1>2, <1>4 DEF HandleInv, CloserWaits, Users, StateOK
    <3>3. (\E i \in Index : requests[i].what \in Closers) => \E i \in Index' : requests'[i].what \in Closers
      BY <1>2, <1>4, <2>4
    <3> QED
      BY <1>1, <2>1, <3>1, <3>2, <3>3 DEF WillClose
  <2> QED
    BY <2>2, <2>3, <2>4 DEF Closers
<1> QED
  BY <1>6, <1>7

LEMMA CompleteEnd == ASSUME IInv, HandleInv, EndInv, NEW op \in flying, Complete(op), Exact PROVE EndInv'
<1> USE DEF IInv, EndInv
<1>1. /\ UNCHANGED <<requests, handle>> /\ uv \in {"loop", "leaving"} /\ Allowed(op)
      /\ main' = main \/ (main = "read" /\ main' = "idle")
      /\ uv' \in {uv, "finishing"}
  BY DEF Complete, ReadDone, ChunkDone, ChunkLost, WriteDone, CloseDone, Exact, ReadCacheChunk, AllAllowed, Allowed
<1>2. Leaves'
  BY <1>1 DEF Leaves, Index
<1>3. Gone' => handle' = 0
  BY <1>1 DEF WillClose, Gone
<1>4. CASE op.what = "close"
  <2>1. fd' = "closed"
    BY <1>4 DEF Complete, ReadDone, ChunkDone, ChunkLost, WriteDone, CloseDone, Exact
  <2> QED
    BY <1>2, <1>3, <2>1 DEF WillClose
<1>5. CASE op.what = "write"
  <2>1. /\ closePending' = closePending
        /\ \A o \in flying : o.what = "close" => o \in flying'
        /\ \/ pendingWrites' = 0 /\ closePending = 1 /\ fd' = "closing" /\ Plain("close") \in flying'
           \/ ~(pendingWrites' = 0 /\ closePending = 1) /\ fd' = fd
    BY <1>5 DEF Complete, ReadDone, ChunkDone, ChunkLost, WriteDone, CloseDone, Exact
  <2> QED
    BY <1>1, <1>2, <1>3, <2>1, PlainPosted DEF WillClose, Index
<1>6. CASE op.what \in {"read", "chunk"}
  <2>1. /\ UNCHANGED <<closePending, pendingWrites, fd>>
        /\ \A o \in flying : o.what = "close" => o \in flying'
    BY <1>6 DEF Complete, ReadDone, ChunkDone, ChunkLost, WriteDone, CloseDone, Exact, ReadCacheChunk, closing, system
  <2> QED
    BY <1>1, <1>2, <1>3, <2>1 DEF WillClose, Index
<1> QED
  BY <1>4, <1>5, <1>6 DEF Complete, ReadDone, ChunkDone, ChunkLost, WriteDone, CloseDone, Exact

LEMMA EndNext == ASSUME IInv, HandleInv, EndInv, [Next]_vars, Exact PROVE EndInv'
<1> USE DEF EndInv
<1>1. CASE Owner
  BY <1>1, OwnerEnd
<1>2. CASE Serve
  BY <1>2, ServeEnd
<1>3. CASE \E op \in flying : Complete(op)
  BY <1>3, CompleteEnd
<1>4. CASE (\E n \in Chunks : XferInfo(n)) \/ CurlWrite \/ DownloadDone \/ Finish \/ LoopEnds \/ FallSilent
         \/ UNCHANGED vars
  <2>1. /\ UNCHANGED <<main, requests, handle, fd, closing>>
        /\ \/ uv' = uv /\ flying' = flying
           \/ /\ uv' \in {"loop", "finishing"} /\ uv # "ended"
              /\ flying' \in {flying, flying \ {Plain("download")}}
           \/ uv = "leaving" /\ uv' = "ended" /\ requests = << >> /\ flying = {} /\ flying' = flying
    BY <1>4 DEF XferInfo, CurlWrite, DownloadDone, Downloading, Finish, LoopEnds, FallSilent, vars, owner, system
  <2>2. \A o \in flying : o.what = "close" => o \in flying'
    BY <2>1, PlainPosted
  <2>3. Leaves'
    BY <2>1 DEF Leaves, Index
  <2>4. WillClose'
    BY <2>1, <2>2 DEF WillClose, Index, Gone, closing
  <2> QED
    BY <2>3, <2>4
<1> QED
  BY <1>1, <1>2, <1>3, <1>4 DEF Next, Thread

LEMMA EndInit == Init => EndInv
<1> SUFFICES ASSUME Init PROVE EndInv
  OBVIOUS
<1>1. /\ main = "idle" /\ uv = "loop" /\ fd = (IF handle = 1 THEN "open" ELSE "none")
      /\ \A i \in Index : requests[i].what = "download"
  BY PlainPosted DEF Init, Index
<1> QED
  BY <1>1 DEF EndInv, Leaves, WillClose, Gone

SafeEnd == early = 0 => EndInv

LEMMA SafeEndNext == Safe /\ SafeEnd /\ [Next]_vars => SafeEnd'
<1> SUFFICES ASSUME Safe, SafeEnd, [Next]_vars, early' = 0 PROVE EndInv'
  BY DEF SafeEnd
<1>1. IInv /\ HandleInv /\ EndInv
  BY EarlyStays DEF Safe, SafeEnd
<1> QED
  BY <1>1, NothingLost, EndNext

(* When the program is over, the file is closed and holds what was written *)
(* last (see Durable), for files of every size and any number of writes,   *)
(* where the progress was not rounded to 1 under the last chunk (the runs  *)
(* check it there as well).                                                *)
THEOREM KeptWhenOver == Spec => [](early = 0 => Durable)
<1>1. Init => Safe /\ SafeContent /\ SafeEnd
  BY SafeInit, ContentInit, EndInit DEF SafeContent, SafeEnd
<1>2. Safe /\ SafeContent /\ SafeEnd /\ [Next]_vars => (Safe /\ SafeContent /\ SafeEnd)'
  BY SafeNext, SafeContentNext, SafeEndNext
<1>3. IInv /\ HandleInv /\ ContentInv /\ EndInv => Durable
  <2> SUFFICES ASSUME IInv, HandleInv, ContentInv, EndInv, main = "ended"
               PROVE  /\ fd \in {"none", "closed"}
                      /\ \A c \in Chunks : disk[c] = last[c] \/ Op("write", c, 0) \in racy
    BY DEF Durable
  <2>1. requests = << >> /\ flying = {} /\ handle = 0 /\ Index = {} /\ pendingWrites = 0
    <3>1. requests = << >> /\ flying = {} /\ handle = 0
      BY DEF EndInv, Leaves, WillClose, Gone
    <3>2. InFlight = {}
      BY <3>1 DEF InFlight
    <3> QED
      BY <3>1, <3>2, FS_EmptySet DEF HandleInv, Counted, Index
  <2>2. fd \in {"none", "closed"}
    BY <2>1 DEF IInv, StateOK, EndInv, WillClose
  <2>3. \A c \in Chunks : disk[c] = last[c] \/ Op("write", c, 0) \in racy
    BY <2>1 DEF ContentInv, Latest, Awaits, Flies, Landed, Racy
  <2> QED
    BY <2>2, <2>3
<1>4. Safe /\ SafeContent /\ SafeEnd => (early = 0 => Durable)
  BY <1>3 DEF Safe, SafeContent, SafeEnd
<1> QED
  BY <1>1, <1>2, <1>4, PTL DEF Spec

-----------------------------------------------------------------------------
(* Nobody waits in vain. *)

\* What fills a cache, or did, keeps the promise; the rest of what is waited for was posted.
Fillers == {"cache", "chunk", "download"}
WaitInv ==
    /\ (kind = "download" \/ cached = 1) /\ ~Gone => barrier = 1 \/ uv = "finishing" \/ Comes(Fillers)
    /\ main = "closing" => (kind = "download" /\ cancelled = 1) \/ (kind # "download" /\ cached = 1)
    /\ main = "read" => Comes({"read"})
    /\ main = "stopping" => Comes({"barrier"})
    /\ main = "joining" => uv \in {"leaving", "ended"} \/ Comes({"unref"})

Work == Queued \cup flying

LEMMA QueuedAt == OpsOK => Queued = {requests[i] : i \in Index}
BY DEF OpsOK, Queued, Index

\* What is posted is work, and what was stays it ...
LEMMA PostAdds ==
    ASSUME OpsOK, NEW op \in Posted, requests' = requests \/ requests' = requests \o <<op>>, flying' = flying
    PROVE  Work \subseteq Work' /\ (requests' = requests \o <<op>> => op \in Work')
<1>1. CASE requests' = requests /\ requests' # requests \o <<op>>
  BY <1>1 DEF Work, Queued
<1>2. CASE requests' = requests \o <<op>>
  <2>1. /\ requests' \in Seq(Posted) /\ Len(requests) \in Nat /\ Len(requests') = Len(requests) + 1
        /\ requests'[Len(requests) + 1] = op
        /\ \A i \in 1 .. Len(requests) : requests'[i] = requests[i]
    BY <1>2, Appended DEF OpsOK
  <2>2. DOMAIN requests = Index /\ DOMAIN requests' = Index'
    BY <2>1 DEF OpsOK, Index
  <2>3. Index \subseteq Index' /\ Len(requests) + 1 \in Index'
    BY <2>1 DEF Index
  <2> QED
    BY <2>1, <2>2, <2>3 DEF Work, Queued, Index
<1> QED
  BY <1>1, <1>2

\* ... but for what the thread serves.
LEMMA ServeTakes ==
    ASSUME OpsOK, requests # << >>, requests' = Without(1), flying \subseteq flying', OpsOK'
    PROVE  Work \subseteq Work' \cup {requests[1]}
<1>1. \A i \in Index : i = 1 \/ (i - 1 \in Index' /\ requests'[i - 1] = requests[i])
  BY ServeShape
<1>2. Queued = {requests[i] : i \in Index} /\ Queued' = {requests'[i] : i \in Index'}
  BY QueuedAt DEF OpsOK, Queued, Index
<1> QED
  BY <1>1, <1>2 DEF Work

LEMMA WaitInit == Init => WaitInv
<1> SUFFICES ASSUME Init PROVE WaitInv
  OBVIOUS
<1>1. kind = "download" => Comes(Fillers)
  <2> SUFFICES ASSUME kind = "download" PROVE Comes(Fillers)
    OBVIOUS
  <2>1. requests = <<Plain("download")>>
    BY DEF Init
  <2>2. 1 \in DOMAIN requests /\ requests[1] = Plain("download")
    BY <2>1
  <2> QED
    BY <2>2, PlainPosted DEF Comes, Queued, Fillers
<1> QED
  BY <1>1 DEF Init, WaitInv

LEMMA OwnerWaits == ASSUME IInv, WaitInv, Owner PROVE WaitInv'
<1> USE DEF IInv
<1>0. /\ \A w \in {"cache", "cancel", "close", "closeNow", "barrier", "unref"} :
             Plain(w) \in Posted /\ Plain(w).what = w
      /\ UNCHANGED <<uv, flying, barrier>>
  BY PlainPosted DEF Owner, StartCaching, Read, Write, Downloaded, Close, FinishClose, Stop, Unref, Join, caching
<1>1. CASE StartCaching
  <2>1. main = "idle" /\ UNCHANGED <<main, kind>> /\ kind # "download"
    BY <1>1 DEF StartCaching
  <2>2. CASE failed = 1
    <3>1. requests' = requests /\ cached' = 0
      BY <1>1, <2>2, PostsNothing DEF StartCaching
    <3> QED
      BY <1>0, <2>1, <3>1 DEF WaitInv, Gone, Comes, Queued
  <2>3. CASE failed = 0
    <3>1. requests' = requests \o <<Plain("cache")>>
      BY <1>1, <2>3 DEF StartCaching, Post
    <3>2. Plain("cache") \in Work' /\ Plain("cache").what = "cache"
      BY <1>0, <3>1, PostAdds
    <3>3. Comes(Fillers)'
      BY <3>2 DEF Work, Comes, Fillers
    <3> QED
      BY <2>1, <3>3 DEF WaitInv
  <2> QED
    BY <2>2, <2>3 DEF StateOK
<1>2. ASSUME NEW c \in Chunks, Read(c) PROVE WaitInv'
  <2>1. main = "idle" /\ UNCHANGED <<kind, cached>>
    BY <1>2 DEF Read
  <2>2. CASE ReadCache(c) \/ AwaitDownload(c)
    <3>1. requests' = requests \/ requests' = requests \o <<Plain("closeNow")>>
      BY <2>2, PostsNothing DEF ReadCache, AwaitDownload, Post
    <3>2. Work \subseteq Work'
      BY <1>0, <3>1, PostAdds
    <3>3. main' \in {"idle", "await"}
      BY <2>1, <2>2 DEF ReadCache, AwaitDownload
    <3> QED
      BY <1>0, <2>1, <3>2, <3>3 DEF WaitInv, Gone, Comes, Work
  <2>3. CASE ReadFile(c)
    <3> DEFINE op == Op("read", c, 0)
    <3>1. op \in Posted /\ op.what = "read"
      BY OpPosted, FileAssumption DEF Versions
    <3>2. requests' = requests \o <<op>> /\ main' = "read"
      BY <2>3 DEF ReadFile, Post
    <3> HIDE DEF op
    <3>3. Work \subseteq Work' /\ op \in Work'
      BY <1>0, <3>1, <3>2, PostAdds
    <3> QED
      BY <1>0, <2>1, <3>1, <3>2, <3>3 DEF WaitInv, Gone, Comes, Work
  <2> QED
    BY <1>2, <2>2, <2>3 DEF Read
<1>3. ASSUME NEW c \in Chunks, Write(c) PROVE WaitInv'
  <2> DEFINE op == Op("write", c, written')
  <2>1. /\ requests' = requests \o <<op>> /\ main = "idle" /\ UNCHANGED <<main, kind, cached>>
        /\ written' \in Versions
    BY <1>3, FileAssumption DEF Write, Post, Versions, StateOK
  <2>2. op \in Posted
    BY <2>1, OpPosted
  <2> HIDE DEF op
  <2>3. Work \subseteq Work'
    BY <1>0, <2>1, <2>2, PostAdds
  <2> QED
    BY <1>0, <2>1, <2>3 DEF WaitInv, Gone, Comes, Work
<1>4. CASE Downloaded
  <2>1. main = "await" /\ main' = "idle" /\ UNCHANGED <<kind, cached, requests>>
    BY <1>4 DEF Downloaded
  <2> QED
    BY <1>0, <2>1 DEF WaitInv, Gone, Comes, Queued
<1>5. CASE Close
  <2>1. /\ main = "idle" /\ UNCHANGED <<kind, cached>>
        /\ \/ Unfinished /\ main' = "closing" /\ (kind = "download" => cancelled' = 1)
           \/ main' = "close"
        /\ requests' = requests \/ requests' = requests \o <<Plain("cancel")>>
    BY <1>5, PostsNothing DEF Close, Post
  <2>2. Work \subseteq Work'
    BY <1>0, <2>1, PostAdds
  <2>3. main' = "closing" => (kind = "download" /\ cancelled' = 1) \/ (kind # "download" /\ cached = 1)
    BY <2>1 DEF Unfinished
  <2> QED
    BY <1>0, <2>1, <2>2, <2>3 DEF WaitInv, Gone, Comes, Work
<1>6. CASE FinishClose
  BY <1>6 DEF FinishClose, WaitInv, Gone
<1>7. CASE Stop \/ Unref
  <2>1. \/ main' = "stopping" /\ requests' = requests \o <<Plain("barrier")>>
        \/ main' = "joining" /\ requests' = requests \o <<Plain("unref")>>
    BY <1>7 DEF Stop, Unref, Post
  <2>2. \/ main' = "stopping" /\ Plain("barrier") \in Work'
        \/ main' = "joining" /\ Plain("unref") \in Work'
    BY <1>0, <2>1, PostAdds
  <2> QED
    BY <1>0, <2>2 DEF WaitInv, Gone, Comes, Work
<1>8. CASE Join
  BY <1>8 DEF Join, WaitInv, Gone
<1> QED
  BY <1>1, <1>2, <1>3, <1>4, <1>5, <1>6, <1>7, <1>8 DEF Owner

LEMMA ServeWaits == ASSUME IInv, OpsOK', WaitInv, Serve PROVE WaitInv'
<1> USE DEF IInv
<1> DEFINE op == requests[1]
<1>1. /\ requests # << >> /\ requests' = Without(1) /\ Run(op) /\ op \in Posted
      /\ uv \in {"loop", "leaving"} /\ UNCHANGED <<kind, cached, cancelled>>
  BY ServesFirst
<1>2. Allowed(op)
  BY <1>1, ServeShape DEF AllAllowed, Index
<1>3. /\ flying \subseteq flying' /\ barrier' = barrier
      /\ main' = main \/ (op.what = "barrier" /\ Gone /\ main' = "stopped")
      /\ uv' = uv \/ (op.what = "unref" /\ uv' = "leaving") \/ (op.what = "cache" /\ ~Gone /\ uv' = "finishing")
  BY <1>1, <1>2 DEF Run, Submit, ReadCacheChunk, CloseHandle, caching, Allowed
<1>4. Work \subseteq Work' \cup {op}
  BY <1>1, <1>3, ServeTakes
<1>5. op.what = "read" => Comes({"read"})'
  BY <1>1 DEF Run, Submit, Comes
<1>6. op.what \in Fillers => uv' = "finishing" \/ Comes(Fillers)'
  <2>1. CASE op.what = "cache"
    BY <1>1, <2>1 DEF Run, ReadCacheChunk, Comes, Fillers, Op
  <2>2. CASE op.what = "download"
    BY <1>1, <2>2, PlainPosted DEF Run, Comes, Fillers
  <2>3. op.what # "chunk"
    BY <1>1 DEF Run
  <2> QED
    BY <2>1, <2>2, <2>3 DEF Fillers
<1> HIDE DEF op
<1>7. \A what : Comes(what) => Comes(what)' \/ op.what \in what
  BY <1>4 DEF Comes, Work
<1>8. op.what = "barrier" => main' = "stopped"
  BY <1>1 DEF Run
<1>9. op.what = "unref" => uv' = "leaving"
  BY <1>1 DEF Run
<1>10. (kind' = "download" \/ cached' = 1) /\ ~Gone' => barrier' = 1 \/ uv' = "finishing" \/ Comes(Fillers)'
  BY <1>1, <1>3, <1>6, <1>7 DEF WaitInv, Gone
<1>11. main' = "read" => Comes({"read"})'
  BY <1>3, <1>5, <1>7 DEF WaitInv
<1>12. main' = "stopping" => Comes({"barrier"})'
  BY <1>3, <1>7, <1>8 DEF WaitInv
<1>13. main' = "joining" => uv' \in {"leaving", "ended"} \/ Comes({"unref"})'
  BY <1>3, <1>7, <1>9 DEF WaitInv, Gone
<1> QED
  BY <1>1, <1>3, <1>10, <1>11, <1>12, <1>13 DEF WaitInv

LEMMA CompleteWaits == ASSUME IInv, WaitInv, NEW op \in flying, Complete(op), Exact PROVE WaitInv'
<1> USE DEF IInv
<1>1. /\ UNCHANGED <<requests, kind, cached, cancelled, barrier>> /\ uv \in {"loop", "leaving"} /\ Allowed(op)
      /\ main' = main \/ (op.what = "read" /\ main' = "idle")
      /\ uv' = uv \/ (op.what = "chunk" /\ uv' = "finishing")
      /\ flying \subseteq flying' \cup {op}
  BY DEF Complete, ReadDone, ChunkDone, ChunkLost, WriteDone, CloseDone, Exact, ReadCacheChunk, AllAllowed, caching
<1>2. \A what : Comes(what) => Comes(what)' \/ op.what \in what
  BY <1>1 DEF Comes, Queued
<1>3. op.what = "chunk" => uv' = "finishing" \/ Comes(Fillers)'
  BY DEF Complete, ReadDone, ChunkDone, ChunkLost, WriteDone, CloseDone, Exact, ReadCacheChunk, Comes, Fillers, Op
<1>4. op.what \notin {"cache", "download", "barrier", "unref"}
  BY DEF Complete, ReadDone, ChunkDone, ChunkLost, WriteDone, CloseDone, Exact
<1>5. op.what = "read" => main' = "idle" /\ main = "read"
  BY <1>1 DEF Complete, ReadDone, ChunkDone, ChunkLost, WriteDone, CloseDone, Exact, Allowed
<1>6. op.what = "chunk" => ~Gone
  BY <1>1 DEF Allowed
<1>7. (kind' = "download" \/ cached' = 1) /\ ~Gone' => barrier' = 1 \/ uv' = "finishing" \/ Comes(Fillers)'
  BY <1>1, <1>2, <1>3, <1>4, <1>5 DEF WaitInv, Gone, Fillers
<1>8. main' = "read" => Comes({"read"})'
  BY <1>1, <1>2, <1>5 DEF WaitInv
<1>9. main' = "stopping" => Comes({"barrier"})'
  BY <1>1, <1>2, <1>4 DEF WaitInv
<1>10. main' = "joining" => uv' \in {"leaving", "ended"} \/ Comes({"unref"})'
  BY <1>1, <1>2, <1>4, <1>6 DEF WaitInv, Gone
<1> QED
  BY <1>1, <1>7, <1>8, <1>9, <1>10 DEF WaitInv

LEMMA WaitNext == ASSUME IInv, OpsOK', WaitInv, [Next]_vars, Exact PROVE WaitInv'
<1>1. CASE Owner
  BY <1>1, OwnerWaits
<1>2. CASE Serve
  BY <1>2, ServeWaits
<1>3. CASE \E op \in flying : Complete(op)
  BY <1>3, CompleteWaits
<1>4. CASE Finish
  BY <1>4 DEF Finish, WaitInv, owner, Comes, Queued, Gone
<1>5. CASE DownloadDone
  <2>1. /\ UNCHANGED <<requests, kind, cached, cancelled, barrier, main>> /\ uv' = "finishing"
        /\ flying' = flying \ {Plain("download")}
    BY <1>5 DEF DownloadDone, owner
  <2>2. ~Gone /\ main # "joining"
    BY <1>5, PlainPosted DEF DownloadDone, Downloading, IInv, AllAllowed, Allowed, Gone
  <2>3. Plain("download").what = "download"
    BY PlainPosted
  <2>4. \A o \in flying : o.what # "download" => o \in flying'
    BY <2>1, <2>3
  <2>5. Comes({"read"}) => Comes({"read"})'
    BY <2>1, <2>4 DEF Comes, Queued
  <2>6. Comes({"barrier"}) => Comes({"barrier"})'
    BY <2>1, <2>4 DEF Comes, Queued
  <2> QED
    BY <2>1, <2>2, <2>5, <2>6 DEF WaitInv
<1>6. CASE LoopEnds
  <2>1. UNCHANGED <<requests, flying, kind, cached, cancelled, barrier, main>> /\ uv = "leaving" /\ uv' = "ended"
    BY <1>6 DEF LoopEnds, owner, caching
  <2> QED
    BY <2>1 DEF WaitInv, Comes, Queued, Gone
<1>7. CASE CurlWrite \/ \E n \in Chunks : XferInfo(n)
  <2>1. /\ UNCHANGED <<requests, flying, kind, cancelled, barrier, main, uv>>
        /\ Downloading
    BY <1>7 DEF CurlWrite, XferInfo
  <2>2. kind = "download"
    BY <2>1, PlainPosted DEF Downloading, IInv, AllAllowed, Allowed
  <2> QED
    BY <2>1, <2>2 DEF WaitInv, Comes, Queued, Gone
<1>8. CASE FallSilent \/ UNCHANGED vars
  BY <1>8 DEF FallSilent, vars, owner, caching, WaitInv, Comes, Queued, Gone
<1> QED
  BY <1>1, <1>2, <1>3, <1>4, <1>5, <1>6, <1>7, <1>8 DEF Next, Thread

SafeWait == early = 0 => WaitInv

(* Nobody waits in vain: the owner takes the cache's future at most once,   *)
(* and whatever it waits for, a read, a cache that is filled, a download    *)
(* that is given up, the thread's notice or its end, is queued or under way *)
(* (uvfile.cc:212, 438 and stopThread), where the progress was not rounded  *)
(* to 1 under the last chunk (the runs check it there as well).             *)
THEOREM NobodyWaitsInVain == Spec => [](early = 0 => WaitsRight)
<1>1. Init => Safe /\ SafeWait
  BY SafeInit, WaitInit DEF SafeWait
<1>2. Safe /\ SafeWait /\ [Next]_vars => (Safe /\ SafeWait)'
  <2> SUFFICES ASSUME Safe, SafeWait, [Next]_vars, early' = 0 PROVE WaitInv'
    BY SafeNext DEF SafeWait
  <2>1. IInv /\ HandleInv /\ WaitInv
    BY EarlyStays DEF Safe, SafeWait
  <2>2. Exact
    BY <2>1, NothingLost
  <2>3. OpsOK'
    BY <2>1, <2>2, IInvNext DEF IInv
  <2> QED
    BY <2>1, <2>2, <2>3, WaitNext
<1>3. IInv /\ WaitInv => WaitsRight
  <2> SUFFICES ASSUME IInv, WaitInv PROVE WaitsRight
    OBVIOUS
  <2>1. taken <= 1
    BY DEF IInv, PromiseKept
  <2>2. main \in {"await", "closing"} \/ (main = "idle" /\ ~MayWrite) =>
            (kind = "download" \/ cached = 1) /\ ~Gone
    BY DEF IInv, PromiseKept, WaitInv, MayWrite, Gone
  <2>3. main \in {"await", "closing"} \/ (main = "idle" /\ ~MayWrite) =>
            barrier = 1 \/ uv = "finishing" \/ Comes({"cache", "chunk", "download"})
    BY <2>2 DEF WaitInv, Fillers
  <2> QED
    BY <2>1, <2>3 DEF WaitInv, WaitsRight
<1>4. Safe /\ SafeWait => (early = 0 => WaitsRight)
  BY <1>3 DEF Safe, SafeWait
<1> QED
  BY <1>1, <1>2, <1>4, PTL DEF Spec
=============================================================================
