----------------------------- MODULE MediaCache -----------------------------
(***************************************************************************)
(* The on-disk photo cache (internal/bridge/mediacache.go) under the       *)
(* requests that use it: GET /v1/media/{id} (internal/httpapi/chats.go)    *)
(* calls FetchMedia (internal/bridge/media.go), which looks the id up,     *)
(* downloads on a miss, and returns a path that the handler then serves.   *)
(*                                                                         *)
(* Only the index is under the cache's mutex.  Files are opened, written,  *)
(* renamed and served outside of it, under names that depend on the id     *)
(* alone, so requests for one id meet in the file system.                  *)
(*                                                                         *)
(* A media id stands for its cache key, and ids are numbered in the order  *)
(* of their file names.  A file is the set of the chunks written to it;    *)
(* chunk i of a photo is the i-th block of its download, and a file whose  *)
(* last chunk is i is i blocks long, holes included.                       *)
(***************************************************************************)
EXTENDS Integers, Sequences, FiniteSets, SequencesExt

CONSTANTS Threads,    \* requests that are served at the same time
          Keys,       \* media ids
          Photo,      \* number of chunks of each photo
          MAX_BYTES,  \* media.max_bytes, in chunks
          NoFile      \* what a name without a file refers to

\* The chunks of photo k.
Whole(k) == 1..Photo[k]

ASSUME MediaAssumption ==
    /\ Keys \subseteq Nat /\ IsFiniteSet(Keys) /\ Keys # {}
    /\ Photo \in [Keys -> Nat \ {0}]
    /\ MAX_BYTES \in Nat
    /\ \A k \in Keys : \A f \in SUBSET Whole(k) : f # NoFile

VARIABLES
    entries,  \* keys of mediaCache.entries
    lru,      \* mediaCache.lru, most recently used first
    size,     \* mcEntry.size of the entries, 0 elsewhere
    total,    \* mediaCache.total
    tmp,      \* the file named <key>.jpg.tmp, or NoFile
    final,    \* the file named <key>.jpg, or NoFile
    pc,       \* control state of a request
    id,       \* the media id it asks for
    fd,       \* the file its Put writes to: "tmp", "final", or "gone" (no name left)
    off,      \* chunks its download has written
    stat,     \* info.Size() of its Put
    resp,     \* history: what its last response carried
    raced     \* history: ids whose entry or file two requests may have had a part in:
              \* another Put of the id overlapped, or its eviction came between a
              \* Put's rename and installation, and it was not put afresh since

indexVars  == <<entries, lru, size, total>>
fileVars   == <<tmp, final>>
threadVars == <<pc, id, fd, off, stat, resp>>
vars       == <<indexVars, fileVars, threadVars, raced>>

Length(f) == IF f = {} THEN 0 ELSE Max(f)
Sizes(sz, K) == MapThenSumSet(LAMBDA k : sz[k], K)
KeysOf(s) == {s[i] : i \in 1..Len(s)}

\* Requests whose Put of k has opened its file and has not installed it.
Putting(k) == {t \in Threads : id[t] = k /\ pc[t] \in {"write", "rename", "install"}}

\* Those of them that have renamed it.
Renamed(k) == {t \in Threads : id[t] = k /\ pc[t] = "install"}

-----------------------------------------------------------------------------
Init ==
    /\ entries = {} /\ lru = <<>> /\ total = 0
    /\ size = [k \in Keys |-> 0]
    /\ tmp = [k \in Keys |-> NoFile]
    /\ final = [k \in Keys |-> NoFile]
    /\ pc = [t \in Threads |-> "idle"]
    /\ id = [t \in Threads |-> CHOOSE k \in Keys : TRUE]
    /\ fd = [t \in Threads |-> "gone"]
    /\ off = [t \in Threads |-> 0]
    /\ stat = [t \in Threads |-> 0]
    /\ resp = [t \in Threads |-> "none"]
    /\ raced = {}

-----------------------------------------------------------------------------
(* Eviction *)

\* A loop that spares one entry too many.
KeptOneMore(s, sum, sz, min) ==
    LET left(n) == sum - Sizes(sz, {s[i] : i \in n + 1..Len(s)})
    IN  Max({n \in 0..Len(s) : n <= min + 1 \/ left(n) <= MAX_BYTES})

\* How many entries of s the loop `for total > maxBytes && Len > min` keeps:
\* it removes the last one (evictLocked) until either condition fails.
Kept(s, sum, sz, min) ==
    LET left(n) == sum - Sizes(sz, {s[i] : i \in n + 1..Len(s)})
    IN  Max({n \in 0..Len(s) : n <= min \/ left(n) <= MAX_BYTES})

\* The index becomes s with sizes sz, which sum to sum as far as the code knows,
\* less what the loop evicts; the files of the evicted keys are removed, also one
\* that a Put of such a key has renamed and is about to install.
EvictTo(s, sum, sz, min) ==
    LET n    == Kept(s, sum, sz, min)
        gone == {s[i] : i \in n + 1..Len(s)}
    IN  /\ lru' = SubSeq(s, 1, n)
        /\ entries' = (entries \cup KeysOf(s)) \ gone
        /\ total' = sum - Sizes(sz, gone)
        /\ size' = [k \in Keys |-> IF k \in gone THEN 0 ELSE sz[k]]
        /\ final' = [k \in Keys |-> IF k \in gone THEN NoFile ELSE final[k]]
        /\ fd' = [t \in Threads |->
                     IF id[t] \in gone /\ fd[t] = "final" THEN "gone" ELSE fd[t]]
        /\ raced' = raced \cup {k \in gone : Renamed(k) # {}}

-----------------------------------------------------------------------------
(* FetchMedia: the lookup *)

\* A list that keeps the old element of a key.
WithOld(s, k) == s

\* The list once the element of k is taken out.
Without(s, k) ==
    IF k \in KeysOf(s) THEN RemoveAt(s, CHOOSE i \in 1..Len(s) : s[i] = k) ELSE s

\* Get, under the lock: a hit moves the entry to the front and yields its path,
\* a miss goes on to the download.
Get(t, k) ==
    /\ pc[t] = "idle"
    /\ id' = [id EXCEPT ![t] = k]
    /\ resp' = [resp EXCEPT ![t] = "none"]
    /\ IF k \in entries
       THEN lru' = <<k>> \o Without(lru, k) /\ pc' = [pc EXCEPT ![t] = "serve"]
       ELSE UNCHANGED lru /\ pc' = [pc EXCEPT ![t] = "open"]
    /\ UNCHANGED <<entries, size, total, fileVars, fd, off, stat, raced>>

\* A bad signature, a ctx that ends in waitReady, an unknown kind, or OpenFile
\* fails: the request ends with nothing done.
Refuse(t) ==
    /\ pc[t] = "open"
    /\ pc' = [pc EXCEPT ![t] = "idle"]
    /\ UNCHANGED <<indexVars, fileVars, id, fd, off, stat, resp, raced>>

-----------------------------------------------------------------------------
(* Put *)

\* OpenFile with O_CREATE|O_TRUNC: a file of that name is emptied, whoever is
\* writing to it.  The first Put of an id that is neither cached nor put shares
\* nothing with an earlier one.
Open(t) ==
    /\ pc[t] = "open"
    /\ tmp' = [tmp EXCEPT ![id[t]] = {}]
    /\ fd' = [fd EXCEPT ![t] = "tmp"]
    /\ off' = [off EXCEPT ![t] = 0]
    /\ pc' = [pc EXCEPT ![t] = "write"]
    /\ raced' = IF Putting(id[t]) # {} THEN raced \cup {id[t]}
                ELSE IF id[t] \in entries THEN raced ELSE raced \ {id[t]}
    /\ UNCHANGED <<indexVars, final, id, stat, resp>>

\* fn writes the next chunk at its own offset, wherever the file is by now.
Write(t) ==
    LET k == id[t]
    IN  /\ pc[t] = "write" /\ off[t] < Photo[k]
        /\ off' = [off EXCEPT ![t] = @ + 1]
        /\ tmp' = IF fd[t] = "tmp" THEN [tmp EXCEPT ![k] = @ \cup {off[t] + 1}] ELSE tmp
        /\ final' = IF fd[t] = "final" THEN [final EXCEPT ![k] = @ \cup {off[t] + 1}] ELSE final
        /\ UNCHANGED <<indexVars, pc, id, fd, stat, resp, raced>>

\* The locals of a Put that has returned.
Forget(t) == off' = [off EXCEPT ![t] = 0] /\ stat' = [stat EXCEPT ![t] = 0]

\* A Put that leaves its temporary file behind when it fails.
AbortKeepTmp(t) ==
    /\ pc[t] \in {"write", "rename"}
    /\ pc' = [pc EXCEPT ![t] = "idle"]
    /\ Forget(t)
    /\ fd' = [fd EXCEPT ![t] = "gone"]
    /\ UNCHANGED <<indexVars, fileVars, id, resp, raced>>

\* The download, Close, Stat or Rename fails: remove whatever has the temporary
\* name now, and return the error.
Abort(t) ==
    /\ pc[t] \in {"write", "rename"}
    /\ tmp' = [tmp EXCEPT ![id[t]] = NoFile]
    /\ fd' = [u \in Threads |->
                 IF u = t \/ (id[u] = id[t] /\ fd[u] = "tmp") THEN "gone" ELSE fd[u]]
    /\ pc' = [pc EXCEPT ![t] = "idle"]
    /\ Forget(t)
    /\ UNCHANGED <<indexVars, final, id, resp, raced>>

\* A Put that takes a broken download for a finished one.
StatUnfinished(t) ==
    /\ pc[t] = "write" /\ tmp[id[t]] # NoFile
    /\ stat' = [stat EXCEPT ![t] = Length(tmp[id[t]])]
    /\ fd' = [fd EXCEPT ![t] = "gone"]
    /\ pc' = [pc EXCEPT ![t] = "rename"]
    /\ UNCHANGED <<indexVars, fileVars, id, off, resp, raced>>

\* fn returned nil; Close, and Stat of the temporary name.
Stat(t) ==
    /\ pc[t] = "write" /\ off[t] = Photo[id[t]] /\ tmp[id[t]] # NoFile
    /\ stat' = [stat EXCEPT ![t] = Length(tmp[id[t]])]
    /\ fd' = [fd EXCEPT ![t] = "gone"]
    /\ pc' = [pc EXCEPT ![t] = "rename"]
    /\ UNCHANGED <<indexVars, fileVars, id, off, resp, raced>>

\* Rename; a writer of the renamed file follows it to its new name.
Rename(t) ==
    LET k == id[t]
        moved(u) == IF id[u] # k THEN fd[u]
                    ELSE IF fd[u] = "tmp" THEN "final" ELSE "gone"
    IN  /\ pc[t] = "rename" /\ tmp[k] # NoFile
        /\ final' = [final EXCEPT ![k] = tmp[k]]
        /\ tmp' = [tmp EXCEPT ![k] = NoFile]
        /\ fd' = [u \in Threads |-> moved(u)]
        /\ pc' = [pc EXCEPT ![t] = "install"]
        /\ UNCHANGED <<indexVars, id, off, stat, resp, raced>>

\* A Put that forgets the size of the entry it replaces.
TotalWithReplaced(k) == total

\* A Put that takes the new size for that of the entry it replaces.
TotalLessNew(k) == total - Photo[k]

\* The total once an older entry of k is taken out.
TotalWithout(k) == total - size[k]

\* The critical section of Put: replace or add the entry, evict from the back as
\* long as another entry is left.
Install(t) ==
    LET k == id[t]
    IN  /\ pc[t] = "install"
        /\ EvictTo(<<k>> \o Without(lru, k), TotalWithout(k) + stat[t],
                   [size EXCEPT ![k] = stat[t]], 1)
        /\ pc' = [pc EXCEPT ![t] = "serve"]
        /\ Forget(t)
        /\ UNCHANGED <<tmp, id, resp>>

-----------------------------------------------------------------------------
\* http.ServeFile opens the path FetchMedia returned, if it still exists.
Serve(t) ==
    LET f == final[id[t]]
    IN  /\ pc[t] = "serve"
        /\ resp' = [resp EXCEPT ![t] = IF f = NoFile THEN "missing"
                                       ELSE IF f = Whole(id[t]) THEN "whole" ELSE "torn"]
        /\ pc' = [pc EXCEPT ![t] = "idle"]
        /\ UNCHANGED <<indexVars, fileVars, id, fd, off, stat, raced>>

\* The keys of K, the last file name first.
Downto(K) == [i \in 1..Cardinality(K) |->
                 CHOOSE k \in K : Cardinality({j \in K : j >= k}) = i]

(***************************************************************************)
(* The process ends, however, and starts again.  newMediaCache removes     *)
(* temporary files and loads the others in the order of their names, each  *)
(* to the front, then evicts, to the last entry if it has to.              *)
(***************************************************************************)
Restart ==
    LET files == {k \in Keys : final[k] # NoFile}
        sz    == [k \in Keys |-> IF k \in files THEN Length(final[k]) ELSE 0]
        s     == Downto(files)
        n     == Kept(s, Sizes(sz, files), sz, 0)
        kept  == {s[i] : i \in 1..n}
    IN  /\ lru' = SubSeq(s, 1, n)
        /\ entries' = kept
        /\ total' = Sizes(sz, kept)
        /\ size' = [k \in Keys |-> IF k \in kept THEN sz[k] ELSE 0]
        /\ final' = [k \in Keys |-> IF k \in kept THEN final[k] ELSE NoFile]
        /\ tmp' = [k \in Keys |-> NoFile]
        /\ pc' = [t \in Threads |-> "idle"]
        /\ fd' = [t \in Threads |-> "gone"]
        /\ off' = [t \in Threads |-> 0]
        /\ stat' = [t \in Threads |-> 0]
        /\ resp' = [t \in Threads |-> "none"]
        /\ UNCHANGED <<id, raced>>

-----------------------------------------------------------------------------
Next ==
    \/ \E t \in Threads, k \in Keys : Get(t, k)
    \/ \E t \in Threads :
          \/ Refuse(t) \/ Open(t) \/ Write(t) \/ Abort(t) \/ Stat(t) \/ Rename(t)
          \/ Install(t) \/ Serve(t)
    \/ Restart

Spec == Init /\ [][Next]_vars

-----------------------------------------------------------------------------
\* Types of the variables; sizes and the total never go negative.
TypeOK ==
    /\ entries \subseteq Keys
    /\ lru \in Seq(Keys)
    /\ size \in [Keys -> Nat]
    /\ total \in Nat
    /\ \A k \in Keys : tmp[k] = NoFile \/ tmp[k] \subseteq Whole(k)
    /\ \A k \in Keys : final[k] = NoFile \/ final[k] \subseteq Whole(k)
    /\ pc \in [Threads -> {"idle", "open", "write", "rename", "install", "serve"}]
    /\ id \in [Threads -> Keys]
    /\ fd \in [Threads -> {"tmp", "final", "gone"}]
    /\ off \in [Threads -> Nat]
    /\ stat \in [Threads -> Nat]
    /\ resp \in [Threads -> {"none", "whole", "missing", "torn"}]
    /\ raced \subseteq Keys

\* Two views the cache keeps of itself agree: the map and the list hold the same
\* keys, each once.
IndexCoherent ==
    /\ KeysOf(lru) = entries
    /\ Len(lru) = Cardinality(entries)

\* The third agrees too: the total that evictions go by is the sum of the sizes of
\* the entries, through every replacement, eviction and restart.
TotalIsSum == total = Sizes(size, entries)

\* What Put promises ("installs it atomically as the cache entry"), for an id that
\* no two Puts wrote at a time and no eviction hit between the rename and the
\* installation of one: its entry has a file that holds the whole photo, and its
\* recorded size is that of the file.  A failed download, a later Put of the cached
\* id and a crash between rename and installation do not change that.
EntryIsWhole ==
    \A k \in entries \ raced : final[k] = Whole(k) /\ size[k] = Photo[k]

\* The same for every id, as the comment has it: "Put writes via fn to a temp
\* file, then installs it atomically as the cache entry for mediaID".
PutIsAtomic ==
    \A k \in entries : final[k] = Whole(k)

\* No file is left behind that the index does not know and a restart would have
\* to find: a photo is an entry or about to become one, a temporary file belongs
\* to a Put that will rename or remove it.
NoStrayFile ==
    \A k \in Keys :
        /\ final[k] # NoFile => k \in entries \/ Renamed(k) # {}
        /\ tmp[k] # NoFile => \E t \in Putting(k) : pc[t] # "install"

\* The bytes on disk, of the ids that are not raced, fit in media.max_bytes, except
\* that a single photo may be larger than the limit and that a photo a Put has renamed
\* is only counted once it is installed.  Raced ids are left out because the code
\* does not bound them: see DiskWithinLimit.
DiskBounded ==
    LET kept == {k \in Keys \ raced : final[k] # NoFile /\ Renamed(k) = {}}
    IN  Sizes([k \in kept |-> Length(final[k])], kept) <= MAX_BYTES
        \/ Cardinality(entries) = 1

\* The same for every id, as src/README.md has it: "LRU on-disk media cache enforced
\* on media.max_bytes".  While no request runs, the files in the directory fit in
\* the limit, or there is one.
DiskWithinLimit ==
    LET files == {k \in Keys : final[k] # NoFile}
    IN  (\A t \in Threads : pc[t] = "idle") =>
            \/ Sizes([k \in files |-> Length(final[k])], files) <= MAX_BYTES
            \/ Cardinality(files) = 1

\* A response with status 200 carries the whole photo, whatever was evicted or put
\* again since FetchMedia returned its path, unless its id is raced.
ServedWhole ==
    [][\A t \in Threads : resp[t] # "torn" /\ resp'[t] = "torn" => id[t] \in raced]_vars

\* Put stops evicting as soon as it may: the last entry that it evicts, which is
\* the most recently used of them, would not fit beside those that stay.
EvictsOnlyWhenNeeded ==
    [][\A t \in Threads : pc[t] = "install" /\ pc'[t] = "serve" =>
          \A i \in 1..Len(lru) :
              (\A j \in 1..i : lru[j] \notin entries' <=> j = i)
              => Sizes(size', entries') + size[lru[i]] > MAX_BYTES]_vars

=============================================================================
