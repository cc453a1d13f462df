-------------------------------- MODULE Shuffles --------------------------------
(***************************************************************************)
(* The file with the saved item shuffles, kept on the local disk in place  *)
(* of Steam's cloud.  A write goes to a temporary file that then replaces  *)
(* the old file.  An asynchronous read is done at once: its result waits,  *)
(* with a limited number of others, until the game fetches it.  Threads of *)
(* the game may write and read at the same time, and the power may fail.   *)
(***************************************************************************)
EXTENDS Tables, FiniteSetsExt

CONSTANTS
    Threads,                  \* threads of the game
    Sizes,                    \* sizes of what the game writes
    Ranges,                   \* what it reads: [offset, size]
    MaxCloudFileChunkSize,    \* k_unMaxCloudFileChunkSize, also MaxPendingReadBytes
    MaxPendingReadCalls,
    MaxWrites, MaxReads, MaxPowerLosses \* bounds

ASSUME ShufflesAssumption ==
    /\ Sizes \subseteq Nat /\ Ranges \subseteq [offset : Nat, size : Nat]
    /\ {MaxCloudFileChunkSize, MaxWrites, MaxReads, MaxPowerLosses} \subseteq Nat
    /\ MaxPendingReadCalls \in Nat \ {0}
    /\ none \notin Int

VARIABLES
    writes,      \* each FileWrite's file: its size, what is written of it, on disk or not
    file,        \* the write whose file has the name LocalPath, or none
    earlier,     \* history: what had the name since the power came back
    thread,      \* what each thread is doing
    readCalls, readCallOrder, pendingReadBytes, \* s_readCalls and so on
    readCounter, \* s_readCallCounter
    stored,      \* history: the calls that were stored, in order
    fetched,     \* history: the calls whose result the game has taken
    losses       \* history: power losses

disk == <<writes, file, earlier>>
calls == <<readCalls, readCallOrder, pendingReadBytes>>
shufflesVars == <<disk, thread, calls, readCounter, stored, fetched, losses>>

Idle == [step |-> "idle"]
Becomes(t, what) == thread' = [thread EXCEPT ![t] = what]

ShufflesInit ==
    /\ writes = <<>> /\ file = none /\ earlier = {none}
    /\ thread = [t \in Threads |-> Idle]
    /\ readCalls = <<>> /\ readCallOrder = <<>> /\ pendingReadBytes = 0
    /\ readCounter = 1 /\ stored = <<>> /\ fetched = {} /\ losses = 0

-------------------------------------------------------------------------------
(* FileWrite: the steps between which others may run, or the power fail.   *)

NewFile(size) == Append(writes, [size |-> size, done |-> 0, synced |-> FALSE, failed |-> FALSE])

\* TemporaryPath is a name nobody else uses: a file of its own.
OpenTemporary(t, size) ==
    /\ thread[t] = Idle /\ Len(writes) < MaxWrites /\ size <= MaxCloudFileChunkSize
    /\ writes' = NewFile(size)
    /\ Becomes(t, [step |-> "writing", write |-> Len(writes')])
    /\ UNCHANGED <<file, earlier, calls, readCounter, stored, fetched, losses>>

\* fwrite, a part at a time.
WritePart(t) ==
    /\ thread[t].step = "writing"
    /\ LET w == thread[t].write IN
         /\ writes[w].done < writes[w].size
         /\ writes' = [writes EXCEPT ![w].done = @ + 1]
    /\ UNCHANGED <<file, earlier, thread, calls, readCounter, stored, fetched, losses>>

Sync_Skipped(t) ==
    /\ thread[t].step = "writing"
    /\ LET w == thread[t].write IN
         /\ writes[w].done = writes[w].size
         /\ Becomes(t, [step |-> "written", write |-> w])
    /\ UNCHANGED <<disk, calls, readCounter, stored, fetched, losses>>

\* fflush, fsync and fclose.
Sync(t) ==
    /\ thread[t].step = "writing"
    /\ LET w == thread[t].write IN
         /\ writes[w].done = writes[w].size
         /\ writes' = [writes EXCEPT ![w].synced = TRUE]
         /\ Becomes(t, [step |-> "written", write |-> w])
    /\ UNCHANGED <<file, earlier, calls, readCounter, stored, fetched, losses>>

\* ReplaceFile: rename.  FileWrite returns true.
ReplaceFile(t) ==
    /\ thread[t].step = "written"
    /\ file' = thread[t].write /\ earlier' = earlier \cup {file'}
    /\ Becomes(t, Idle)
    /\ UNCHANGED <<writes, calls, readCounter, stored, fetched, losses>>

\* Any of these fails: the temporary file is removed and FileWrite returns false.
WriteFails(t) ==
    /\ thread[t].step \in {"writing", "written"}
    /\ writes' = [writes EXCEPT ![thread[t].write].failed = TRUE]
    /\ Becomes(t, Idle)
    /\ UNCHANGED <<file, earlier, calls, readCounter, stored, fetched, losses>>

FileDelete ==
    /\ file # none /\ file' = none /\ earlier' = earlier \cup {none}
    /\ UNCHANGED <<writes, thread, calls, readCounter, stored, fetched, losses>>

-------------------------------------------------------------------------------
(* FileReadAsync and the results that wait for the game.                   *)

\* What a read of r finds in the file of write w.
Cut(done, r) == IF r.offset < done THEN Min({r.size, done - r.offset}) ELSE 0

\* MakeReadCall: opens the file.
OpenRead(t, r) ==
    /\ thread[t] = Idle /\ readCounter <= MaxReads
    /\ readCounter' = readCounter + 1
    /\ Becomes(t, [step |-> "reading", id |-> readCounter, range |-> r, write |-> file])
    /\ UNCHANGED <<disk, calls, stored, fetched, losses>>

ReadCall(result, range, write, count) ==
    [result |-> result, range |-> range, write |-> write, count |-> count]

\* The rest of MakeReadCall finds: nothing to read, or what the open file has; or it fails.
Results(what) ==
    IF what.range.size > MaxCloudFileChunkSize
    THEN {ReadCall("invalid_param", what.range, none, 0)}
    ELSE {ReadCall("fail", what.range, none, 0),
          IF what.write = none THEN ReadCall("file_not_found", what.range, none, 0)
          ELSE ReadCall("ok", what.range, what.write, Cut(writes[what.write].done, what.range))}

SumOfBytes(order) == Sum([n \in DOMAIN order |-> readCalls[order[n]].count])

Oldest(k) == SubSeq(readCallOrder, 1, k)

\* The oldest calls have to go until there is room: k of them.
MakesRoom(k, count) ==
    \/ k = Len(readCallOrder)
    \/ /\ Cardinality(DOMAIN readCalls) - k < MaxPendingReadCalls
       /\ pendingReadBytes - SumOfBytes(Oldest(k)) + count <= MaxCloudFileChunkSize

StoreReadCallLocked(id, call) ==
    LET k == Min({n \in 0..Len(readCallOrder) : MakesRoom(n, call.count)}) IN
    /\ readCalls' = [i \in (DOMAIN readCalls \ ToSet(Oldest(k))) \cup {id} |->
                       IF i = id THEN call ELSE readCalls[i]]
    /\ readCallOrder' = Append(SubSeq(readCallOrder, k + 1, Len(readCallOrder)), id)
    /\ pendingReadBytes' = pendingReadBytes - SumOfBytes(Oldest(k)) + call.count
    /\ stored' = Append(stored, [id |-> id, count |-> call.count])

StoreRead(t) ==
    /\ thread[t].step = "reading"
    /\ \E call \in Results(thread[t]) : StoreReadCallLocked(thread[t].id, call)
    /\ Becomes(t, Idle)
    /\ UNCHANGED <<disk, readCounter, fetched, losses>>

EraseReadCallLocked_KeepsBytes(id) ==
    /\ readCalls' = Without(readCalls, {id})
    /\ readCallOrder' = RemoveFirst(readCallOrder, id)
    /\ UNCHANGED pendingReadBytes

EraseReadCallLocked(id) ==
    /\ readCalls' = Without(readCalls, {id})
    /\ readCallOrder' = RemoveFirst(readCallOrder, id)
    /\ pendingReadBytes' = pendingReadBytes - readCalls[id].count

\* GetReadCallResult erases a call that failed, CompleteReadCall one that did not.
Fetch(id) ==
    /\ id \in DOMAIN readCalls
    /\ EraseReadCallLocked(id)
    /\ fetched' = fetched \cup {id}
    /\ UNCHANGED <<disk, thread, readCounter, stored, losses>>

-------------------------------------------------------------------------------
\* What is not on the disk is lost, and of the changes of the name any may be the last on
\* the disk.  The process starts again.
PowerFails ==
    /\ losses < MaxPowerLosses /\ losses' = losses + 1
    /\ \E done \in [DOMAIN writes -> 0..Max(Sizes)], name \in earlier :
         /\ \A w \in DOMAIN writes :
              IF writes[w].synced THEN done[w] = writes[w].done ELSE done[w] <= writes[w].done
         /\ writes' = [w \in DOMAIN writes |-> [writes[w] EXCEPT !.done = done[w]]]
         /\ file' = name /\ earlier' = {name}
    /\ thread' = [t \in Threads |-> Idle]
    /\ readCalls' = <<>> /\ readCallOrder' = <<>> /\ pendingReadBytes' = 0
    /\ readCounter' = 1 /\ stored' = <<>> /\ fetched' = {}

ShufflesNext ==
    \/ \E t \in Threads :
         \/ \E size \in Sizes : OpenTemporary(t, size)
         \/ WritePart(t) \/ Sync(t) \/ ReplaceFile(t) \/ WriteFails(t)
         \/ \E r \in Ranges : OpenRead(t, r)
         \/ StoreRead(t)
    \/ FileDelete
    \/ \E id \in DOMAIN readCalls : Fetch(id)
    \/ PowerFails

ShufflesSpec == ShufflesInit /\ [][ShufflesNext]_shufflesVars

-------------------------------------------------------------------------------
Whole(w) == ~writes[w].failed /\ writes[w].done = writes[w].size

\* A read has as much as its range says of the whole of one write: never a part of what is
\* being written (saved_item_shuffles.cpp:477-523).
ReadsAreWhole ==
    \A id \in DOMAIN readCalls : LET call == readCalls[id] IN
        call.result = "ok" => Whole(call.write) /\ call.count = Cut(writes[call.write].size, call.range)

\* Types; and whatever fails and whenever the power fails, the file is what one FileWrite
\* wrote, the whole of it, and that FileWrite did not report a failure
\* (saved_item_shuffles.cpp:245-272).
FileIsWhole ==
    /\ file \in DOMAIN writes \cup {none} /\ file \in earlier
    /\ \A t \in Threads : thread[t].step \in {"idle", "writing", "written", "reading"}
    /\ file # none => Whole(file)
    /\ ReadsAreWhole

\* The map, the order and the count of bytes agree, within the limits.
CallsAreCounted ==
    /\ ToSet(readCallOrder) = DOMAIN readCalls
    /\ Len(readCallOrder) = Cardinality(DOMAIN readCalls)
    /\ pendingReadBytes = SumOfBytes(readCallOrder)
    /\ Len(readCallOrder) <= MaxPendingReadCalls /\ pendingReadBytes <= MaxCloudFileChunkSize

\* A result the game has not fetched is still there, unless the calls after it are too many
\* or need its room (saved_item_shuffles.cpp:89-108).
ResultsLast ==
    /\ CallsAreCounted
    /\ \A n \in DOMAIN stored : stored[n].id \in fetched \cup DOMAIN readCalls
         \/ Len(stored) - n >= MaxPendingReadCalls
         \/ Sum([i \in 1 .. Len(stored) - n + 1 |-> stored[n + i - 1].count]) > MaxCloudFileChunkSize
===============================================================================
