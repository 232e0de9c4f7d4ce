------------------------------ MODULE AtomicFile ------------------------------
(***************************************************************************)
(* AtomicFile: new content is written to a temporary file through a stream *)
(* and renamed over the base file.  The actions come in the two versions   *)
(* of the code, atomicfile_n_exporter.cpp ("napi") and fs_atomicfile.cpp   *)
(* ("core", used by the static binding).  The process may die between any  *)
(* two of them and start again with a new object for the same base file.   *)
(* Writes of the stream run on worker threads (streamrw.ts).               *)
(***************************************************************************)
EXTENDS Naturals, Sequences, FiniteSets

CONSTANTS
    Bindings,       \* some of "napi" and "core"
    MaxTemps,       \* bound: temporary files made
    MaxChunks,      \* bound: chunks written
    MaxCrashes      \* bound: deaths of the process

ASSUME AtomicFileAssumption ==
    /\ Bindings \subseteq {"napi", "core"}
    /\ {MaxTemps, MaxChunks, MaxCrashes} \subseteq Nat

Files == 0 .. MaxTemps      \* inodes: 0 is the base file's first content
None == MaxTemps + 1        \* no inode
Template == MaxTemps + 1    \* newFileName ends in _XXXXXX: no temporary was made
Empty == MaxTemps + 2       \* newFileName was cleared

VARIABLES
    base,           \* the inode the base name leads to, or None
    temps,          \* names of temporary files that exist (named by their inode)
    data,           \* chunks in each inode
    newName,        \* entity->newFileName: Template, Empty or a temporary's name
    hasBase,        \* entity->baseFileName is not cleared
    stream,         \* inode of the open write stream, or None
    ref,            \* writeStreamObj: "null", "live" or "deleted"
    inflight,       \* chunks handed to worker threads, for the FILE of each inode
    buffer,         \* chunks in the buffer of each inode's FILE
    given,          \* chunks the application has written since StartWrite
    committed,      \* what the base file is expected to hold
    torn,           \* inodes whose stream has lost a chunk, or a part of one
    late,           \* the base file is from a FinishWrite with writes still under way
    orphans,        \* temporaries that no object names any more, by a death or a
                    \* removal that failed
    unowned,        \* descriptors that nobody will close
    made, chunks, crashes,
    binding         \* the binding of this history

disk == <<base, temps, data>>
object == <<newName, hasBase, stream, ref>>
bounds == <<made, chunks, crashes>>
vars == <<disk, object, inflight, buffer, given, committed, torn, late, orphans, unowned, bounds, binding>>

Init ==
    /\ base = 0 /\ temps = {} /\ data = [f \in Files |-> <<>>]
    /\ newName = Template /\ hasBase = TRUE /\ stream = None /\ ref = "null"
    /\ inflight = data /\ buffer = data /\ given = <<>>
    /\ committed = <<>> /\ torn = {} /\ late = FALSE /\ orphans = {} /\ unowned = 0
    /\ made = 0 /\ chunks = 0 /\ crashes = 0 /\ binding \in Bindings

IsTemp(name) == name \notin {Template, Empty}

-----------------------------------------------------------------------------
(* StartWrite                                                              *)

\* access of the parent and mkstemp, which needs the template in newFileName and
\* replaces it by the name it made.
Mkstemp(closes) ==
    /\ newName = Template /\ made < MaxTemps
    /\ made' = made + 1 /\ newName' = made + 1 /\ temps' = temps \cup {made + 1}
    /\ unowned' = IF closes THEN unowned ELSE unowned + 1
    /\ given' = <<>>

StartWriteFails ==
    /\ newName # Template
    /\ UNCHANGED vars

\* The temporary exists and the stream could not be created.
StartWriteNoStream ==
    /\ stream = None /\ Mkstemp(binding = "core")
    /\ UNCHANGED <<base, data, hasBase, stream, ref, inflight, buffer, committed, late, torn,
                   orphans, chunks, crashes>>

\* atomicfile_n_exporter.cpp keeps mkstemp's descriptor open and forgets it.
NapiStartWrite ==
    /\ binding = "napi" /\ stream = None /\ Mkstemp(FALSE)
    /\ stream' = made + 1 /\ ref' = "live"
    /\ UNCHANGED <<base, data, hasBase, inflight, buffer, committed, late, torn, orphans,
                   chunks, crashes>>

CoreStartWriteKeepsFd ==
    /\ binding = "core" /\ stream = None /\ Mkstemp(FALSE)
    /\ stream' = made + 1
    /\ UNCHANGED <<base, data, hasBase, ref, inflight, buffer, committed, late, torn, orphans,
                   chunks, crashes>>

CoreStartWrite ==
    /\ binding = "core" /\ stream = None /\ Mkstemp(TRUE)
    /\ stream' = made + 1
    /\ UNCHANGED <<base, data, hasBase, ref, inflight, buffer, committed, late, torn, orphans,
                   chunks, crashes>>

-----------------------------------------------------------------------------
(* The stream                                                              *)

\* WriteStream.doWrite: Stream.write captures the FILE and runs on a worker.
DoWrite ==
    /\ stream # None /\ chunks < MaxChunks
    /\ chunks' = chunks + 1
    /\ inflight' = [inflight EXCEPT ![stream] = Append(@, chunks + 1)]
    /\ given' = Append(given, chunks + 1)
    /\ UNCHANGED <<disk, object, buffer, committed, late, torn, orphans, unowned, made, crashes>>

\* fwrite takes all of the chunk; or a part, which the call reports as success with
\* the count, doWrite going on from there (0 stands for what is in the file then);
\* or nothing, and the call fails.
Loses(f) == torn' = torn \cup {f}
WriteExec(f) ==
    /\ inflight[f] # <<>>
    /\ inflight' = [inflight EXCEPT ![f] = Tail(@)]
    /\ \/ buffer' = [buffer EXCEPT ![f] = Append(@, Head(inflight[f]))] /\ UNCHANGED torn
       \/ buffer' = [buffer EXCEPT ![f] = Append(@, 0)] /\ Loses(f)
       \/ UNCHANGED buffer /\ Loses(f)
    /\ UNCHANGED <<disk, object, given, committed, late, orphans, unowned, bounds>>

\* What is buffered is written, or is lost where there is no room for it.
Flushed(f) ==
    /\ buffer' = [buffer EXCEPT ![f] = <<>>]
    /\ \/ data' = [data EXCEPT ![f] = @ \o buffer[f]] /\ UNCHANGED torn
       \/ buffer[f] # <<>> /\ UNCHANGED data /\ Loses(f)

\* The flush that follows every write, and fclose once the last worker is done:
\* nobody looks at what they return.
Flush(f) ==
    /\ buffer[f] # <<>> /\ Flushed(f)
    /\ UNCHANGED <<base, temps, object, inflight, given, committed, late, orphans, unowned,
                   bounds>>

\* closeSync drops the object's share of the FILE: if no worker has another, this
\* is fclose, and what is buffered is written or lost; closeSync does not say.
CloseSync ==
    /\ stream' = None
    /\ \/ stream # None /\ inflight[stream] = <<>> /\ Flushed(stream)
       \/ ~(stream # None /\ inflight[stream] = <<>>) /\ UNCHANGED <<data, buffer, torn>>
LeaveOpen == stream' = None /\ UNCHANGED <<data, buffer, torn>>

-----------------------------------------------------------------------------
(* FinishWrite                                                             *)

\* Writes the application did not wait for hold the FILE of f open.
UnderWay(f) == inflight[f] # <<>> \/ (stream # f /\ buffer[f] # <<>>)

RenameDone ==
    /\ IsTemp(newName) /\ newName \in temps
    /\ base' = newName /\ temps' = temps \ {newName} /\ newName' = Template
    /\ late' = UnderWay(newName)
    /\ committed' = IF UnderWay(newName) THEN committed ELSE given
RenameFailedResets == newName' = Template /\ UNCHANGED <<base, temps, late, committed>>
RenameFailed == UNCHANGED <<base, temps, newName, late, committed>>

NapiFinishWriteLeavesOpen ==
    /\ binding = "napi" /\ ref = "live"
    /\ LeaveOpen /\ (RenameDone \/ RenameFailed) /\ ref' = "deleted"
    /\ UNCHANGED <<hasBase, inflight, given, orphans, unowned, bounds>>

\* The stream is closed, then renamed; the reference is deleted whether the rename
\* succeeds or not, and stays in the entity.
NapiFinishWrite ==
    /\ binding = "napi" /\ ref = "live"
    /\ CloseSync /\ (RenameDone \/ RenameFailed) /\ ref' = "deleted"
    /\ UNCHANGED <<hasBase, inflight, given, orphans, unowned, bounds>>

\* Without a StartWrite since: the reference is null or was deleted.  Either the
\* call fails there, or a value is found behind the deleted reference, closing it
\* again fails, and rename is asked to move what newFileName says.
NapiFinishWriteAgain ==
    /\ binding = "napi" /\ ref # "live"
    /\ \/ UNCHANGED <<base, temps, newName, late, committed>>
       \/ (ref = "deleted" /\ hasBase /\ RenameDone)
    /\ UNCHANGED <<data, hasBase, stream, ref, inflight, buffer, given, torn, orphans, unowned,
                   bounds>>

\* The stream is closed by the caller in the static binding's own library.
CoreFinishWrite ==
    /\ binding = "core" /\ CloseSync /\ (RenameFailed \/ (hasBase /\ RenameDone))
    /\ UNCHANGED <<hasBase, ref, inflight, given, orphans, unowned, bounds>>

-----------------------------------------------------------------------------
(* FailWrite and Delete                                                    *)

RemoveTemp ==
    IsTemp(newName) /\ temps' = temps \ {newName} /\ newName' = Template
RemoveTempFailed == UNCHANGED <<temps, newName>>

NapiFailWrite ==
    /\ binding = "napi"
    /\ \/ (ref = "live" /\ CloseSync /\ (RemoveTemp \/ RemoveTempFailed) /\ ref' = "deleted")
       \/ (ref # "live" /\ UNCHANGED <<stream, data, buffer, torn, temps, newName, ref>>)
    /\ UNCHANGED <<base, hasBase, inflight, given, committed, late, orphans, unowned, bounds>>

CoreFailWrite ==
    /\ binding = "core" /\ CloseSync /\ (RemoveTemp \/ RemoveTempFailed)
    /\ UNCHANGED <<base, hasBase, ref, inflight, given, committed, late, orphans, unowned,
                   bounds>>

\* Each of the two files is removed if it is there; either removal may fail.
Removals(t, b) ==
    /\ temps' = IF t THEN temps \ {newName} ELSE temps
    /\ base' = IF b THEN None ELSE base
    /\ committed' = IF b THEN <<>> ELSE committed
Failed(t, b) == (IsTemp(newName) /\ newName \in temps /\ ~t) \/ (base # None /\ ~b)
Cleared == newName' = Empty /\ hasBase' = FALSE

\* A removal that fails throws, and the names are cleared all the same.
NapiDelete ==
    /\ binding = "napi" /\ hasBase
    /\ \E t, b \in BOOLEAN :
        /\ Removals(t, b)
        /\ orphans' = IF ~t /\ IsTemp(newName) THEN orphans \cup {newName} ELSE orphans
    /\ Cleared
    /\ UNCHANGED <<data, stream, ref, inflight, buffer, given, late, torn, unowned, bounds>>

CoreDelete ==
    /\ binding = "core" /\ hasBase
    /\ \E t, b \in BOOLEAN :
        /\ Removals(t, b)
        /\ IF Failed(t, b) THEN UNCHANGED <<newName, hasBase>> ELSE Cleared
    /\ UNCHANGED <<data, stream, ref, inflight, buffer, given, late, torn, orphans, unowned, bounds>>

\* ReadFully and GetBaseFile open the base file and close, or hand out, what they
\* opened: they read what is there.
ReadFully == IF base = None THEN <<>> ELSE data[base]

-----------------------------------------------------------------------------
\* The process dies, and another makes an object for the same base file.
Crash ==
    /\ crashes < MaxCrashes /\ crashes' = crashes + 1
    /\ newName' = Template /\ hasBase' = TRUE /\ stream' = None /\ ref' = "null"
    /\ inflight' = [f \in Files |-> <<>>] /\ buffer' = inflight' /\ given' = <<>>
    /\ orphans' = orphans \cup temps /\ unowned' = 0
    /\ UNCHANGED <<disk, committed, late, torn, made, chunks>>

Step ==
    \/ StartWriteFails \/ StartWriteNoStream \/ NapiStartWrite \/ CoreStartWrite
    \/ DoWrite \/ \E f \in Files : WriteExec(f) \/ Flush(f)
    \/ NapiFinishWrite \/ NapiFinishWriteAgain \/ CoreFinishWrite
    \/ NapiFailWrite \/ CoreFailWrite \/ NapiDelete \/ CoreDelete
    \/ Crash

Next == Step /\ UNCHANGED binding

Spec == Init /\ [][Next]_vars

-----------------------------------------------------------------------------
\* What a reader finds in the base file is what was there before, or everything
\* written between StartWrite and a FinishWrite that returned: never a part of it,
\* whenever the process dies.  (FinishWrite does not wait for writes under way: the
\* application has to.  Nor does it know of chunks the stream lost, on a full disk:
\* then the base file is replaced by what there is.)
Atomic == late \/ base \in torn \/ ReadFully = committed

\* A temporary file is named by the object that made it, so that FailWrite, Delete
\* or the next FinishWrite can remove it, or it was left by a death or by a removal
\* that failed: the error paths lose none.
TempOwned == temps \subseteq orphans \cup {newName}

\* docs/agents/js-fs-api.md: "每条路径都要明确所有权" (every path has to be clear about
\* the ownership of its descriptor): no descriptor is left that nobody will close.
DescriptorsOwned == binding = "core" => unowned = 0

\* An AtomicFile is all or nothing: of the contents, of the temporary file and of
\* its descriptor, whichever step but a write of the stream fails and whenever the
\* process dies.
AtomicFileSafe == Atomic /\ TempOwned /\ DescriptorsOwned
=============================================================================
