------------------------------ MODULE Inotify ------------------------------
(***************************************************************************)
(* What the watchers take from the kernel: numbers of descriptors, inotify *)
(* instances with their queues of events, event descriptors and poll.      *)
(* Nothing here is this repository's code.                                 *)
(*                                                                         *)
(* A state k of the kernel is a record: tab gives each number the instance *)
(* open under it (0: free), inst the instances ever made, in order, and    *)
(* files the files there are.  An instance has its kind, its watches, the  *)
(* number of the next watch, its queue of events and the counter of an     *)
(* event descriptor.  Number 0 stands for the -1 of the code.              *)
(***************************************************************************)
EXTENDS Integers, Sequences, FiniteSets, FiniteSetsExt

CONSTANTS Files, Dirs, MaxFd

Kernel == [tab |-> [n \in 1 .. MaxFd |-> 0], inst |-> << >>, files |-> Files]
Instance(kind) == [kind |-> kind, watches |-> {}, next |-> 1, q |-> << >>, count |-> 0]

Free(k) == {n \in 1 .. MaxFd : k.tab[n] = 0}
InstanceOf(k, fd) == IF fd = 0 THEN 0 ELSE k.tab[fd]
KindOf(k, i) == IF i = 0 THEN "none" ELSE k.inst[i].kind
NumbersOf(k, kind) == {n \in 1 .. MaxFd : KindOf(k, k.tab[n]) = kind}

(* A new descriptor takes the lowest free number.                          *)
NewFd(k) == Min(Free(k))
Opened(k, kind) ==
    [k EXCEPT !.tab[NewFd(k)] = Len(k.inst) + 1, !.inst = Append(@, Instance(kind))]
Closed(k, fd) == IF fd = 0 THEN k ELSE [k EXCEPT !.tab[fd] = 0]

(* inotify_add_watch: a file has one watch in an instance, whose events    *)
(* are replaced; the numbers of watches are never used again.              *)
WatchOf(k, fd, file) == {w \in k.inst[k.tab[fd]].watches : w.file = file}
CanWatch(k, fd, file) == KindOf(k, InstanceOf(k, fd)) = "inotify" /\ file \in k.files
AddedWd(k, fd, file) ==
    IF WatchOf(k, fd, file) = {} THEN k.inst[k.tab[fd]].next
    ELSE (CHOOSE w \in WatchOf(k, fd, file) : TRUE).wd
AddWatch(k, fd, file, events) ==
    LET wd == AddedWd(k, fd, file)
        i == k.tab[fd]
    IN [k EXCEPT !.inst[i].watches = {w \in @ : w.wd # wd} \cup {[wd |-> wd, file |-> file, events |-> events]},
                 !.inst[i].next = IF wd = @ THEN @ + 1 ELSE @]

(* inotify_rm_watch queues IN_IGNORED, as the deletion of the file does.   *)
Ignored(wd) == [wd |-> wd, event |-> "ignored", id |-> 0, named |-> FALSE]
CanRemove(k, fd, wd) ==
    /\ KindOf(k, InstanceOf(k, fd)) = "inotify"
    /\ \E w \in k.inst[k.tab[fd]].watches : w.wd = wd
RmWatch(k, fd, wd) ==
    [k EXCEPT !.inst[k.tab[fd]].watches = {w \in @ : w.wd # wd},
              !.inst[k.tab[fd]].q = Append(@, Ignored(wd))]

(* What happens to a file is queued where it is watched.                   *)
Happens(k, file, event, id) ==
    [k EXCEPT !.inst = [i \in DOMAIN k.inst |->
        LET on == {w \in k.inst[i].watches : w.file = file /\ event \in w.events}
        IN IF on = {} THEN k.inst[i]
           ELSE [k.inst[i] EXCEPT !.q = Append(@,
                    [wd |-> (CHOOSE w \in on : TRUE).wd, event |-> event, id |-> id, named |-> file \in Dirs])]]]
Deleted(k, file) ==
    [k EXCEPT !.files = @ \ {file},
              !.inst = [i \in DOMAIN k.inst |->
        LET on == {w \in k.inst[i].watches : w.file = file}
        IN IF on = {} THEN k.inst[i]
           ELSE [k.inst[i] EXCEPT !.watches = @ \ on,
                                  !.q = Append(@, Ignored((CHOOSE w \in on : TRUE).wd))]]]

(* poll holds what was open under its numbers when it was entered; a file  *)
(* of another kind can always be read.                                     *)
Readable(k, i) ==
    CASE KindOf(k, i) = "inotify" -> k.inst[i].q # << >>
      [] KindOf(k, i) = "event" -> k.inst[i].count > 0
      [] OTHER -> KindOf(k, i) = "other"
Stale(k, fd) == fd # 0 /\ k.tab[fd] = 0                    \* POLLNVAL
Written(k, fd) == IF fd = 0 THEN k ELSE [k EXCEPT !.inst[k.tab[fd]].count = @ + 1]
Emptied(k, i) == [k EXCEPT !.inst[i].q = << >>]
============================================================================
