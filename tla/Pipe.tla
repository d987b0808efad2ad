-------------------------------- MODULE Pipe --------------------------------
(***************************************************************************)
(* Duplex pipes (pipe.cpp, the Unix build): pipe_create makes two kernel   *)
(* pipes and gives each end the reading side of one and the writing side   *)
(* of the other; all four descriptors are non-blocking.  send(str_t) calls *)
(* write() until the message is out or a call passes on nothing, and       *)
(* recv() reads what there is.                                             *)
(*                                                                         *)
(* Each end is used by one thread at a time.  A byte is its number among   *)
(* the bytes its sender was asked to send.                                 *)
(***************************************************************************)
EXTENDS Naturals, Sequences, FiniteSetsExt

CONSTANTS
    Limit,      \* descriptors are 1 .. Limit
    Capacity,   \* how many bytes a kernel pipe holds
    Atomic,     \* PIPE_BUF: a write of no more bytes is done whole or not
    MaxRead,    \* the buffer of recv: 65536
    MaxBytes,   \* bound: the bytes an end is asked to send
    MaxOther,   \* bound: how many other files are open at a time
    Null        \* a handle or a descriptor that is not open

\* The sides of the two kernel pipes, and any other file.
PipeFiles == {1, 2} \X {"read", "write"}
OtherFile == <<0, "other">>

ASSUME PipeAssumption ==
    /\ {Capacity, Atomic, MaxRead} \subseteq Nat \ {0} /\ Atomic <= Capacity
    /\ {Limit, MaxBytes, MaxOther} \subseteq Nat
    /\ Null \notin Nat \union PipeFiles \union {OtherFile}

Fds == 1 .. Limit
Ends == {"left", "right"}
Peer(e) == IF e = "left" THEN "right" ELSE "left"

VARIABLES
    file,       \* the kernel's table: what each open descriptor is for
    contents,   \* contents[p]: the bytes in kernel pipe p
    fds,        \* the array of a pipe_create under way
    hIn, hOut,  \* the two handles of each end
    err,        \* the err_t that the user of each end passes
    len, i,     \* the message an end is sending, 0 if none, and send's i
    asked,      \* how many bytes an end was asked to send
    dropped,    \* history: bytes of messages that were given up
    got         \* history: the bytes an end has received

handles == <<hIn, hOut>>
transfer == <<len, i, asked, dropped, got>>
vars == <<file, contents, fds, handles, err, transfer>>

ForEnds(v) == [e \in Ends |-> v]

\* Nothing was sent over the pair yet.
NothingSent(l, n, a, d, g) ==
    l = ForEnds(0) /\ n = ForEnds(0) /\ a = ForEnds(0)
    /\ d = ForEnds({}) /\ g = ForEnds(<<>>)

Init ==
    /\ file = [fd \in Fds |-> Null]
    /\ contents = <<<<>>, <<>>>>
    /\ fds = <<>>
    /\ hIn = ForEnds(Null) /\ hOut = ForEnds(Null)
    /\ err = ForEnds("none")
    /\ NothingSent(len, i, asked, dropped, got)

Open(e) == hIn[e] # Null

\* The kernel pipe of a descriptor; whether a side of it is open anywhere.
PipeOf(fd) == file[fd][1]
SideOpen(p, side) == \E fd \in Fds : file[fd] = <<p, side>>

\* A call of pipe() gets the two lowest descriptors that are free.
Free == {fd \in Fds : file[fd] = Null}

OpenPipe(p, r, w) ==
    /\ r \in Free /\ r = Min(Free)
    /\ w \in Free \ {r} /\ w = Min(Free \ {r})
    /\ file' = [file EXCEPT ![r] = <<p, "read">>, ![w] = <<p, "write">>]
    /\ contents' = [contents EXCEPT ![p] = <<>>]

Closed(S) == [fd \in Fds |-> IF fd \in S THEN Null ELSE file[fd]]

-----------------------------------------------------------------------------
(* pipe_create, called by the thread whose err_t is that of "left". *)

\* pipe(fds) succeeds, or fails.
CreateFirst ==
    /\ fds = <<>> /\ \A e \in Ends : ~Open(e)
    /\ \E r, w \in Fds : OpenPipe(1, r, w) /\ fds' = <<r, w>>
    /\ UNCHANGED <<handles, err, transfer>>

CreateFirstFails ==
    /\ fds = <<>> /\ \A e \in Ends : ~Open(e)
    /\ err' = [err EXCEPT !["left"] = "system"]
    /\ UNCHANGED <<file, contents, fds, handles, transfer>>

\* pipe(fds + 2) succeeds: four descriptors for the two ends.
CreateSecond ==
    /\ fds # <<>>
    /\ \E r, w \in Fds :
          /\ OpenPipe(2, r, w)
          /\ hIn' = [left |-> fds[1], right |-> r]
          /\ hOut' = [left |-> w, right |-> fds[2]]
    /\ fds' = <<>>
    /\ NothingSent(len', i', asked', dropped', got')
    /\ UNCHANGED <<err>>

\* Mutant: keeps the first pair.
CreateSecondFailsOpen ==
    /\ fds # <<>>
    /\ err' = [err EXCEPT !["left"] = "system"]
    /\ fds' = <<>>
    /\ UNCHANGED <<file, contents, handles, transfer>>

CreateSecondFails ==
    /\ fds # <<>>
    /\ err' = [err EXCEPT !["left"] = "system"]
    /\ file' = Closed({fds[1], fds[2]})
    /\ fds' = <<>>
    /\ UNCHANGED <<contents, handles, transfer>>

\* ~pipe_t, while no call on the end is under way.
Destroy(e) ==
    /\ Open(e) /\ len[e] = 0
    /\ file' = Closed({hIn[e], hOut[e]})
    /\ hIn' = [hIn EXCEPT ![e] = Null]
    /\ hOut' = [hOut EXCEPT ![e] = Null]
    /\ UNCHANGED <<contents, fds, err, transfer>>

-----------------------------------------------------------------------------
(* send(pipe_t, str_t). *)

BeginSend(e) ==
    /\ Open(e) /\ len[e] = 0 /\ err[e] = "none"
    /\ \E n \in 1 .. MaxBytes - asked[e] :
          /\ len' = [len EXCEPT ![e] = n]
          /\ asked' = [asked EXCEPT ![e] = @ + n]
    /\ i' = [i EXCEPT ![e] = 0]
    /\ UNCHANGED <<file, contents, fds, handles, err, dropped, got>>

Writing(e) == len[e] # 0 /\ i[e] < len[e]

Out(e) == PipeOf(hOut[e])
Room(p) == Capacity - Len(contents[p])

\* The n bytes from the k-th of the message on.
Bytes(e, k, n) == [j \in 1 .. n |-> asked[e] - len[e] + k + j]

\* How many of n bytes a write to pipe p passes on: PIPE_BUF bytes or fewer go
\* all or not at all, of more at least one does if there is room.
Accepted(p, n) ==
    IF n <= Atomic THEN {n} \intersect 0 .. Room(p) ELSE 1 .. Min({n, Room(p)})

\* Mutant: always sends from the start of the message.
WriteFromStart(e) ==
    /\ Writing(e) /\ SideOpen(Out(e), "read")
    /\ \E n \in Accepted(Out(e), len[e] - i[e]) :
          /\ contents' = [contents EXCEPT ![Out(e)] = @ \o Bytes(e, 0, n)]
          /\ i' = [i EXCEPT ![e] = @ + n]
    /\ UNCHANGED <<file, fds, handles, err, len, asked, dropped, got>>

\* write() passes on some bytes of the rest, and send() goes on behind them.
Write(e) ==
    /\ Writing(e) /\ SideOpen(Out(e), "read")
    /\ \E n \in Accepted(Out(e), len[e] - i[e]) :
          /\ contents' = [contents EXCEPT ![Out(e)] = @ \o Bytes(e, i[e], n)]
          /\ i' = [i EXCEPT ![e] = @ + n]
    /\ UNCHANGED <<file, fds, handles, err, len, asked, dropped, got>>

\* The rest of the message is given up.
GiveUp(e, why) ==
    /\ err' = [err EXCEPT ![e] = why]
    /\ dropped' = [dropped EXCEPT ![e] =
                      @ \union asked[e] - len[e] + i[e] + 1 .. asked[e]]
    /\ len' = [len EXCEPT ![e] = 0]
    /\ i' = [i EXCEPT ![e] = 0]

\* Mutant: tries again.
WriteFullRetries(e) ==
    /\ Writing(e) /\ SideOpen(Out(e), "read")
    /\ Accepted(Out(e), len[e] - i[e]) = {}
    /\ UNCHANGED vars

\* EAGAIN: the inner send() returns 0 without an error, "come back later"; the
\* outer one returns with an error of its own.
WriteFull(e) ==
    /\ Writing(e) /\ SideOpen(Out(e), "read")
    /\ Accepted(Out(e), len[e] - i[e]) = {}
    /\ GiveUp(e, "closed")
    /\ UNCHANGED <<file, contents, fds, handles, asked, got>>

\* EPIPE: the inner send() returns 0 with an error.  (The library leaves SIGPIPE
\* alone; where it ends the program, nothing follows.)
WriteFails(e) ==
    /\ Writing(e) /\ ~SideOpen(Out(e), "read")
    /\ GiveUp(e, "system")
    /\ UNCHANGED <<file, contents, fds, handles, asked, got>>

\* The loop is over.
EndSend(e) ==
    /\ len[e] # 0 /\ i[e] >= len[e]
    /\ len' = [len EXCEPT ![e] = 0]
    /\ i' = [i EXCEPT ![e] = 0]
    /\ UNCHANGED <<file, contents, fds, handles, err, asked, dropped, got>>

-----------------------------------------------------------------------------
\* recv(pipe_t): what there is, up to the size of the buffer.  When there is
\* nothing, or nobody is left to write, the result is empty and nothing changes.
Recv(e) ==
    /\ Open(e) /\ len[e] = 0 /\ err[e] = "none"
    /\ LET p == PipeOf(hIn[e])
           n == Min({MaxRead, Len(contents[p])})
       IN  /\ n > 0
           /\ got' = [got EXCEPT ![e] = @ \o SubSeq(contents[p], 1, n)]
           /\ contents' = [contents EXCEPT ![p] = SubSeq(@, n + 1, Len(@))]
    /\ UNCHANGED <<file, fds, handles, err, len, i, asked, dropped>>

\* The user of the end looks at the error and clears it.
ClearErr(e) ==
    /\ err[e] # "none" /\ len[e] = 0
    /\ err' = [err EXCEPT ![e] = "none"]
    /\ UNCHANGED <<file, contents, fds, handles, transfer>>

\* Other parts of the program open and close files.
OpenOther ==
    /\ Free # {} /\ Cardinality({fd \in Fds : file[fd] = OtherFile}) < MaxOther
    /\ file' = [file EXCEPT ![Min(Free)] = OtherFile]
    /\ UNCHANGED <<contents, fds, handles, err, transfer>>

CloseOther ==
    /\ \E fd \in Fds : file[fd] = OtherFile /\ file' = Closed({fd})
    /\ UNCHANGED <<contents, fds, handles, err, transfer>>

SendStep(e) == Write(e) \/ WriteFull(e) \/ WriteFails(e) \/ EndSend(e)

Create == CreateFirst \/ CreateFirstFails \/ CreateSecond \/ CreateSecondFails

Next ==
    \/ Create
    \/ \E e \in Ends :
          BeginSend(e) \/ SendStep(e) \/ Recv(e) \/ ClearErr(e) \/ Destroy(e)
    \/ OpenOther \/ CloseOther

Spec == Init /\ [][Next]_vars

\* A thread that is inside send() runs on.
FairSpec == Spec /\ \A e \in Ends : WF_vars(SendStep(e))

-----------------------------------------------------------------------------
\* Every descriptor that is open for a pipe belongs to one end, or to the
\* pipe_create under way, for the side it is for: none leaks when the second
\* pipe() fails, and none is closed that has become another file's
\* (pipe.cpp:25-36, 66-84).
FdsOwned ==
    LET inFds == {fds[k] : k \in 1 .. Len(fds)}
        held == {hIn[e] : e \in Ends} \union {hOut[e] : e \in Ends}
    IN  /\ {fd \in Fds : file[fd] \in PipeFiles} = inFds \union (held \ {Null})
        /\ inFds \intersect held = {}
        /\ \A e \in Ends : Open(e) =>
              /\ file[hIn[e]][2] = "read" /\ file[hOut[e]][2] = "write"
              /\ SideOpen(PipeOf(hOut[e]), "read") <=> Open(Peer(e))

\* The bytes of e's messages but for those given up and those still to come.
Passed(e) ==
    (1 .. asked[e]) \ (dropped[e] \union asked[e] - len[e] + i[e] + 1 .. asked[e])

\* What an end has received and what waits for it is what its peer passed on,
\* each byte once and in order, whatever was read and written in what pieces;
\* if no send failed, it is all that was sent (pipe.cpp:105-184).
Delivered ==
    \A e \in Ends : Open(Peer(e)) =>
        LET bytes == got[Peer(e)] \o contents[PipeOf(hIn[Peer(e)])]
        IN  /\ {bytes[k] : k \in 1 .. Len(bytes)} = Passed(e)
            /\ \A j, k \in 1 .. Len(bytes) : j < k => bytes[j] < bytes[k]

\* send() returns, though the peer never reads (pipe.cpp:69, 145-147, 176-183).
SendReturns == \A e \in Ends : len[e] # 0 ~> len[e] = 0
=============================================================================
