-------------------------------- MODULE File --------------------------------
(***************************************************************************)
(* Files (file.cpp:267-423, Unix): the objects file_t with their           *)
(* descriptors, and the loops of read() and write() over calls of the OS   *)
(* that pass on some of the bytes or fail.  One thread uses the objects;   *)
(* meanwhile another process appends to the file.  There is one file, and  *)
(* other parts of the program have descriptors of their own.  What names   *)
(* and times of files are is in Path and Time.                             *)
(***************************************************************************)
EXTENDS Path, Time

CONSTANTS
    Null,
    Objs,       \* the file_t objects
    Limit,      \* the OS's limit of open descriptors
    Old,        \* bound: the byte others write; ours are numbers
    Gap,        \* and what a place reads as that nobody wrote
    Fresh,      \* what a buffer holds before it is read into
    All,        \* the length that asks for all that is left: max<nat8_t>
    Chunk,      \* the first buffer of such a read: 4096
    MaxLen,     \* bound: the length of the file, and of one read
    MaxOther    \* bound: descriptors of other parts of the program

ASSUME FileAssumption ==
    /\ {Limit, Chunk} \subseteq Nat \ {0} /\ {MaxLen, MaxOther} \subseteq Nat
    /\ All \notin Nat /\ Null \notin Nat
    /\ Fresh \notin Nat \union {Old, Gap}

VARIABLES
    pc,         \* "begin", "idle", "read" or "write"
    content,    \* the file; Null before it is created
    desc,       \* desc[fd]: the use of a descriptor ("free", "other", and
                \* "reading" or "writing" of the file), and its cursor
    opaq,       \* opaq[o]: the descriptor of an object, or Null
    err,        \* "none", "system" or "end": the err_t all calls are given
    obj, want,  \* read and write: the file, and the length to be read,
    text, i,    \* the buffer, or the data to be written, and the index
    before      \* history: the content and the cursor when the call began

handles == <<desc, opaq>>
call == <<obj, want, text, i, before>>
vars == <<pc, content, handles, err, call>>

Fds == 1 .. Limit
Used(use) == {fd \in Fds : desc[fd].use = use}
Opened(use) == [use |-> use, at |-> 0]

\* The cursor of the call under way.
Cursor == desc[opaq[obj]].at

Init ==
    /\ pc = "begin"
    /\ content \in {Null} \union {[k \in 1 .. n |-> Old] : n \in 0 .. MaxLen - 1}
    /\ desc = [fd \in Fds |-> Opened("free")]
    /\ opaq = [o \in Objs |-> Null]
    /\ err = "none"
    /\ obj = Null /\ want = 0 /\ text = <<>> /\ i = 0
    /\ before = [content |-> <<>>, at |-> 0]

Start == pc = "begin" /\ pc' = "idle" /\ UNCHANGED <<content, handles, err, call>>

-----------------------------------------------------------------------------
(* Objects and descriptors. *)

\* The descriptor table d when what object o has is closed.
Closed(d, o) == [fd \in Fds |-> IF fd = opaq[o] THEN Opened("free") ELSE d[fd]]

\* o = open_file(...): a temporary gets the descriptor, then o closes its own
\* and takes it.  The file is not truncated.
Open(o) ==
    /\ pc = "idle" /\ err = "none" /\ Used("free") # {}
    /\ \E use \in {"reading", "writing"} :
          /\ use = "writing" \/ content # Null
          /\ content' = IF content = Null THEN <<>> ELSE content
          /\ LET fd == Min(Used("free"))
             IN  /\ desc' = [Closed(desc, o) EXCEPT ![fd] = Opened(use)]
                 /\ opaq' = [opaq EXCEPT ![o] = fd]
    /\ UNCHANGED <<pc, err, call>>

\* The same when the OS refuses, or an error was there before: o, given an empty
\* file, closes its own all the same.
OpenFails(o) ==
    /\ pc = "idle"
    /\ err' = IF err = "none" THEN "system" ELSE err
    /\ desc' = Closed(desc, o)
    /\ opaq' = [opaq EXCEPT ![o] = Null]
    /\ UNCHANGED <<pc, content, call>>

\* Mutant: what was moved from keeps its descriptor.
MoveKeeps(o, ori) ==
    /\ pc = "idle" /\ o # ori
    /\ desc' = Closed(desc, o)
    /\ opaq' = [opaq EXCEPT ![o] = opaq[ori]]
    /\ UNCHANGED <<pc, content, err, call>>

\* o = move(ori); of an object to itself it does nothing.
Move(o, ori) ==
    /\ pc = "idle" /\ o # ori
    /\ desc' = Closed(desc, o)
    /\ opaq' = [opaq EXCEPT ![o] = opaq[ori], ![ori] = Null]
    /\ UNCHANGED <<pc, content, err, call>>

\* The end of an object; another one may take its place.
Destroy(o) ==
    /\ pc = "idle" /\ opaq[o] # Null
    /\ desc' = Closed(desc, o)
    /\ opaq' = [opaq EXCEPT ![o] = Null]
    /\ UNCHANGED <<pc, content, err, call>>

SetCursor(o) ==
    /\ pc = "idle" /\ err = "none" /\ opaq[o] # Null
    /\ \/ \E at \in 0 .. MaxLen : desc' = [desc EXCEPT ![opaq[o]].at = at] /\ UNCHANGED err
       \/ err' = "system" /\ UNCHANGED desc
    /\ UNCHANGED <<pc, content, opaq, call>>

\* The user looks at the error and clears it.
ClearErr ==
    /\ pc = "idle" /\ err # "none"
    /\ err' = "none"
    /\ UNCHANGED <<pc, content, handles, call>>

OpenOther ==
    /\ pc = "idle" /\ Used("free") # {} /\ Cardinality(Used("other")) < MaxOther
    /\ desc' = [desc EXCEPT ![Min(Used("free"))] = Opened("other")]
    /\ UNCHANGED <<pc, content, opaq, err, call>>

CloseOther ==
    /\ pc = "idle"
    /\ \E fd \in Used("other") : desc' = [desc EXCEPT ![fd] = Opened("free")]
    /\ UNCHANGED <<pc, content, opaq, err, call>>

\* Another process appends to the file.
OtherAppends ==
    /\ pc # "begin" /\ content # Null /\ Len(content) < MaxLen
    /\ content' = Append(content, Old)
    /\ UNCHANGED <<pc, handles, err, call>>

-----------------------------------------------------------------------------
(* read() and write() of an open file. *)

Begin(o, step, n, data) ==
    /\ pc = "idle" /\ err = "none" /\ opaq[o] # Null
    /\ pc' = step
    /\ obj' = o /\ want' = n /\ text' = data /\ i' = 0
    /\ before' = [content |-> content, at |-> desc[opaq[o]].at]
    /\ UNCHANGED <<content, handles, err>>

\* The call returns, and what it was about is forgotten.
Return(e) ==
    /\ pc' = "idle" /\ err' = e
    /\ obj' = Null /\ want' = 0 /\ text' = <<>> /\ i' = 0
    /\ before' = [content |-> <<>>, at |-> 0]
    /\ UNCHANGED <<content, handles>>

Buffer(n) == [k \in 1 .. n |-> Fresh]

BeginRead(o) ==
    \E n \in {All} \union 0 .. MaxLen : Begin(o, "read", n, Buffer(IF n = All THEN Chunk ELSE n))

\* seq with data from place k on; what lies between reads as Gap.
Overlay(seq, k, data) ==
    [j \in 1 .. Max({Len(seq), k + Len(data)}) |->
        IF k < j /\ j <= k + Len(data) THEN data[j - k]
        ELSE IF j <= Len(seq) THEN seq[j] ELSE Gap]

\* read() of the OS gives n bytes; a full buffer of a read of all is doubled.
ReadSome ==
    /\ pc = "read" /\ i < Len(text)
    /\ \E n \in 1 .. Min({Len(text) - i, Len(content) - Cursor}) :
          LET buf == Overlay(text, i, SubSeq(content, Cursor + 1, Cursor + n))
          IN  /\ i' = i + n
              /\ text' = IF want = All /\ i' = Len(text) THEN buf \o Buffer(Len(text)) ELSE buf
              /\ desc' = [desc EXCEPT ![opaq[obj]].at = @ + n]
    /\ UNCHANGED <<pc, content, opaq, err, obj, want, before>>

AtEnd == pc = "read" /\ i < Len(text) /\ Cursor >= Len(content)

\* Mutant: the rest of the buffer is kept for the next round.
ReadToEndGoesOn ==
    /\ AtEnd /\ want = All
    /\ UNCHANGED <<pc, content, handles, err, call>>

\* It gives nothing: that was all, and the buffer is cut to it.
ReadToEnd ==
    /\ AtEnd /\ want = All
    /\ text' = SubSeq(text, 1, i)
    /\ UNCHANGED <<pc, content, handles, err, obj, want, i, before>>

\* It gives nothing though more was wanted.
ReadTooShort == AtEnd /\ want # All /\ Return("end")

\* Mutant: a round that brought less than was asked for is the last.
EndReadEarly == pc = "read" /\ i > 0 /\ Return("none")

EndRead == pc = "read" /\ i >= Len(text) /\ Return("none")

\* Bound: a write ends within MaxLen, and its bytes are numbered.
BeginWrite(o) ==
    \E n \in 0 .. MaxLen - desc[opaq[o]].at :
        Begin(o, "write", n, [k \in 1 .. n |-> k])

\* Mutant: every round writes from the begin of the data.
WriteSomeAgain ==
    /\ pc = "write" /\ i < Len(text) /\ desc[opaq[obj]].use = "writing"
    /\ \E n \in 1 .. Len(text) - i :
          /\ content' = Overlay(content, Cursor, SubSeq(text, 1, n))
          /\ i' = i + n
          /\ desc' = [desc EXCEPT ![opaq[obj]].at = @ + n]
    /\ UNCHANGED <<pc, opaq, err, obj, want, text, before>>

\* write() of the OS takes n bytes.
WriteSome ==
    /\ pc = "write" /\ i < Len(text) /\ desc[opaq[obj]].use = "writing"
    /\ \E n \in 1 .. Len(text) - i :
          /\ content' = Overlay(content, Cursor, SubSeq(text, i + 1, i + n))
          /\ i' = i + n
          /\ desc' = [desc EXCEPT ![opaq[obj]].at = @ + n]
    /\ UNCHANGED <<pc, opaq, err, obj, want, text, before>>

\* It takes nothing: an error, and a failed assertion in a debug build.
WriteNothing == pc = "write" /\ i < Len(text) /\ Return("end")

EndWrite == pc = "write" /\ i >= Len(text) /\ Return("none")

\* The file was opened for reading.
WriteRefused ==
    pc = "write" /\ i < Len(text) /\ desc[opaq[obj]].use = "reading" /\ Return("system")

\* Any call of the OS may fail.
CallFails == pc \in {"read", "write"} /\ i < Len(text) /\ Return("system")

CallStep ==
    \/ ReadSome \/ ReadToEnd \/ ReadTooShort \/ EndRead
    \/ WriteSome \/ WriteRefused \/ EndWrite

Next ==
    \/ Start
    \/ \E o \in Objs :
          \/ Open(o) \/ OpenFails(o) \/ Destroy(o) \/ SetCursor(o)
          \/ \E ori \in Objs : Move(o, ori)
          \/ opaq[o] # Null /\ (BeginRead(o) \/ BeginWrite(o))
    \/ ClearErr
    \/ OpenOther \/ CloseOther \/ OtherAppends
    \/ CallStep \/ WriteNothing \/ CallFails

Spec == Init /\ [][Next]_vars

\* A thread that is inside read() or write() runs on, and calls of the OS return;
\* that they fail at some time is not assumed.
FairSpec == Spec /\ WF_vars(CallStep)

-----------------------------------------------------------------------------
\* Every descriptor of the file belongs to one object, and no object has one
\* that is closed or another's, however objects are moved, opened again and
\* destroyed and descriptors handed out again (file.cpp:268-304).
FilesOwned ==
    /\ Used("reading") \union Used("writing") = {opaq[o] : o \in Objs} \ {Null}
    /\ \A o, p \in Objs : opaq[o] = opaq[p] /\ opaq[o] # Null => o = p

\* A read that returns without an error gives the bytes from the cursor on, in
\* whatever pieces they came: as many as were wanted, or all that were there
\* when it began at least, and nothing that was not read; the cursor is behind
\* them, so that the next read goes on there (file.cpp:324-368).
ReadSees ==
    [][pc = "read" /\ pc' = "idle" /\ err' = "none" =>
          /\ Len(text) = i /\ Cursor = before.at + i
          /\ text = SubSeq(content, before.at + 1, before.at + i)
          /\ IF want = All THEN Cursor >= Len(before.content) ELSE i = want]_vars

\* While a write is under way, and when it has failed, the first of its bytes
\* are in their place and all others of the file as before, but for what the
\* other process appended; without an error all are there (file.cpp:370-404).
WritesLand ==
    [][pc = "write" =>
          /\ Cursor = before.at + i
          /\ \A k \in 1 .. Len(before.content) \ before.at + 1 .. before.at + i :
                content[k] = before.content[k]
          /\ SubSeq(content, before.at + 1, before.at + i) = SubSeq(text, 1, i)
          /\ pc' = "idle" /\ err' = "none" => i = want]_vars

\* read() and write() return, whatever pieces the OS makes.
CallReturns == pc \in {"read", "write"} ~> pc = "idle"

(* Facts of the operators, looked at before the first call: see InterExact,
   StampsKept and PathRoundTrips. *)

IntervalsExact == pc = "begin" => InterExact
StampsSurvive == pc = "begin" => StampsKept
PathsSurvive == pc = "begin" => PathRoundTrips
=============================================================================
