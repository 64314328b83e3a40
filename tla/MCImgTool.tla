------------------------------ MODULE MCImgTool ------------------------------
(***************************************************************************)
(* Disks of three units, chunks of two: a whole chunk and a part of one.   *)
(***************************************************************************)
EXTENDS ImgTool, TLC

CONSTANTS p1, p2, a, b, FileA, FileB

TwoProcesses == {p1, p2}
TwoDests == {FileA, FileB}
SomeUnits == {0, a, b}

\* Data at the front only, at the back only, throughout.
Disks == {<<a, b, 0>>, <<0, 0, b>>, <<a, a, b>>}
Old == <<b, b, b, b>>

Read(offset, length, to) == [verb |-> "read", offset |-> offset, length |-> length, to |-> to]

\* Input of the given claimed length, which the file may since have outgrown.
Write(offset, length, input) ==
    [verb |-> "write", offset |-> offset, length |-> length, input |-> input,
     same |-> FALSE, to |-> Stdout]

SelfWrite == [Write(0, 1, <<a>>) EXCEPT !.same = TRUE]

Reads == {Read(0, ToTheEnd, FileA), Read(0, 1, FileA), Read(1, ToTheEnd, FileB), Read(2, 2, FileB)}
Streams == {Read(0, ToTheEnd, Stdout), Read(4, ToTheEnd, Stdout)}
Writes == {Write(0, 3, <<b, a, 0>>), Write(1, 2, <<a, b, a, a>>), Write(1, 2, <<b>>),
           Write(2, 2, <<b, b>>), Write(4, 0, <<>>), SelfWrite}
AllJobs == Reads \cup Streams \cup Writes

\* The same output file, twice.
SharedJobs == {Read(0, ToTheEnd, FileA), Read(0, 1, FileA)}

\* One file there, one not.
OneFile == FileA :> 1 @@ FileB :> 0

\* Three commands and a fault or a kill.
FaultOrKill == {<<1, 0, 3>>, <<0, 1, 3>>}
NoTrouble == {<<0, 0, 2>>}

Symmetry == Permutations(Processes)
=============================================================================
