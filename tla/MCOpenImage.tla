----------------------------- MODULE MCOpenImage -----------------------------
(***************************************************************************)
(* Files for OpenImage: sectors of two bytes, entries of one, words of six *)
(* bits. Each family varies what one part of open_inner decides on.        *)
(***************************************************************************)
EXTENDS OpenImage

\* Sector 0 header, 1 descriptor, 2 and 3 the directories, 4 and 5 a table and
\* its copy, 6 and 7 grains.
Header == [magic |-> "KDMV", version |-> 1, compress |-> 0, rgdFlag |-> TRUE,
           capacity |-> 4, grainSize |-> 1, descOffset |-> 1, descSize |-> 1,
           gtes |-> 2, rgdOffset |-> 3, gdOffset |-> 2, overHead |-> 6]

Text == [utf8 |-> TRUE, blank |-> FALSE, banner |-> TRUE, keys |-> TRUE,
         createType |-> "monolithicSparse", hint |-> "absent", parentCid |-> "sentinel",
         extents |-> <<[kind |-> "SPARSE", sectors |-> 4]>>, cid |-> "writable"]

File == [size |-> 16, header |-> Header, footer |-> Header, text |-> Text,
         gd |-> 0 :> 4, rgd |-> 0 :> 5]

\* One field of the header is not what it should be.
Headers ==
    {Header}
    \cup {[Header EXCEPT !.magic = m] : m \in {"COWD", "other"}}
    \cup {[Header EXCEPT !.version = v, !.compress = c] : v \in {0, 2, 3}, c \in {0, 1, 2}}
    \cup {[Header EXCEPT !.grainSize = n] : n \in {0, 2, 3, 32}}
    \cup {[Header EXCEPT !.gtes = n] : n \in {0, 1, 5}}
    \cup {[Header EXCEPT !.capacity = n] : n \in {0, 5, 31, 32}}
    \cup {[Header EXCEPT !.descOffset = n] : n \in {0, 7, 8, 40}}
    \cup {[Header EXCEPT !.descSize = n] : n \in {0, 2, 40}}
    \cup {[Header EXCEPT !.gdOffset = n] : n \in {0, 1, 8, 40, 63}}
    \cup {[Header EXCEPT !.rgdOffset = n, !.rgdFlag = f] : n \in {0, 2, 8, 40}, f \in BOOLEAN}
    \cup {[Header EXCEPT !.overHead = n] : n \in {0, 7, 9}}

\* One statement of the descriptor is not what it should be.
Texts ==
    {Text, [Text EXCEPT !.utf8 = FALSE], [Text EXCEPT !.blank = TRUE],
     [Text EXCEPT !.cid = "unwritable"], [Text EXCEPT !.extents = <<>>],
     [Text EXCEPT !.extents = @ \o @], [Text EXCEPT !.extents[1].kind = "FLAT"],
     [Text EXCEPT !.extents[1].sectors = 5], [Text EXCEPT !.banner = FALSE],
     [Text EXCEPT !.banner = FALSE, !.keys = FALSE]}
    \cup {[Text EXCEPT !.createType = c] : c \in {"absent", "streamOptimized", "vmfsSparse"}}
    \cup {[Text EXCEPT !.hint = h, !.parentCid = c] :
            h \in {"empty", "named"}, c \in {"absent", "sentinel", "other"}}

JudgedFiles == {[File EXCEPT !.header = h, !.text = t] : h \in Headers, t \in Texts}

\* Files that are no sparse extent, down to an empty one.
PlainFiles == {[File EXCEPT !.size = s, !.header.magic = m, !.text = t] :
                 s \in {0, 1, 6, 7}, m \in {"KDMV", "other"}, t \in Texts}

\* A file laid out for a disk of n sectors.
Sized(n, f) == [f EXCEPT !.header.capacity = n, !.text.extents[1].sectors = n]

\* Geometry and table pointers, sound and unsound.
GeometryFiles ==
    {[Sized(n, File) EXCEPT !.header.grainSize = g, !.header.gtes = e, !.header.overHead = o,
                            !.header.gdOffset = d, !.gd = 0 :> p @@ 1 :> q] :
       n \in 0 .. 5, g \in 1 .. 3, e \in 1 .. 2, o \in {0, 6}, d \in {2, 6},
       p \in {4, 7}, q \in {0, 1, 4, 5, 6, 8}}

\* Streams, their directory in the header or in the footer.
Stream == [Header EXCEPT !.version = 3, !.compress = 1, !.rgdFlag = FALSE]
StreamFiles ==
    {[File EXCEPT !.header = [Stream EXCEPT !.gdOffset = d, !.grainSize = g],
                  !.footer = f, !.size = s, !.text.createType = c] :
       d \in {2, 63}, g \in {1, 3}, s \in {3, 16},
       f \in {Stream, Header, [Stream EXCEPT !.gdOffset = 63], [Stream EXCEPT !.grainSize = 0],
              [Stream EXCEPT !.gdOffset = 5, !.rgdFlag = TRUE]},
       c \in {"monolithicSparse", "streamOptimized"}}

\* Three or six tables anywhere in the file, of one sector or two: apart, touching,
\* bridging, overlapping.
TableFiles ==
    {[Sized(3 * e, File) EXCEPT !.size = 20, !.header.gtes = e, !.header.overHead = 0,
                                !.header.rgdFlag = f, !.header.rgdOffset = 4,
                                !.gd = 0 :> p @@ 1 :> q @@ 2 :> s, !.rgd = 0 :> s @@ 1 :> r] :
       e \in {2, 4}, f \in BOOLEAN, p \in 6 .. 9, q \in 5 .. 9, s \in 6 .. 10, r \in {0, 8}}

\* A last sector that is not whole, with a directory, a table or a grain in it or
\* reaching into it.
RaggedFiles ==
    {[Sized(n, File) EXCEPT !.size = b, !.header.gdOffset = g, !.header.rgdOffset = r,
                            !.header.gtes = e, !.header.overHead = 0, !.gd = 0 :> p @@ 1 :> q] :
       n \in {3, 6}, b \in {15, 17}, g \in {2, 7}, r \in {3, 7, 8}, e \in 1 .. 3,
       p \in {4, 7, 8}, q \in {0, 5}}

\* A grain so large that a pointer and an offset within it pass the largest word.
HugeGrains ==
    {[Sized(n, File) EXCEPT !.header.grainSize = n, !.header.overHead = o] :
       n \in {28, 31}, o \in {0, 6}}

AllFiles ==
    JudgedFiles \cup PlainFiles \cup GeometryFiles \cup StreamFiles \cup TableFiles
    \cup RaggedFiles \cup HugeGrains
=============================================================================
