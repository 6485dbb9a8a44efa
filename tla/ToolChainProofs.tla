--------------------------- MODULE ToolChainProofs ---------------------------
(***************************************************************************)
(* What the tool chain guarantees for programs, stubs and manifests of any   *)
(* size.  ContainerProofs has the facts about loops, sets of positions, the  *)
(* runtime module and the container; here are the linked file, the writer of *)
(* the module, and the theorems about a build.                              *)
(***************************************************************************)
EXTENDS ContainerProofs

-----------------------------------------------------------------------------
(* The linked file.                                                         *)

SegmentNames == {row.segment : row \in ToSet(Script)} \cup {"no segment"}
SectionRecord == [name : SectionNames \cup {"unnamed"}, at : Int, size : Int, offset : Int, alignment : Int]
LinkState == [dot : Int, offset : Int, segment : SegmentNames, first : SectionRecord, section : SectionRecord]

(* The sections of the linker script, their segments and where pages start.   *)
LEMMA ScriptIs ==
  /\ Len(Script) = 15 /\ DOMAIN Script = 1 .. 15
  /\ \A i \in 1 .. 15 : Script[i].name \in SectionNames /\ Script[i].segment \in SegmentNames
  /\ \A name \in SectionNames : \E i \in 1 .. 15 : name = Script[i].name
  /\ \A i, j \in 1 .. 15 : Script[i].name = Script[j].name => i = j
  /\ \A i \in 1 .. 15 : Script[i].paged <=> i \in {1, 2, 5, 11}
  /\ \A i \in 2 .. 15 : Script[i].paged \/ Script[i].segment = Script[i - 1].segment
  /\ Script[1].name = ".text" /\ Script[2].name = ".eh_frame_hdr" /\ Script[3].name = ".eh_frame" /\ Script[4].name = ".rodata"
  /\ Script[5].name = ".data.rel.ro" /\ Script[6].name = ".got" /\ Script[7].name = ".init_array" /\ Script[8].name = ".dynsym"
  /\ Script[9].name = ".rela.dyn" /\ Script[10].name = ".rela.plt" /\ Script[11].name = ".dynamic" /\ Script[12].name = ".data"
  /\ Script[13].name = ".tdata" /\ Script[14].name = ".tbss" /\ Script[15].name = ".bss"
  /\ \A i \in 1 .. 15 : Script[i].segment # "no segment"
<1> DEFINE row(name, segment, paged) == [name |-> name, segment |-> segment, paged |-> paged]
<1>1. Len(Script) = 15 /\ DOMAIN Script = 1 .. 15
  BY SMT DEF Script
<1>2. /\ Script[1] = row(".text", "text", TRUE) /\ Script[2] = row(".eh_frame_hdr", "ro", TRUE)
      /\ Script[3] = row(".eh_frame", "ro", FALSE) /\ Script[4] = row(".rodata", "ro", FALSE)
      /\ Script[5] = row(".data.rel.ro", "relro", TRUE) /\ Script[6] = row(".got", "relro", FALSE)
      /\ Script[7] = row(".init_array", "relro", FALSE) /\ Script[8] = row(".dynsym", "relro", FALSE)
  BY SMT DEF Script
<1>3. /\ Script[9] = row(".rela.dyn", "relro", FALSE) /\ Script[10] = row(".rela.plt", "relro", FALSE)
      /\ Script[11] = row(".dynamic", "data", TRUE) /\ Script[12] = row(".data", "data", FALSE)
      /\ Script[13] = row(".tdata", "data", FALSE) /\ Script[14] = row(".tbss", "data", FALSE) /\ Script[15] = row(".bss", "data", FALSE)
  BY SMT DEF Script
<1>4. \A i \in 1 .. 15 : i = 1 \/ i = 2 \/ i = 3 \/ i = 4 \/ i = 5 \/ i = 6 \/ i = 7 \/ i = 8 \/ i = 9 \/ i = 10
                         \/ i = 11 \/ i = 12 \/ i = 13 \/ i = 14 \/ i = 15
  OBVIOUS
<1>5. /\ \A i \in 1 .. 15 : Script[i].name \in SectionNames /\ Script[i].segment \in SegmentNames
      /\ \A name \in SectionNames : \E i \in 1 .. 15 : name = Script[i].name
  BY <1>1, Zenon DEF SectionNames, SegmentNames, ToSet
<1>6. "text" # "no segment" /\ "ro" # "no segment" /\ "relro" # "no segment" /\ "data" # "no segment"
  OBVIOUS
<1>7. /\ Script[1].paged /\ Script[2].paged /\ ~Script[3].paged /\ ~Script[4].paged /\ Script[5].paged /\ ~Script[6].paged
      /\ ~Script[7].paged /\ ~Script[8].paged
  BY <1>2
<1>8. /\ ~Script[9].paged /\ ~Script[10].paged /\ Script[11].paged
      /\ ~Script[12].paged /\ ~Script[13].paged /\ ~Script[14].paged /\ ~Script[15].paged
  BY <1>3
<1>9. /\ Script[1].segment = "text"
      /\ \A i \in 2 .. 4 : Script[i].segment = "ro"
      /\ \A i \in 5 .. 10 : Script[i].segment = "relro"
      /\ \A i \in 11 .. 15 : Script[i].segment = "data"
  <2>1. /\ Script[1].segment = "text" /\ Script[2].segment = "ro" /\ Script[3].segment = "ro" /\ Script[4].segment = "ro"
        /\ Script[5].segment = "relro" /\ Script[6].segment = "relro" /\ Script[7].segment = "relro" /\ Script[8].segment = "relro"
    BY <1>2
  <2>4. /\ Script[9].segment = "relro" /\ Script[10].segment = "relro" /\ Script[11].segment = "data" /\ Script[12].segment = "data"
        /\ Script[13].segment = "data" /\ Script[14].segment = "data" /\ Script[15].segment = "data"
    BY <1>3
  <2>2. (\A i \in 2 .. 4 : i = 2 \/ i = 3 \/ i = 4) /\ (\A i \in 5 .. 10 : i = 5 \/ i = 6 \/ i = 7 \/ i = 8 \/ i = 9 \/ i = 10)
        /\ \A i \in 11 .. 15 : i = 11 \/ i = 12 \/ i = 13 \/ i = 14 \/ i = 15
    OBVIOUS
  <2>3. QED
    BY <2>1, <2>2, <2>4
<1>10. /\ Script[1].name = ".text" /\ Script[2].name = ".eh_frame_hdr" /\ Script[3].name = ".eh_frame" /\ Script[4].name = ".rodata"
       /\ Script[5].name = ".data.rel.ro" /\ Script[6].name = ".got" /\ Script[7].name = ".init_array" /\ Script[8].name = ".dynsym"
  BY <1>2
<1>15. /\ Script[9].name = ".rela.dyn" /\ Script[10].name = ".rela.plt" /\ Script[11].name = ".dynamic" /\ Script[12].name = ".data"
       /\ Script[13].name = ".tdata" /\ Script[14].name = ".tbss" /\ Script[15].name = ".bss"
  BY <1>3
<1>11. \A i \in 1 .. 15 : Script[i].paged <=> i \in {1, 2, 5, 11}
  <2> DEFINE p(i) == Script[i].paged
  <2> HIDE DEF p
  <2>1. /\ p(1) /\ p(2) /\ ~p(3) /\ ~p(4) /\ p(5) /\ ~p(6) /\ ~p(7) /\ ~p(8) /\ ~p(9) /\ ~p(10) /\ p(11)
        /\ ~p(12) /\ ~p(13) /\ ~p(14) /\ ~p(15)
    BY <1>7, <1>8, Zenon DEF p
  <2>2. \A i \in 1 .. 15 : p(i) <=> i \in {1, 2, 5, 11}
    BY <1>4, <2>1, SMT
  <2>3. QED
    BY <2>2, Zenon DEF p
<1>12. \A i \in 1 .. 15 : Script[i].segment # "no segment"
  <2>1. \A i \in 1 .. 15 : i = 1 \/ i \in 2 .. 4 \/ i \in 5 .. 10 \/ i \in 11 .. 15
    OBVIOUS
  <2>2. QED
    BY <1>6, <1>9, <2>1, Zenon
<1>13. \A i \in 2 .. 15 : Script[i].paged \/ Script[i].segment = Script[i - 1].segment
  <2> TAKE i \in 2 .. 15
  <2>1. i \in {2, 5, 11} \/ (i \in 3 .. 4 /\ i - 1 \in 2 .. 4) \/ (i \in 6 .. 10 /\ i - 1 \in 5 .. 10) \/ (i \in 12 .. 15 /\ i - 1 \in 11 .. 15)
    OBVIOUS
  <2>2. (i \in 3 .. 4 => i \in 2 .. 4) /\ (i \in 6 .. 10 => i \in 5 .. 10) /\ (i \in 12 .. 15 => i \in 11 .. 15)
    OBVIOUS
  <2>3. CASE i \in {2, 5, 11}
    BY <1>7, <1>8, <2>3
  <2>4. QED
    BY <1>9, <2>1, <2>2, <2>3
<1>16. \A i, j \in 1 .. 15 : Script[i].name = Script[j].name => i = j
  <2> DEFINE name(i) == Script[i].name
  <2>1. /\ name(1) = ".text" /\ name(2) = ".eh_frame_hdr" /\ name(3) = ".eh_frame" /\ name(4) = ".rodata"
        /\ name(5) = ".data.rel.ro" /\ name(6) = ".got" /\ name(7) = ".init_array" /\ name(8) = ".dynsym"
        /\ name(9) = ".rela.dyn" /\ name(10) = ".rela.plt" /\ name(11) = ".dynamic" /\ name(12) = ".data"
        /\ name(13) = ".tdata" /\ name(14) = ".tbss" /\ name(15) = ".bss"
    BY <1>10, <1>15, Zenon
  <2> HIDE DEF name
  <2>2. \A i, j \in 1 .. 15 : name(i) = name(j) => i = j
    BY <1>4, <2>1, SMT
  <2>3. QED
    BY <2>2, Zenon DEF name
<1>14. QED
  BY <1>1, <1>5, <1>10, <1>11, <1>12, <1>13, <1>15, <1>16, Zenon

(* Rounding up to the alignments in use.                                     *)
LEMMA AlignUpIs ==
  ASSUME NEW v \in Int
  PROVE  /\ AlignUp(v, 8) \in Int /\ AlignUp(v, 8) >= v /\ AlignUp(v, 8) < v + 8 /\ AlignUp(v, 8) % 8 = 0
         /\ AlignUp(v, 4) \in Int /\ AlignUp(v, 4) >= v /\ AlignUp(v, 4) < v + 4 /\ AlignUp(v, 4) % 4 = 0
         /\ AlignUp(v, 16) \in Int /\ AlignUp(v, 16) >= v /\ AlignUp(v, 16) < v + 16 /\ AlignUp(v, 16) % 16 = 0 /\ AlignUp(v, 16) % 8 = 0
         /\ AlignUp(v, Page) \in Int /\ AlignUp(v, Page) >= v /\ AlignUp(v, Page) < v + Page /\ AlignUp(v, Page) % Page = 0
         /\ v % 8 = 0 => AlignUp(v, 8) = v
         /\ v % Page = 0 => AlignUp(v, Page) = v /\ AlignUp(v, 8) = v
<1>1. /\ AlignUp(v, 8) \in Int /\ AlignUp(v, 8) >= v /\ AlignUp(v, 8) < v + 8 /\ AlignUp(v, 8) % 8 = 0
      /\ v % 8 = 0 => AlignUp(v, 8) = v
  BY SMT DEF AlignUp
<1>2. AlignUp(v, 4) \in Int /\ AlignUp(v, 4) >= v /\ AlignUp(v, 4) < v + 4 /\ AlignUp(v, 4) % 4 = 0
  BY SMT DEF AlignUp
<1>3. AlignUp(v, 16) \in Int /\ AlignUp(v, 16) >= v /\ AlignUp(v, 16) < v + 16 /\ AlignUp(v, 16) % 16 = 0 /\ AlignUp(v, 16) % 8 = 0
  BY SMT DEF AlignUp
<1>4. AlignUp(v, Page) \in Int /\ AlignUp(v, Page) >= v /\ AlignUp(v, Page) < v + Page /\ AlignUp(v, Page) % Page = 0
      /\ (v % Page = 0 => AlignUp(v, Page) = v /\ AlignUp(v, 8) = v)
  BY SMT DEF AlignUp, Page
<1>5. QED
  BY <1>1, <1>2, <1>3, <1>4

(* congruent_offset() rounds up to the next offset that agrees with the      *)
(* address.                                                                  *)
LEMMA CongruentIs ==
  ASSUME NEW m \in Int, NEW a \in Int
  PROVE  /\ CongruentOffset(m, a) \in Int /\ CongruentOffset(m, a) >= m /\ CongruentOffset(m, a) % Page = a % Page
         /\ a >= 0 /\ a % Page = 0 /\ a < m /\ m <= a + Page => CongruentOffset(m, a) = a + Page
<1> DEFINE residue == a % Page
           up == AlignUp(m - residue, Page)
<1>1. residue \in Int /\ residue >= 0 /\ residue < Page /\ residue % Page = residue
  BY SMT DEF Page
<1> HIDE DEF residue
<1>2. up \in Int /\ up >= m - residue /\ up % Page = 0 /\ up < m - residue + Page
  <2>1. m - residue \in Int
    BY <1>1
  <2> DEFINE v == m - residue
  <2> HIDE DEF v
  <2>2. v \in Int
    BY <2>1 DEF v
  <2>3. AlignUp(v, Page) \in Int /\ AlignUp(v, Page) >= v /\ AlignUp(v, Page) < v + Page /\ AlignUp(v, Page) % Page = 0
    BY <2>2, AlignUpIs
  <2>4. QED
    BY <2>3, <2>1, <1>1, SMT DEF v, Page
<1> HIDE DEF up
<1>3. CongruentOffset(m, a) = IF m <= residue THEN residue ELSE up + residue
  BY Zenon DEF CongruentOffset, residue, up
<1>4. (up + residue) % Page = residue
  BY <1>1, <1>2, SMT DEF Page
<1>5. a >= 0 /\ residue = 0 /\ a < m /\ m <= a + Page => m > residue /\ up + residue = a + Page
  BY <1>1, <1>2, SMT DEF Page, residue
<1>6. QED
  BY <1>1, <1>2, <1>3, <1>4, <1>5, SMT DEF residue

-----------------------------------------------------------------------------
(* What the tools make can be signed.                                       *)

Arrangement ==
  << "LOAD", "LOAD", "LOAD", "GNU_RELRO", "LOAD", "PARAM", "DYNAMIC", "TLS", "EH_FRAME", "LOAD", "COMMENT", "VERSION", "NOTE", "NOTE" >>

(* Fourteen headers in the writers' order, whose bytes are in the file.        *)
Arranged(e) ==
  /\ e.size \in Nat /\ DOMAIN e.headers = 1 .. HeaderCount /\ e.headers \in Seq(HeaderRecord) /\ Len(e.headers) = HeaderCount
  /\ \A i \in 1 .. HeaderCount : e.headers[i].type = Arrangement[i] \/ (i = 6 /\ e.headers[i].type \notin {"LOAD", "VERSION"})
  /\ \A i \in 1 .. HeaderCount : e.headers[i].offset + e.headers[i].size <= e.size
  /\ \A i \in {1, 2, 3, 5, 10} : e.headers[i].size # 0

(* An ELF whose headers are arranged as the writer does it can be signed.    *)
LEMMA ArrangedSignable ==
  ASSUME NEW e, Arranged(e)
  PROVE  Signable(e)
<1> DEFINE t(i) == e.headers[i].type
<1>1. \A i \in 1 .. HeaderCount : i \in {1, 2, 3, 5, 10} \/ i \in {4, 6, 7, 8, 9, 11, 13, 14} \/ i = 12
  BY SMT DEF HeaderCount
<1>2. {1, 2, 3, 5, 10} \subseteq 1 .. HeaderCount /\ {4, 6, 7, 8, 9, 11, 13, 14} \subseteq 1 .. HeaderCount /\ 12 \in 1 .. HeaderCount
  BY SMT DEF HeaderCount
<1>3. /\ Arrangement[1] = "LOAD" /\ Arrangement[2] = "LOAD" /\ Arrangement[3] = "LOAD" /\ Arrangement[4] = "GNU_RELRO"
      /\ Arrangement[5] = "LOAD" /\ Arrangement[7] = "DYNAMIC" /\ Arrangement[8] = "TLS" /\ Arrangement[9] = "EH_FRAME"
      /\ Arrangement[10] = "LOAD" /\ Arrangement[11] = "COMMENT" /\ Arrangement[12] = "VERSION" /\ Arrangement[13] = "NOTE"
      /\ Arrangement[14] = "NOTE"
  BY SMT DEF Arrangement
<1>4. \A i \in 1 .. HeaderCount : t(i) = Arrangement[i] \/ (i = 6 /\ t(i) \notin {"LOAD", "VERSION"})
  BY DEF Arranged
<1> HIDE DEF t
<1>5. /\ \A i \in {1, 2, 3, 5, 10} : t(i) = "LOAD"
      /\ \A i \in {4, 6, 7, 8, 9, 11, 13, 14} : t(i) # "LOAD" /\ t(i) # "VERSION"
      /\ t(12) = "VERSION" /\ t(7) = "DYNAMIC"
  <2>1. \A i \in {1, 2, 3, 4, 5, 7, 8, 9, 10, 11, 12, 13, 14} : t(i) = Arrangement[i]
    BY <1>4, SMT DEF HeaderCount
  <2>2. t(6) = Arrangement[6] \/ t(6) \notin {"LOAD", "VERSION"}
    BY <1>4, SMT DEF HeaderCount
  <2>3. Arrangement[6] = "PARAM"
    BY SMT DEF Arrangement
  <2>4. QED
    BY <1>3, <2>1, <2>2, <2>3, SMT
<1>6. \A i \in 1 .. HeaderCount : t(i) = "LOAD" => i \in {1, 2, 3, 5, 10}
  BY <1>1, <1>5
<1>7. \A i \in 1 .. HeaderCount : t(i) = "VERSION" <=> i = 12
  BY <1>1, <1>5, SMT
<1>8. (\E i \in 1 .. HeaderCount : t(i) = "LOAD") /\ \E i \in 1 .. HeaderCount : t(i) = "DYNAMIC"
  <2>1. 1 \in 1 .. HeaderCount /\ 7 \in 1 .. HeaderCount /\ t(1) = "LOAD"
    BY <1>2, <1>5, SMT
  <2>2. QED
    BY <1>5, <2>1
<1>9. \E i \in 1 .. HeaderCount : \A j \in 1 .. HeaderCount : t(j) = "VERSION" <=> j = i
  BY <1>2, <1>7
<1>10. QED
  BY <1>6, <1>8, <1>9, Zenon DEF Arranged, Signable, t

(* The headers of the runtime module are.                                    *)
LEMMA RuntimeArranged == Arranged([size |-> RuntimeFileSize, headers |-> RuntimeHeaders])
<1> DEFINE h == RuntimeHeaders
<1>1. DOMAIN h = 1 .. 14 /\ Len(h) = 14
  BY SMT DEF RuntimeHeaders
<1>2. \A i \in 1 .. 14 : i = 1 \/ i = 2 \/ i = 3 \/ i = 4 \/ i = 5 \/ i = 6 \/ i = 7 \/ i = 8 \/ i = 9 \/ i = 10
                         \/ i = 11 \/ i = 12 \/ i = 13 \/ i = 14
  OBVIOUS
<1>3. \A i \in 1 .. 14 : h[i] \in HeaderRecord
  <2>1. \A type \in HeaderTypes, flags \in HeaderFlags, offset, at, size, memory \in Nat : Row(type, flags, offset, at, size, memory) \in HeaderRecord
    BY DEF Row, HeaderRecord
  <2>2. h[1] \in HeaderRecord /\ h[2] \in HeaderRecord /\ h[3] \in HeaderRecord /\ h[4] \in HeaderRecord
    BY SMT DEF RuntimeHeaders, Row, HeaderRecord, HeaderTypes, HeaderFlags
  <2>3. h[5] \in HeaderRecord /\ h[6] \in HeaderRecord /\ h[7] \in HeaderRecord /\ h[8] \in HeaderRecord
    BY SMT DEF RuntimeHeaders, Row, HeaderRecord, HeaderTypes, HeaderFlags, DataMemorySize, MetadataFileOffset, MetadataAddress
  <2>4. h[9] \in HeaderRecord /\ h[10] \in HeaderRecord /\ h[11] \in HeaderRecord
    BY SMT DEF RuntimeHeaders, Row, HeaderRecord, HeaderTypes, HeaderFlags, MetadataFileOffset, MetadataAddress, MetadataFileSize
  <2>5. h[12] \in HeaderRecord /\ h[13] \in HeaderRecord /\ h[14] \in HeaderRecord
    BY SMT DEF RuntimeHeaders, Row, HeaderRecord, HeaderTypes, HeaderFlags, MetadataFileOffset, MetadataAddress, MetadataFileSize
  <2> HIDE DEF h
  <2>6. QED
    BY <1>2, <2>2, <2>3, <2>4, <2>5
<1>4. h \in Seq(HeaderRecord)
  <2>1. h = [i \in 1 .. 14 |-> h[i]]
    BY <1>1, SMT DEF RuntimeHeaders
  <2> HIDE DEF h
  <2>2. QED
    BY <1>1, <1>3, <2>1
<1>5. \A i \in 1 .. 14 : h[i].offset + h[i].size <= RuntimeFileSize
  <2>1. \A i \in 1 .. 7 : h[i].offset + h[i].size <= RuntimeFileSize
    BY <1>2, SMT DEF RuntimeHeaders, Row, RuntimeFileSize, MetadataFileOffset
  <2>2. \A i \in 8 .. 14 : h[i].offset + h[i].size <= RuntimeFileSize
    BY <1>2, SMT DEF RuntimeHeaders, Row, RuntimeFileSize, MetadataFileOffset, MetadataFileSize
  <2>3. \A i \in 1 .. 14 : i \in 1 .. 7 \/ i \in 8 .. 14
    OBVIOUS
  <2> HIDE DEF h
  <2>4. QED
    BY <2>1, <2>2, <2>3
<1>6. \A i \in 1 .. 14 : h[i].type = Arrangement[i] \/ (i = 6 /\ h[i].type \notin {"LOAD", "VERSION"})
  <2>1. /\ h[1].type = "LOAD" /\ h[2].type = "LOAD" /\ h[3].type = "LOAD" /\ h[4].type = "GNU_RELRO" /\ h[5].type = "LOAD"
        /\ h[6].type \notin {"LOAD", "VERSION"} /\ h[7].type = "DYNAMIC"
    BY SMT DEF RuntimeHeaders, Row
  <2>2. /\ h[8].type = "TLS" /\ h[9].type = "EH_FRAME" /\ h[10].type = "LOAD" /\ h[11].type = "COMMENT"
        /\ h[12].type = "VERSION" /\ h[13].type = "NOTE" /\ h[14].type = "NOTE"
    BY SMT DEF RuntimeHeaders, Row
  <2>3. /\ Arrangement[1] = "LOAD" /\ Arrangement[2] = "LOAD" /\ Arrangement[3] = "LOAD" /\ Arrangement[4] = "GNU_RELRO"
        /\ Arrangement[5] = "LOAD" /\ Arrangement[7] = "DYNAMIC" /\ Arrangement[8] = "TLS" /\ Arrangement[9] = "EH_FRAME"
        /\ Arrangement[10] = "LOAD" /\ Arrangement[11] = "COMMENT" /\ Arrangement[12] = "VERSION" /\ Arrangement[13] = "NOTE"
        /\ Arrangement[14] = "NOTE"
    BY SMT DEF Arrangement
  <2> DEFINE t(i) == h[i].type
             a(i) == Arrangement[i]
  <2> HIDE DEF h, t, a
  <2>4. /\ t(1) = a(1) /\ t(2) = a(2) /\ t(3) = a(3) /\ t(4) = a(4) /\ t(5) = a(5) /\ t(6) \notin {"LOAD", "VERSION"} /\ t(7) = a(7)
        /\ t(8) = a(8) /\ t(9) = a(9) /\ t(10) = a(10) /\ t(11) = a(11) /\ t(12) = a(12) /\ t(13) = a(13) /\ t(14) = a(14)
    BY <2>1, <2>2, <2>3, ZenonT(40) DEF t, a
  <2>5. \A i \in 1 .. 14 : t(i) = a(i) \/ (i = 6 /\ t(i) \notin {"LOAD", "VERSION"})
    BY <1>2, <2>4
  <2>6. QED
    BY <2>5, Zenon DEF t, a
<1>7. \A i \in {1, 2, 3, 5, 10} : h[i].size # 0
  BY SMT DEF RuntimeHeaders, Row, MetadataFileSize
<1>8. RuntimeFileSize \in Nat
  BY SMT DEF RuntimeFileSize
<1> HIDE DEF h
<1>9. QED
  BY <1>1, <1>3, <1>4, <1>5, <1>6, <1>7, <1>8, Zenon DEF Arranged, HeaderCount, h

(* The linker's turn for one section of the script, and all its turns.        *)
Sizing == [SectionNames -> Nat]
AddressOf(state, row) == AlignUp(state.dot, IF row.paged THEN Page ELSE 8)
FreshIn(state, row) == row.segment # state.segment
OffsetOf(state, row) ==
  IF FreshIn(state, row) THEN CongruentOffset(state.offset, AddressOf(state, row))
  ELSE state.first.offset + (AddressOf(state, row) - state.first.at)
SectionIn(sizes, state, row) ==
  [name |-> row.name, at |-> AddressOf(state, row), size |-> sizes[row.name], offset |-> OffsetOf(state, row), alignment |-> 8]

(* The fields of a section as the linker puts it down.                       *)
LEMMA SectionInIs ==
  ASSUME NEW sizes, NEW state, NEW row
  PROVE  LET s == SectionIn(sizes, state, row)
         IN  /\ s.name = row.name /\ s.at = AddressOf(state, row) /\ s.size = sizes[row.name] /\ s.offset = OffsetOf(state, row)
             /\ s = [name |-> s.name, at |-> s.at, size |-> s.size, offset |-> s.offset, alignment |-> 8]
BY DEF SectionIn

(* The fields of the linker's state.                                         *)
LEMMA StateIs ==
  ASSUME NEW state \in LinkState
  PROVE  /\ state.dot \in Int /\ state.offset \in Int /\ state.segment \in SegmentNames
         /\ state.first \in SectionRecord /\ state.section \in SectionRecord
         /\ state.first.at \in Int /\ state.first.offset \in Int
BY DEF LinkState, SectionRecord

(* A section without contents is passed over, any other is put down.          *)
PassedOver(state, row, after) ==
  /\ after.dot = IF row.paged THEN AddressOf(state, row) ELSE state.dot
  /\ after.offset = state.offset /\ after.segment = state.segment
  /\ after.first = state.first /\ after.section = state.section
PutDown(sizes, state, row, after) ==
  /\ after.dot = (IF row.name = ".tbss" THEN state.dot ELSE AddressOf(state, row) + sizes[row.name])
  /\ after.offset = (IF row.name \in {".tbss", ".bss"} THEN state.offset ELSE OffsetOf(state, row) + sizes[row.name])
  /\ after.segment = row.segment
  /\ after.first = (IF FreshIn(state, row) THEN SectionIn(sizes, state, row) ELSE state.first)
  /\ after.section = SectionIn(sizes, state, row)
Whole(state) ==
  state = [dot |-> state.dot, offset |-> state.offset, segment |-> state.segment, first |-> state.first, section |-> state.section]

(* A row of the script is passed over when its section is empty, and put     *)
(* down otherwise.                                                           *)
LEMMA PlaceIs ==
  ASSUME NEW sizes, NEW state \in LinkState, NEW row
  PROVE  /\ sizes[row.name] = 0 => PassedOver(state, row, Place(sizes, state, row))
         /\ sizes[row.name] # 0 => PutDown(sizes, state, row, Place(sizes, state, row))
         /\ Whole(Place(sizes, state, row))
<1> DEFINE after == Place(sizes, state, row)
           section == SectionIn(sizes, state, row)
           empty == [state EXCEPT !.dot = IF row.paged THEN AddressOf(state, row) ELSE state.dot]
           filled == [dot |-> IF row.name = ".tbss" THEN state.dot ELSE AddressOf(state, row) + section.size,
                      offset |-> IF NoBits(section) THEN state.offset ELSE OffsetOf(state, row) + section.size,
                      segment |-> row.segment,
                      first |-> IF FreshIn(state, row) THEN section ELSE state.first,
                      section |-> section]
<1>1. after = IF sizes[row.name] = 0 THEN empty ELSE filled
  BY Zenon DEF Place, SectionIn, OffsetOf, AddressOf, FreshIn
<1>2. section.name = row.name /\ section.size = sizes[row.name]
  BY SectionInIs
<1>3. NoBits(section) <=> row.name \in {".tbss", ".bss"}
  BY <1>2 DEF NoBits
<1>4. CASE sizes[row.name] = 0
  <2>1. after = empty
    BY <1>1, <1>4
  <2> HIDE DEF after
  <2>2. PassedOver(state, row, after) /\ Whole(after)
    BY <2>1 DEF LinkState, PassedOver, Whole
  <2>3. QED
    BY <1>4, <2>2 DEF after
<1>5. CASE sizes[row.name] # 0
  <2>1. after = filled
    BY <1>1, <1>5
  <2> HIDE DEF after, section
  <2>2. /\ after.dot = (IF row.name = ".tbss" THEN state.dot ELSE AddressOf(state, row) + section.size)
        /\ after.offset = (IF NoBits(section) THEN state.offset ELSE OffsetOf(state, row) + section.size)
        /\ after.segment = row.segment
        /\ after.first = (IF FreshIn(state, row) THEN section ELSE state.first)
        /\ after.section = section
        /\ Whole(after)
    BY <2>1 DEF Whole
  <2>3. QED
    BY <1>2, <1>3, <1>5, <2>2 DEF after, section, PutDown
<1>6. QED
  BY <1>4, <1>5

(* A row keeps the state's type and only moves forward.                      *)
LEMMA TurnIs ==
  ASSUME NEW sizes \in Sizing, NEW state \in LinkState, NEW i \in 1 .. 15
  PROVE  /\ Place(sizes, state, Script[i]) \in LinkState
         /\ AddressOf(state, Script[i]) \in Int /\ OffsetOf(state, Script[i]) \in Int
         /\ AddressOf(state, Script[i]) >= state.dot /\ AddressOf(state, Script[i]) % 8 = 0
         /\ Script[i].paged => AddressOf(state, Script[i]) % Page = 0
<1> DEFINE row == Script[i]
           after == Place(sizes, state, row)
<1>1. row.name \in SectionNames /\ row.segment \in SegmentNames /\ sizes[row.name] \in Nat
  BY ScriptIs DEF Sizing
<1> HIDE DEF row
<1>2. /\ state.dot \in Int /\ state.offset \in Int /\ state.segment \in SegmentNames
      /\ state.first \in SectionRecord /\ state.section \in SectionRecord /\ state.first.at \in Int /\ state.first.offset \in Int
  BY StateIs
<1>3. /\ AddressOf(state, row) \in Int /\ AddressOf(state, row) >= state.dot /\ AddressOf(state, row) % 8 = 0
      /\ row.paged => AddressOf(state, row) % Page = 0
  <2> DEFINE v == state.dot
  <2>1. v \in Int
    BY <1>2
  <2> HIDE DEF v
  <2>2. /\ AlignUp(v, 8) \in Int /\ AlignUp(v, 8) >= v /\ AlignUp(v, 8) % 8 = 0
        /\ AlignUp(v, Page) \in Int /\ AlignUp(v, Page) >= v /\ AlignUp(v, Page) % Page = 0
    BY <2>1, AlignUpIs
  <2>3. AlignUp(v, Page) % 8 = 0
    BY <2>2, SMT DEF Page
  <2>4. AddressOf(state, row) = IF row.paged THEN AlignUp(v, Page) ELSE AlignUp(v, 8)
    BY DEF AddressOf, v
  <2>5. QED
    BY <2>2, <2>3, <2>4 DEF v
<1>4. CongruentOffset(state.offset, AddressOf(state, row)) \in Int
  BY <1>2, <1>3, CongruentIs
<1>5. OffsetOf(state, row) \in Int
  BY <1>2, <1>3, <1>4 DEF OffsetOf
<1>6. SectionIn(sizes, state, row) \in SectionRecord
  BY <1>1, <1>3, <1>5 DEF SectionIn, SectionRecord
<1>7. after \in LinkState
  <2>1. /\ sizes[row.name] = 0 => PassedOver(state, row, after)
        /\ sizes[row.name] # 0 => PutDown(sizes, state, row, after)
        /\ Whole(after)
    BY PlaceIs
  <2> HIDE DEF after
  <2>2. CASE sizes[row.name] = 0
    <3>1. /\ after.dot \in Int /\ after.offset \in Int /\ after.segment \in SegmentNames
          /\ after.first \in SectionRecord /\ after.section \in SectionRecord
      BY <1>2, <1>3, <2>1, <2>2 DEF PassedOver
    <3>2. QED
      BY <2>1, <3>1 DEF LinkState, Whole
  <2>3. CASE sizes[row.name] # 0
    <3>1. /\ after.dot \in Int /\ after.offset \in Int /\ after.segment \in SegmentNames
          /\ after.first \in SectionRecord /\ after.section \in SectionRecord
      BY <1>1, <1>2, <1>3, <1>5, <1>6, <2>1, <2>3 DEF PutDown
    <3>2. QED
      BY <2>1, <3>1 DEF LinkState, Whole
  <2>4. QED
    BY <2>2, <2>3
<1>8. QED
  BY <1>3, <1>5, <1>7 DEF row

Ground == [dot |-> 0, offset |-> \h40, segment |-> "no segment", first |-> NoSection, section |-> NoSection]

(* The linker goes through the script row by row.                            *)
LEMMA LaidIs ==
  ASSUME NEW sizes \in Sizing
  PROVE  /\ Laid(sizes)[0] = Ground
         /\ \A i \in 0 .. 15 : Laid(sizes)[i] \in LinkState
         /\ \A i \in 1 .. 15 : Laid(sizes)[i] = Place(sizes, Laid(sizes)[i - 1], Script[i])
<1> DEFINE Turn(f) == [i \in 0 .. 15 |-> IF i = 0 THEN Ground ELSE Place(sizes, f[i - 1], Script[i])]
           step == [i \in 1 .. 15 |-> [x \in LinkState |-> Place(sizes, x, Script[i])]]
           c == Laid(sizes)
<1>1. Len(Script) = 15
  BY ScriptIs
<1>2. step \in Turns(LinkState, 15)
  BY TurnIs, Zenon DEF Turns
<1>3. Ground \in LinkState
  BY SMT DEF Ground, LinkState, SegmentNames, SectionRecord, NoSection
<1>4. PICK f : Loops(LinkState, Ground, 15, step, f)
  <2> HIDE DEF step
  <2>1. 15 \in Nat
    OBVIOUS
  <2>2. QED
    BY <1>2, <1>3, <2>1, Iteration
<1>5. f = Turn(f)
  <2>1. \A i \in 0 .. 15 : f[i] = Turn(f)[i]
    <3>1. SUFFICES ASSUME NEW i \in 0 .. 15 PROVE f[i] = Turn(f)[i]
      OBVIOUS
    <3>2. CASE i = 0
      BY <1>4, <3>2 DEF Loops
    <3>3. CASE i # 0
      <4>1. i \in 1 .. 15 /\ i - 1 \in 0 .. 15
        BY <3>3
      <4>2. f[i - 1] \in LinkState
        BY <1>4, <4>1 DEF Loops
      <4>3. f[i] = step[i][f[i - 1]] /\ step[i][f[i - 1]] = Place(sizes, f[i - 1], Script[i])
        BY <1>4, <4>1, <4>2 DEF Loops
      <4>4. QED
        BY <3>3, <4>1, <4>3
    <3>4. QED
      BY <3>2, <3>3
  <2>2. f \in [0 .. 15 -> LinkState]
    BY <1>4 DEF Loops
  <2>3. QED
    BY <2>1, <2>2
<1>6. c = Turn(c)
  <2>1. c = CHOOSE g : g = Turn(g)
    BY <1>1, Zenon DEF Laid, Ground
  <2> HIDE DEF Turn, c
  <2>2. QED
    BY <1>5, <2>1
<1>7. c[0] = Ground /\ \A i \in 1 .. 15 : c[i] = Place(sizes, c[i - 1], Script[i])
  <2>1. 0 \in 0 .. 15 /\ \A i \in 1 .. 15 : i \in 0 .. 15 /\ i # 0
    OBVIOUS
  <2>2. \A i \in 0 .. 15 : Turn(c)[i] = IF i = 0 THEN Ground ELSE Place(sizes, c[i - 1], Script[i])
    OBVIOUS
  <2> HIDE DEF c, Turn
  <2>3. QED
    BY <1>6, <2>1, <2>2
<1>8. \A i \in 0 .. 15 : c[i] \in LinkState
  <2> HIDE DEF c
  <2>1. ASSUME NEW i \in 1 .. 15, c[i - 1] \in LinkState PROVE c[i] \in LinkState
    BY <1>7, <2>1, TurnIs
  <2>2. 15 \in Nat
    OBVIOUS
  <2>3. QED
    BY <1>3, <1>7, <2>1, <2>2, Invariance
<1>9. QED
  BY <1>7, <1>8

(* The file keeps a page's distance from memory, but for pages left out: that  *)
(* makes every section lie in the file one page behind its address.           *)
Firm(i, s) ==
  /\ s.dot >= 0
  /\ s.offset = s.dot + Page \/ (s.dot % Page = 0 /\ s.dot < s.offset /\ s.offset <= s.dot + Page)
  /\ s.segment # "no segment" => s.first.offset = s.first.at + Page
  /\ s.dot % Page = 0 \/ (i >= 1 /\ s.segment = Script[i].segment)

(* One row keeps the distance between offset and address.                    *)
LEMMA FirmTurn ==
  ASSUME NEW sizes \in Sizing, NEW i \in 1 .. 15, NEW state \in LinkState, Firm(i - 1, state)
  PROVE  /\ OffsetOf(state, Script[i]) = AddressOf(state, Script[i]) + Page
         /\ i <= 14 => Firm(i, Place(sizes, state, Script[i]))
<1> DEFINE row == Script[i]
           after == Place(sizes, state, row)
           a == AddressOf(state, row)
           dot == state.dot
           offset == state.offset
           paged == row.paged
           begun == state.segment # "no segment"
<1>1. /\ dot \in Int /\ offset \in Int /\ state.first.at \in Int /\ state.first.offset \in Int
      /\ a \in Int /\ a >= dot
  BY StateIs, TurnIs
<1>2. /\ dot >= 0
      /\ offset = dot + Page \/ (dot % Page = 0 /\ dot < offset /\ offset <= dot + Page)
      /\ begun => state.first.offset = state.first.at + Page
      /\ dot % Page = 0 \/ (i - 1 >= 1 /\ state.segment = Script[i - 1].segment)
  BY DEF Firm
<1>3. row.segment # "no segment" /\ sizes[row.name] \in Nat /\ (paged \/ i = 1 \/ row.segment = Script[i - 1].segment)
  <2>1. row.name \in SectionNames /\ row.segment # "no segment"
    BY ScriptIs
  <2>2. i = 1 \/ i \in 2 .. 15
    OBVIOUS
  <2>3. row.paged \/ i = 1 \/ row.segment = Script[i - 1].segment
    BY <2>2, ScriptIs, Zenon
  <2>4. QED
    BY <2>1, <2>3 DEF Sizing
<1>4. /\ paged => a % Page = 0 /\ a < dot + Page /\ (dot % Page = 0 => a = dot)
      /\ dot % Page = 0 => a = dot
  <2>1. dot \in Int
    BY <1>1
  <2>2. a = AlignUp(dot, IF row.paged THEN Page ELSE 8)
    BY DEF AddressOf
  <2> HIDE DEF dot, a
  <2>3. /\ AlignUp(dot, Page) % Page = 0 /\ AlignUp(dot, Page) < dot + Page
        /\ dot % Page = 0 => AlignUp(dot, Page) = dot /\ AlignUp(dot, 8) = dot
    BY <2>1, AlignUpIs
  <2>4. QED
    BY <2>2, <2>3
<1>10. Page \in Int /\ Page > 0
  BY SMT DEF Page
<1> HIDE DEF dot, offset, a, paged, begun
<1>5. ASSUME FreshIn(state, row) PROVE OffsetOf(state, row) = a + Page
  <2>1. paged \/ dot % Page = 0
    <3>1. row.segment # state.segment
      BY <1>5, Zenon DEF FreshIn
    <3>2. ~(i - 1 >= 1 /\ i = 1)
      OBVIOUS
    <3> HIDE DEF row
    <3>3. QED
      BY <1>2, <1>3, <3>1, <3>2
  <2>2. a % Page = 0 /\ a < offset /\ offset <= a + Page
    <3> HIDE DEF row
    <3>1. QED
      BY <1>1, <1>2, <1>4, <1>10, <2>1
  <2>3. CongruentOffset(offset, a) = a + Page
    <3>1. a >= 0
      BY <1>1, <1>2
    <3>2. QED
      BY <1>1, <2>2, <3>1, CongruentIs
  <2>4. OffsetOf(state, row) = CongruentOffset(offset, a)
    BY <1>5, Zenon DEF OffsetOf, offset, a
  <2>5. QED
    BY <2>3, <2>4, Zenon
<1>6. ASSUME ~FreshIn(state, row) PROVE OffsetOf(state, row) = a + Page
  <2>1. begun
    BY <1>3, <1>6, Zenon DEF FreshIn, begun
  <2>2. OffsetOf(state, row) = state.first.offset + (a - state.first.at)
    BY <1>6, Zenon DEF OffsetOf, a
  <2>3. QED
    BY <1>1, <1>2, <1>10, <2>1, <2>2
<1>7. OffsetOf(state, row) = a + Page
  BY <1>5, <1>6
<1>8. ASSUME i <= 14 PROVE Firm(i, after)
  <2>1. /\ sizes[row.name] = 0 => PassedOver(state, row, after)
        /\ sizes[row.name] # 0 => PutDown(sizes, state, row, after)
    BY PlaceIs
  <2> HIDE DEF after
  <2>5. i >= 1
    OBVIOUS
  <2>2. CASE sizes[row.name] = 0
    <3>1. /\ after.dot = IF paged THEN a ELSE dot
          /\ after.offset = offset /\ after.segment = state.segment /\ after.first = state.first
      BY <2>1, <2>2, Zenon DEF PassedOver, a, dot, offset, paged
    <3>2. /\ after.dot >= 0 /\ (after.dot % Page = 0 \/ after.segment = row.segment)
          /\ after.offset = after.dot + Page \/ (after.dot % Page = 0 /\ after.dot < after.offset /\ after.offset <= after.dot + Page)
      <4>1. CASE paged
        <5>1. after.dot = a
          BY <3>1, <4>1
        <5>2. a >= 0 /\ a % Page = 0 /\ a < offset /\ offset <= a + Page
          <6> HIDE DEF row
          <6>1. QED
            BY <1>1, <1>2, <1>4, <1>10, <4>1
        <5>3. QED
          BY <3>1, <5>1, <5>2, Zenon
      <4>2. CASE ~paged
        <5>1. after.dot = dot
          BY <3>1, <4>2
        <5>2. ~(i - 1 >= 1 /\ i = 1)
          OBVIOUS
        <5>3. dot % Page = 0 \/ state.segment = row.segment
          <6> HIDE DEF row
          <6>1. QED
            BY <1>2, <1>3, <4>2, <5>2
        <5>4. QED
          BY <1>2, <3>1, <5>1, <5>3, Zenon
      <4>3. QED
        BY <4>1, <4>2
    <3>3. QED
      BY <1>2, <2>5, <3>1, <3>2, Zenon DEF Firm, begun
  <2>3. CASE sizes[row.name] # 0
    <3> DEFINE size == sizes[row.name]
               s == SectionIn(sizes, state, row)
    <3>1. /\ after.dot = (IF row.name = ".tbss" THEN dot ELSE a + size)
          /\ after.offset = (IF row.name \in {".tbss", ".bss"} THEN offset ELSE OffsetOf(state, row) + size)
          /\ after.segment = row.segment
          /\ after.first = (IF FreshIn(state, row) THEN s ELSE state.first)
      BY <2>1, <2>3, Zenon DEF PutDown, a, dot, offset
    <3>2. s.at = a /\ s.offset = a + Page
      <4>1. s.at = AddressOf(state, row) /\ s.offset = OffsetOf(state, row)
        BY SectionInIs
      <4>2. QED
        BY <1>7, <4>1, Zenon DEF a
    <3>8. size \in Nat
      BY <1>3
    <3> HIDE DEF s, size
    <3>3. after.first.offset = after.first.at + Page
      <4>1. ~FreshIn(state, row) => begun
        BY <1>3, Zenon DEF FreshIn, begun
      <4>2. QED
        BY <1>2, <3>1, <3>2, <4>1
    <3>4. row.name # ".bss"
      <4>1. i # 15 /\ 15 \in 1 .. 15
        BY <1>8
      <4>2. Script[15].name = ".bss" /\ \A j, k \in 1 .. 15 : Script[j].name = Script[k].name => j = k
        BY ScriptIs
      <4>3. QED
        BY <4>1, <4>2, Zenon
    <3>5. CASE row.name = ".tbss"
      <4>1. after.dot = dot /\ after.offset = offset
        BY <3>1, <3>5, Zenon
      <4>2. QED
        BY <1>2, <2>5, <3>1, <3>3, <4>1, Zenon DEF Firm
    <3>6. CASE row.name # ".tbss"
      <4>1. after.dot = a + size /\ after.offset = (a + Page) + size
        BY <1>7, <3>1, <3>4, <3>6
      <4>2. a + size >= 0 /\ (a + Page) + size = (a + size) + Page
        BY <1>1, <1>2, <1>10, <3>8
      <4>3. QED
        BY <2>5, <3>1, <3>3, <4>1, <4>2, Zenon DEF Firm
    <3>7. QED
      BY <3>5, <3>6
  <2>4. QED
    BY <2>2, <2>3
<1>9. QED
  BY <1>7, <1>8, Zenon DEF a

(* So does the script, up to the sections without bytes.                     *)
LEMMA FirmAlways ==
  ASSUME NEW sizes \in Sizing, NEW i \in 0 .. 14
  PROVE  Firm(i, Laid(sizes)[i])
<1> DEFINE Good == {k \in Nat : k <= 14 => Firm(k, Laid(sizes)[k])}
<1>1. 0 \in Good
  <2>1. Laid(sizes)[0] = Ground
    BY LaidIs
  <2>2. Firm(0, Ground)
    BY SMT DEF Firm, Ground, Page
  <2>3. QED
    BY <2>1, <2>2
<1>2. ASSUME NEW k \in Nat, k \in Good PROVE k + 1 \in Good
  <2>1. SUFFICES ASSUME k + 1 <= 14 PROVE Firm(k + 1, Laid(sizes)[k + 1])
    OBVIOUS
  <2>2. k + 1 \in 1 .. 15 /\ (k + 1) - 1 = k /\ k \in 0 .. 15 /\ Firm(k, Laid(sizes)[k])
    BY <1>2, <2>1
  <2>3. Laid(sizes)[k] \in LinkState /\ Laid(sizes)[k + 1] = Place(sizes, Laid(sizes)[k], Script[k + 1])
    BY <2>2, LaidIs, Zenon
  <2>4. QED
    BY <2>1, <2>2, <2>3, FirmTurn
<1>3. \A k \in Nat : k \in Good
  <2> HIDE DEF Good
  <2>1. QED
    BY <1>1, <1>2, Induction
<1>4. QED
  BY <1>3

(* The sections of the linked file, by their place in the script.             *)
Present(sizes) == {i \in 1 .. 15 : sizes[Script[i].name] # 0}
Sec(sizes, i) == Laid(sizes)[i].section
Dot(sizes, i) == Laid(sizes)[i].dot

(* The section of a row: aligned, a page further in the file than in         *)
(* memory.                                                                   *)
LEMMA SecIs ==
  ASSUME NEW sizes \in Sizing, NEW i \in Present(sizes)
  PROVE  LET s == Sec(sizes, i)
         IN  /\ s.name = Script[i].name /\ s.size = sizes[Script[i].name]
             /\ s.at \in Nat /\ s.size \in Nat /\ s.size > 0 /\ s.offset = s.at + Page /\ s.offset \in Nat
             /\ s.at % 8 = 0 /\ (Script[i].paged => s.at % Page = 0)
             /\ Dot(sizes, i - 1) <= s.at /\ Dot(sizes, i - 1) >= 0
             /\ i # 14 => Dot(sizes, i) = s.at + s.size
<1> DEFINE before == Laid(sizes)[i - 1]
           after == Laid(sizes)[i]
           row == Script[i]
           s == SectionIn(sizes, before, row)
<1>1. i \in 1 .. 15 /\ i - 1 \in 0 .. 14 /\ i - 1 \in 0 .. 15 /\ sizes[row.name] # 0
  BY DEF Present
<1>2. before \in LinkState /\ Firm(i - 1, before) /\ after = Place(sizes, before, row)
  <2>1. before \in LinkState /\ after = Place(sizes, before, row)
    BY <1>1, LaidIs
  <2>2. Firm(i - 1, before)
    BY <1>1, FirmAlways
  <2>3. QED
    BY <2>1, <2>2
<1> DEFINE a == AddressOf(before, row)
<1>3. /\ a \in Int /\ a >= before.dot /\ a % 8 = 0 /\ (row.paged => a % Page = 0)
      /\ OffsetOf(before, row) = a + Page
  <2> HIDE DEF before
  <2>1. QED
    BY <1>1, <1>2, TurnIs, FirmTurn
<1>4. before.dot \in Int /\ before.dot >= 0
  BY <1>2, StateIs DEF Firm
<1>5. PutDown(sizes, before, row, after)
  <2> HIDE DEF before, after, row
  <2>1. QED
    BY <1>1, <1>2, PlaceIs
<1>6. after.section = s /\ after.dot = (IF row.name = ".tbss" THEN before.dot ELSE a + sizes[row.name])
  BY <1>5, Zenon DEF PutDown
<1>7. s.name = row.name /\ s.at = a /\ s.size = sizes[row.name] /\ s.offset = a + Page
  <2> HIDE DEF before, row
  <2>1. s.name = row.name /\ s.at = a /\ s.size = sizes[row.name] /\ s.offset = OffsetOf(before, row)
    BY SectionInIs
  <2>2. QED
    BY <1>3, <2>1
<1>8. sizes[row.name] \in Nat
  BY <1>1, ScriptIs DEF Sizing
<1>9. i # 14 => row.name # ".tbss"
  <2>1. 14 \in 1 .. 15
    OBVIOUS
  <2>2. Script[14].name = ".tbss" /\ \A j, k \in 1 .. 15 : Script[j].name = Script[k].name => j = k
    BY ScriptIs
  <2>3. QED
    BY <1>1, <2>1, <2>2, Zenon
<1>10. Sec(sizes, i) = s /\ Dot(sizes, i - 1) = before.dot /\ Dot(sizes, i) = after.dot
  BY <1>6, Zenon DEF Sec, Dot
<1>11. Page \in Nat
  BY SMT DEF Page
<1> HIDE DEF before, after, s, a
<1>12. a \in Nat /\ a + Page \in Nat /\ sizes[row.name] > 0
  <2> HIDE DEF row
  <2>1. QED
    BY <1>1, <1>3, <1>4, <1>8, <1>11
<1>13. i # 14 => after.dot = a + sizes[row.name]
  BY <1>6, <1>9
<1>14. QED
  <2> DEFINE t == Sec(sizes, i)
  <2>1. /\ t.name = row.name /\ t.at = a /\ t.size = sizes[row.name] /\ t.offset = a + Page
    BY <1>7, <1>10
  <2>2. /\ Dot(sizes, i - 1) <= a /\ Dot(sizes, i - 1) >= 0
    BY <1>3, <1>4, <1>10
  <2> HIDE DEF t
  <2>3. /\ t.name = row.name /\ t.size = sizes[row.name]
        /\ t.at \in Nat /\ t.size \in Nat /\ t.size > 0 /\ t.offset = t.at + Page /\ t.offset \in Nat
        /\ t.at % 8 = 0 /\ (row.paged => t.at % Page = 0)
        /\ Dot(sizes, i - 1) <= t.at /\ Dot(sizes, i - 1) >= 0
        /\ i # 14 => Dot(sizes, i) = t.at + t.size
    <3> HIDE DEF row
    <3>1. QED
      BY <1>3, <1>8, <1>10, <1>12, <1>13, <2>1, <2>2, Zenon
  <2>4. QED
    BY <2>3 DEF t

(* The location counter never goes back.                                     *)
LEMMA DotsAre ==
  ASSUME NEW sizes \in Sizing
  PROVE  /\ \A i \in 0 .. 15 : Dot(sizes, i) \in Nat
         /\ \A i, j \in 0 .. 15 : i <= j => Dot(sizes, i) <= Dot(sizes, j)
<1> DEFINE f == [i \in 0 .. 15 |-> Dot(sizes, i)]
<1>1. \A i \in 0 .. 15 : Dot(sizes, i) \in Int
  <2>1. TAKE i \in 0 .. 15
  <2>2. Laid(sizes)[i] \in LinkState
    BY LaidIs
  <2>3. QED
    BY <2>2, StateIs DEF Dot
<1>2. ASSUME NEW i \in 1 .. 15 PROVE Dot(sizes, i - 1) <= Dot(sizes, i)
  <2> DEFINE before == Laid(sizes)[i - 1]
             row == Script[i]
  <2>1. i - 1 \in 0 .. 15 /\ i \in 0 .. 15
    OBVIOUS
  <2>2. before \in LinkState /\ Laid(sizes)[i] = Place(sizes, before, row)
    BY <2>1, LaidIs
  <2>3. before.dot \in Int /\ AddressOf(before, row) \in Int /\ AddressOf(before, row) >= before.dot
    BY <2>2, StateIs, TurnIs
  <2>4. sizes[row.name] \in Nat
    BY ScriptIs DEF Sizing
  <2> DEFINE after == Laid(sizes)[i]
             a == AddressOf(before, row)
  <2>5. /\ sizes[row.name] = 0 => PassedOver(before, row, after)
        /\ sizes[row.name] # 0 => PutDown(sizes, before, row, after)
    BY <2>2, PlaceIs
  <2>6. /\ sizes[row.name] = 0 => after.dot = IF row.paged THEN a ELSE before.dot
        /\ sizes[row.name] # 0 => after.dot = IF row.name = ".tbss" THEN before.dot ELSE a + sizes[row.name]
    BY <2>5, Zenon DEF PassedOver, PutDown
  <2>7. Dot(sizes, i - 1) = before.dot /\ Dot(sizes, i) = after.dot
    BY DEF Dot
  <2> HIDE DEF before, after, row, a
  <2>8. before.dot <= after.dot
    <3>1. before.dot \in Int /\ a \in Int /\ a >= before.dot
      BY <2>3 DEF a
    <3>2. QED
      BY <2>4, <2>6, <3>1
  <2>9. QED
    BY <2>7, <2>8
<1>3. \A i, j \in 0 .. 15 : i <= j => f[i] <= f[j]
  <2>1. (\A i \in 0 .. 15 : f[i] \in Int) /\ \A i \in 1 .. 15 : f[i - 1] <= f[i]
    <3>1. \A i \in 1 .. 15 : i - 1 \in 0 .. 15 /\ i \in 0 .. 15
      OBVIOUS
    <3>2. QED
      BY <1>1, <1>2, <3>1
  <2>2. 15 \in Nat
    OBVIOUS
  <2> HIDE DEF f
  <2>3. QED
    BY <2>1, <2>2, Monotone
<1>4. \A i, j \in 0 .. 15 : i <= j => Dot(sizes, i) <= Dot(sizes, j)
  BY <1>3
<1>5. Dot(sizes, 0) = 0
  <2>1. Laid(sizes)[0] = Ground
    BY LaidIs
  <2>2. Ground.dot = 0
    BY Zenon DEF Ground
  <2>3. QED
    BY <2>1, <2>2, Zenon DEF Dot
<1>6. \A i \in 0 .. 15 : Dot(sizes, i) \in Nat
  <2>1. TAKE i \in 0 .. 15
  <2>2. Dot(sizes, 0) <= Dot(sizes, i)
    BY <1>4
  <2>3. QED
    BY <1>1, <1>5, <2>2
<1>7. QED
  BY <1>4, <1>6

(* Sections lie in the order of the script and apart, but for .tbss.           *)
LEMMA SecsApart ==
  ASSUME NEW sizes \in Sizing, NEW i \in Present(sizes), NEW j \in Present(sizes), i < j
  PROVE  /\ Sec(sizes, i).at <= Sec(sizes, j).at
         /\ i # 14 => Sec(sizes, i).at + Sec(sizes, i).size <= Sec(sizes, j).at
<1>1. i \in 1 .. 15 /\ j \in 1 .. 15
  BY DEF Present
<1> DEFINE s == Sec(sizes, i)
           t == Sec(sizes, j)
<1>2. s.at \in Nat /\ s.size \in Nat /\ t.at \in Nat
  BY SecIs
<1>3. Dot(sizes, j - 1) <= t.at /\ (i # 14 => Dot(sizes, i) = s.at + s.size)
  BY SecIs
<1>4. Dot(sizes, i) <= Dot(sizes, j - 1) /\ Dot(sizes, i) \in Nat /\ Dot(sizes, j - 1) \in Nat
  <2>1. i \in 0 .. 15 /\ j - 1 \in 0 .. 15 /\ i <= j - 1
    BY <1>1
  <2>2. QED
    BY <2>1, DotsAre
<1> HIDE DEF s, t
<1>5. i # 14 => s.at + s.size <= t.at
  BY <1>2, <1>3, <1>4
<1>6. s.at <= t.at
  <2>1. CASE i # 14
    BY <1>2, <1>5, <2>1
  <2>2. CASE i = 14
    <3>1. j = 15
      BY <1>1, <2>2
    <3>2. s.at = AlignUp(Dot(sizes, 13), 8) /\ t.at = AlignUp(Dot(sizes, 14), 8) /\ Dot(sizes, 14) = Dot(sizes, 13)
      <4>1. Script[14].name = ".tbss" /\ 14 \in 1 .. 15 /\ 15 \in 1 .. 15 /\ 14 \in 0 .. 15 /\ 13 \in 0 .. 15
        <5>1. 14 \in 1 .. 15 /\ 15 \in 1 .. 15 /\ 14 \in 0 .. 15 /\ 13 \in 0 .. 15
          OBVIOUS
        <5>2. QED
          BY <5>1, ScriptIs, Zenon
      <4>2. ~Script[14].paged /\ ~Script[15].paged
        <5>1. 14 \notin {1, 2, 5, 11} /\ 15 \notin {1, 2, 5, 11}
          OBVIOUS
        <5>2. QED
          BY <4>1, <5>1, ScriptIs
      <4>3. /\ Laid(sizes)[14] = Place(sizes, Laid(sizes)[13], Script[14]) /\ Laid(sizes)[13] \in LinkState
            /\ Laid(sizes)[15] = Place(sizes, Laid(sizes)[14], Script[15]) /\ Laid(sizes)[14] \in LinkState
        <5>1. 14 - 1 = 13 /\ 15 - 1 = 14
          OBVIOUS
        <5>2. QED
          BY <4>1, <5>1, LaidIs
      <4>4. sizes[Script[14].name] # 0 /\ sizes[Script[15].name] # 0
        BY <2>2, <3>1 DEF Present
      <4>5. /\ PutDown(sizes, Laid(sizes)[13], Script[14], Laid(sizes)[14])
            /\ PutDown(sizes, Laid(sizes)[14], Script[15], Laid(sizes)[15])
        BY <4>3, <4>4, PlaceIs
      <4>6. /\ Laid(sizes)[14].section = SectionIn(sizes, Laid(sizes)[13], Script[14])
            /\ Laid(sizes)[15].section = SectionIn(sizes, Laid(sizes)[14], Script[15])
            /\ Laid(sizes)[14].dot = Laid(sizes)[13].dot
        BY <4>1, <4>5, Zenon DEF PutDown
      <4>7. /\ Laid(sizes)[14].section.at = AddressOf(Laid(sizes)[13], Script[14])
            /\ Laid(sizes)[15].section.at = AddressOf(Laid(sizes)[14], Script[15])
        BY <4>6, SectionInIs
      <4>8. QED
        BY <2>2, <3>1, <4>2, <4>6, <4>7, Zenon DEF s, t, Sec, Dot, AddressOf
    <3>3. QED
      BY <1>2, <3>2
  <2>3. QED
    BY <2>1, <2>2
<1>7. QED
  BY <1>5, <1>6 DEF s, t

(* The linked program's sections are those of the rows present.              *)
LEMMA PieIs ==
  ASSUME NEW sizes \in Sizing
  PROVE  /\ ToSet(LinkedPie(sizes)) = {Sec(sizes, i) : i \in Present(sizes)}
         /\ DOMAIN LinkedPie(sizes) = 1 .. Cardinality(Present(sizes))
<1> DEFINE rows == InOrder(Present(sizes))
           n == Cardinality(Present(sizes))
<1>1. Present(sizes) = {i \in DOMAIN Script : sizes[Script[i].name] # 0}
  BY ScriptIs DEF Present
<1>2. LinkedPie(sizes) = [k \in DOMAIN rows |-> Sec(sizes, rows[k])]
  BY <1>1, Zenon DEF LinkedPie, Sec
<1>3. Present(sizes) \in SUBSET (1 .. 15) /\ 15 \in Nat
  BY DEF Present
<1>4. DOMAIN rows = 1 .. n
  BY <1>3, InOrderLength
<1>5. (\A k \in 1 .. n : rows[k] \in Present(sizes)) /\ \A i \in Present(sizes) : \E k \in 1 .. n : rows[k] = i
  BY <1>3, InOrderIs
<1> HIDE DEF rows, n
<1>6. DOMAIN LinkedPie(sizes) = 1 .. n /\ \A k \in 1 .. n : LinkedPie(sizes)[k] = Sec(sizes, rows[k])
  BY <1>2, <1>4
<1>7. ToSet(LinkedPie(sizes)) = {Sec(sizes, rows[k]) : k \in 1 .. n}
  BY <1>6, Zenon DEF ToSet
<1>8. {Sec(sizes, rows[k]) : k \in 1 .. n} = {Sec(sizes, i) : i \in Present(sizes)}
  BY <1>5, Zenon
<1>9. QED
  BY <1>6, <1>7, <1>8, Zenon DEF n

(* What the writer takes a section for, by its name and so by its row.        *)
LEMMA KindOfName ==
  ASSUME NEW s
  PROVE  /\ s.name = ".text" => Kind(s) = "text" /\ ~NoBits(s) /\ ~Tls(s) /\ ~Metadata(s) /\ ~Relro(s)
         /\ s.name \in {".eh_frame_hdr", ".eh_frame", ".rodata"} => Kind(s) = "ro" /\ ~NoBits(s) /\ ~Tls(s) /\ ~Metadata(s) /\ ~Relro(s)
         /\ s.name \in {".data.rel.ro", ".got", ".init_array"} => Kind(s) = "relro" /\ ~NoBits(s) /\ ~Tls(s) /\ ~Metadata(s) /\ Relro(s)
         /\ s.name \in {".dynsym", ".rela.dyn", ".rela.plt"} => Kind(s) = "metadata" /\ ~NoBits(s) /\ ~Tls(s) /\ Metadata(s) /\ ~Relro(s)
         /\ s.name = ".dynamic" => Kind(s) = "dynamic" /\ ~NoBits(s) /\ ~Tls(s) /\ Metadata(s) /\ ~Relro(s)
         /\ s.name = ".data" => Kind(s) = "data" /\ ~NoBits(s) /\ ~Tls(s) /\ ~Metadata(s) /\ ~Relro(s)
         /\ s.name = ".tdata" => Kind(s) = "tls" /\ ~NoBits(s) /\ Tls(s) /\ ~Metadata(s) /\ ~Relro(s)
         /\ s.name = ".tbss" => Kind(s) = "tls" /\ NoBits(s) /\ Tls(s) /\ ~Metadata(s) /\ ~Relro(s)
         /\ s.name = ".bss" => Kind(s) = "data" /\ NoBits(s) /\ ~Tls(s) /\ ~Metadata(s) /\ ~Relro(s)
<1> DEFINE n == s.name
<1>1. /\ NoBits(s) <=> n \in {".tbss", ".bss"}
      /\ Tls(s) <=> n \in {".tdata", ".tbss"}
      /\ Executable(s) <=> n = ".text"
      /\ Writable(s) <=> n \in {".dynamic", ".data", ".tdata", ".tbss", ".bss"}
      /\ Metadata(s) <=> n \in {".dynstr", ".dynsym", ".dynamic", ".gnu.hash", ".rela.dyn", ".rela.plt"}
      /\ Relro(s) <=> n \in {".got", ".got.plt", ".data.rel.ro", ".preinit_array", ".init_array", ".fini_array"}
  BY Zenon DEF NoBits, Tls, Executable, Writable, Metadata, Relro
<1>2. Kind(s) = IF n = ".dynamic" THEN "dynamic"
                ELSE IF Executable(s) THEN "text"
                ELSE IF Tls(s) THEN "tls"
                ELSE IF Relro(s) THEN "relro"
                ELSE IF Writable(s) \/ NoBits(s) THEN "data"
                ELSE IF Metadata(s) THEN "metadata" ELSE "ro"
  BY Zenon DEF Kind
<1> HIDE DEF n
<1>3. n = ".text" => Kind(s) = "text" /\ ~NoBits(s) /\ ~Tls(s) /\ ~Metadata(s) /\ ~Relro(s)
  BY <1>1, <1>2, SMT
<1>4. n \in {".eh_frame_hdr", ".eh_frame", ".rodata"} => Kind(s) = "ro" /\ ~NoBits(s) /\ ~Tls(s) /\ ~Metadata(s) /\ ~Relro(s)
  BY <1>1, <1>2, SMT
<1>5. n \in {".data.rel.ro", ".got", ".init_array"} => Kind(s) = "relro" /\ ~NoBits(s) /\ ~Tls(s) /\ ~Metadata(s) /\ Relro(s)
  BY <1>1, <1>2, SMT
<1>6. n \in {".dynsym", ".rela.dyn", ".rela.plt"} => Kind(s) = "metadata" /\ ~NoBits(s) /\ ~Tls(s) /\ Metadata(s) /\ ~Relro(s)
  BY <1>1, <1>2, SMT
<1>7. n = ".dynamic" => Kind(s) = "dynamic" /\ ~NoBits(s) /\ ~Tls(s) /\ Metadata(s) /\ ~Relro(s)
  BY <1>1, <1>2, SMT
<1>8. n = ".data" => Kind(s) = "data" /\ ~NoBits(s) /\ ~Tls(s) /\ ~Metadata(s) /\ ~Relro(s)
  BY <1>1, <1>2, SMT
<1>9. n = ".tdata" => Kind(s) = "tls" /\ ~NoBits(s) /\ Tls(s) /\ ~Metadata(s) /\ ~Relro(s)
  BY <1>1, <1>2, SMT
<1>10. n = ".tbss" => Kind(s) = "tls" /\ NoBits(s) /\ Tls(s) /\ ~Metadata(s) /\ ~Relro(s)
  BY <1>1, <1>2, SMT
<1>11. n = ".bss" => Kind(s) = "data" /\ NoBits(s) /\ ~Tls(s) /\ ~Metadata(s) /\ ~Relro(s)
  BY <1>1, <1>2, SMT
<1>12. QED
  BY <1>3, <1>4, <1>5, <1>6, <1>7, <1>8, <1>9, <1>10, <1>11, Zenon DEF n

(* Which kind of the writer's each row of the script is.                     *)
LEMMA RowKinds ==
  ASSUME NEW sizes \in Sizing, NEW i \in Present(sizes)
  PROVE  LET s == Sec(sizes, i)
         IN  /\ (Kind(s) = "text" <=> i = 1) /\ (Kind(s) = "ro" <=> i \in 2 .. 4) /\ (Kind(s) = "relro" <=> i \in 5 .. 7)
             /\ (Kind(s) = "data" <=> i \in {12, 15}) /\ (Kind(s) = "tls" <=> i \in {13, 14})
             /\ (NoBits(s) <=> i \in {14, 15}) /\ (Metadata(s) <=> i \in 8 .. 11) /\ (Tls(s) <=> i \in {13, 14})
             /\ (Relro(s) <=> i \in 5 .. 7)
<1> DEFINE s == Sec(sizes, i)
<1>1. i \in 1 .. 15 /\ s.name = Script[i].name
  BY SecIs DEF Present
<1>2. /\ Script[1].name = ".text" /\ Script[2].name = ".eh_frame_hdr" /\ Script[3].name = ".eh_frame" /\ Script[4].name = ".rodata"
      /\ Script[5].name = ".data.rel.ro" /\ Script[6].name = ".got" /\ Script[7].name = ".init_array" /\ Script[8].name = ".dynsym"
      /\ Script[9].name = ".rela.dyn" /\ Script[10].name = ".rela.plt" /\ Script[11].name = ".dynamic" /\ Script[12].name = ".data"
      /\ Script[13].name = ".tdata" /\ Script[14].name = ".tbss" /\ Script[15].name = ".bss"
  BY ScriptIs
<1> HIDE DEF s
<1> DEFINE kind == Kind(s)
           facts(a, b, c, d) == (NoBits(s) <=> a) /\ (Tls(s) <=> b) /\ (Metadata(s) <=> c) /\ (Relro(s) <=> d)
<1>8. /\ i = 1 => s.name = ".text"
      /\ i \in 2 .. 4 => s.name \in {".eh_frame_hdr", ".eh_frame", ".rodata"}
      /\ i \in 5 .. 7 => s.name \in {".data.rel.ro", ".got", ".init_array"}
      /\ i \in 8 .. 10 => s.name \in {".dynsym", ".rela.dyn", ".rela.plt"}
      /\ i = 11 => s.name = ".dynamic"
      /\ i = 12 => s.name = ".data"
      /\ i = 13 => s.name = ".tdata"
      /\ i = 14 => s.name = ".tbss"
      /\ i = 15 => s.name = ".bss"
  <2>1. /\ i \in 2 .. 4 => i = 2 \/ i = 3 \/ i = 4
        /\ i \in 5 .. 7 => i = 5 \/ i = 6 \/ i = 7
        /\ i \in 8 .. 10 => i = 8 \/ i = 9 \/ i = 10
    OBVIOUS
  <2> DEFINE n(j) == Script[j].name
             name == s.name
  <2>2. name = n(i)
    BY <1>1
  <2>3. /\ n(1) = ".text" /\ n(2) = ".eh_frame_hdr" /\ n(3) = ".eh_frame" /\ n(4) = ".rodata" /\ n(5) = ".data.rel.ro"
        /\ n(6) = ".got" /\ n(7) = ".init_array" /\ n(8) = ".dynsym" /\ n(9) = ".rela.dyn" /\ n(10) = ".rela.plt"
        /\ n(11) = ".dynamic" /\ n(12) = ".data" /\ n(13) = ".tdata" /\ n(14) = ".tbss" /\ n(15) = ".bss"
    BY <1>2, Zenon
  <2> HIDE DEF n
  <2>4. name = n(i) /\ s.name = name
    BY <2>2
  <2> HIDE DEF name
  <2>5. QED
    BY <2>1, <2>3, <2>4, SMT
<1>9. i = 1 \/ i \in 2 .. 4 \/ i \in 5 .. 7 \/ i \in 8 .. 10 \/ i = 11 \/ i = 12 \/ i = 13 \/ i = 14 \/ i = 15
  BY <1>1
<1>3. /\ i = 1 => kind = "text" /\ facts(FALSE, FALSE, FALSE, FALSE)
      /\ i \in 2 .. 4 => kind = "ro" /\ facts(FALSE, FALSE, FALSE, FALSE)
      /\ i \in 5 .. 7 => kind = "relro" /\ facts(FALSE, FALSE, FALSE, TRUE)
      /\ i \in 8 .. 10 => kind = "metadata" /\ facts(FALSE, FALSE, TRUE, FALSE)
  BY <1>8, KindOfName, Zenon
<1>4. /\ i = 11 => kind = "dynamic" /\ facts(FALSE, FALSE, TRUE, FALSE)
      /\ i = 12 => kind = "data" /\ facts(FALSE, FALSE, FALSE, FALSE)
      /\ i = 13 => kind = "tls" /\ facts(FALSE, TRUE, FALSE, FALSE)
      /\ i = 14 => kind = "tls" /\ facts(TRUE, TRUE, FALSE, FALSE)
      /\ i = 15 => kind = "data" /\ facts(TRUE, FALSE, FALSE, FALSE)
  BY <1>8, KindOfName, Zenon
<1> HIDE DEF kind
<1>5. /\ (kind = "text" <=> i = 1) /\ (kind = "ro" <=> i \in 2 .. 4) /\ (kind = "relro" <=> i \in 5 .. 7)
      /\ (kind = "data" <=> i \in {12, 15}) /\ (kind = "tls" <=> i \in {13, 14})
  <2>1. /\ (i = 1 => kind = "text") /\ (i \in 2 .. 4 => kind = "ro") /\ (i \in 5 .. 7 => kind = "relro")
        /\ (i \in 8 .. 10 => kind = "metadata") /\ (i = 11 => kind = "dynamic") /\ (i = 12 => kind = "data")
        /\ (i = 13 => kind = "tls") /\ (i = 14 => kind = "tls") /\ (i = 15 => kind = "data")
    BY <1>3, <1>4, Zenon
  <2>2. QED
    BY <1>1, <1>9, <2>1, SMT
<1>6. /\ (NoBits(s) <=> i \in {14, 15}) /\ (Metadata(s) <=> i \in 8 .. 11) /\ (Tls(s) <=> i \in {13, 14})
      /\ (Relro(s) <=> i \in 5 .. 7)
  BY <1>1, <1>3, <1>4, SMT
<1>7. QED
  BY <1>5, <1>6, Zenon DEF s, kind

(* The section the writer finds by a name is the one of that row.            *)
LEMMA SectionOfIs ==
  ASSUME NEW sizes \in Sizing, NEW image, image.sections = LinkedPie(sizes), NEW i \in 1 .. 15
  PROVE  /\ HasSection(image, Script[i].name) <=> i \in Present(sizes)
         /\ i \in Present(sizes) => SectionOf(image, Script[i].name) = Sec(sizes, i)
<1>1. ToSet(image.sections) = {Sec(sizes, j) : j \in Present(sizes)}
  BY PieIs
<1>2. \A j \in Present(sizes) : j \in 1 .. 15 /\ Sec(sizes, j).name = Script[j].name
  BY SecIs DEF Present
<1>3. \A j \in 1 .. 15 : Script[i].name = Script[j].name => i = j
  BY ScriptIs
<1>4. HasSection(image, Script[i].name) <=> i \in Present(sizes)
  BY <1>1, <1>2, <1>3, Zenon DEF HasSection
<1>5. ASSUME i \in Present(sizes) PROVE SectionOf(image, Script[i].name) = Sec(sizes, i)
  <2>1. Sec(sizes, i) \in ToSet(image.sections) /\ Sec(sizes, i).name = Script[i].name
    BY <1>1, <1>2, <1>5
  <2>2. \A s \in ToSet(image.sections) : s.name = Script[i].name => s = Sec(sizes, i)
    BY <1>1, <1>2, <1>3
  <2>3. QED
    BY <2>1, <2>2 DEF SectionOf
<1>6. QED
  BY <1>4, <1>5

(* The range that some of the rows take in memory.                           *)
LowOf(sizes, R) == {Sec(sizes, i).at : i \in R}
HighOf(sizes, R) == {Sec(sizes, i).at + Sec(sizes, i).size : i \in R}

(* The lowest start and the highest end of some rows are a row's.            *)
LEMMA RowsReach ==
  ASSUME NEW sizes \in Sizing, NEW R \in SUBSET (Present(sizes) \ {14})
  PROVE  /\ LowOf(sizes, R) \in SUBSET Nat /\ HighOf(sizes, R) \in SUBSET Nat
         /\ \A x \in HighOf(sizes, R) : x <= Dot(sizes, 15)
         /\ R # {} => /\ \E i \in R : Min(LowOf(sizes, R)) = Sec(sizes, i).at
                      /\ \A i \in R : Min(LowOf(sizes, R)) <= Sec(sizes, i).at
                      /\ \E i \in R : Max(HighOf(sizes, R)) = Sec(sizes, i).at + Sec(sizes, i).size
                      /\ \A i \in R : Sec(sizes, i).at + Sec(sizes, i).size <= Max(HighOf(sizes, R))
         /\ \A b \in Nat : LET m == Max({b} \cup HighOf(sizes, R))
                           IN  /\ m \in Nat /\ b <= m /\ \A i \in R : Sec(sizes, i).at + Sec(sizes, i).size <= m
                               /\ m = b \/ \E i \in R : m = Sec(sizes, i).at + Sec(sizes, i).size
<1> DEFINE end(i) == Sec(sizes, i).at + Sec(sizes, i).size
           low == LowOf(sizes, R)
           high == HighOf(sizes, R)
<1>1. \A i \in R : i \in Present(sizes) /\ i # 14 /\ i \in 0 .. 15 /\ i <= 15
  BY DEF Present
<1>2. \A i \in R : Sec(sizes, i).at \in Nat /\ end(i) \in Nat /\ end(i) <= Dot(sizes, 15)
  <2>1. TAKE i \in R
  <2>2. Sec(sizes, i).at \in Nat /\ Sec(sizes, i).size \in Nat /\ Dot(sizes, i) = end(i)
    BY <1>1, SecIs
  <2>3. Dot(sizes, i) <= Dot(sizes, 15)
    <3>1. 15 \in 0 .. 15
      OBVIOUS
    <3>2. QED
      BY <1>1, <3>1, DotsAre
  <2>4. QED
    BY <2>2, <2>3
<1>3. low \in SUBSET Nat /\ high \in SUBSET Nat
  BY <1>2, Zenon DEF LowOf, HighOf
<1>4. \A x \in high : x <= Dot(sizes, 15)
  BY <1>2, Zenon DEF HighOf
<1>5. Dot(sizes, 15) \in Nat
  BY DotsAre
<1>6. ASSUME R # {}
      PROVE  /\ \E i \in R : Min(low) = Sec(sizes, i).at
             /\ \A i \in R : Min(low) <= Sec(sizes, i).at
             /\ \E i \in R : Max(high) = end(i)
             /\ \A i \in R : end(i) <= Max(high)
  <2>1. low # {} /\ high # {}
    BY <1>6 DEF LowOf, HighOf
  <2>2. Min(low) \in low /\ \A x \in low : Min(low) <= x
    BY <1>3, <2>1, MinIs
  <2>3. Max(high) \in high /\ \A x \in high : x <= Max(high)
    <3> HIDE DEF high
    <3>1. high \in SUBSET Int /\ Dot(sizes, 15) \in Int
      BY <1>3, <1>5
    <3>2. QED
      BY <1>4, <2>1, <3>1, MaxIs
  <2>4. QED
    BY <2>2, <2>3, Zenon DEF LowOf, HighOf
<1>7. ASSUME NEW b \in Nat
      PROVE  LET m == Max({b} \cup high)
             IN  /\ m \in Nat /\ b <= m /\ \A i \in R : end(i) <= m
                 /\ m = b \/ \E i \in R : m = end(i)
  <2> DEFINE T == {b} \cup high
             m == Max(T)
  <2>1. T \in SUBSET Int /\ T # {} /\ T \in SUBSET Nat
    <3> HIDE DEF high
    <3>1. QED
      BY <1>3
  <2>2. b + Dot(sizes, 15) \in Int /\ \A x \in T : x <= b + Dot(sizes, 15)
    <3> HIDE DEF high
    <3>1. QED
      BY <1>3, <1>4, <1>5
  <2>3. m \in T /\ \A x \in T : x <= m
    <3> HIDE DEF T
    <3>1. QED
      BY <2>1, <2>2, MaxIs
  <2>4. (\A i \in R : end(i) \in T) /\ \A x \in T : x = b \/ \E i \in R : x = end(i)
    BY Zenon DEF HighOf
  <2>5. b \in T
    OBVIOUS
  <2> HIDE DEF T, m
  <2>6. m \in Nat /\ b <= m /\ (\A i \in R : end(i) <= m) /\ (m = b \/ \E i \in R : m = end(i))
    BY <2>1, <2>3, <2>4, <2>5, Zenon
  <2>7. QED
    BY <2>6 DEF m, T
<1>8. QED
  BY <1>3, <1>4, <1>6, <1>7

SecsOf(sizes, R) == {Sec(sizes, i) : i \in R}

(* The writer's sets of starts and ends are those of the rows.               *)
LEMMA SecsOfRows ==
  ASSUME NEW sizes \in Sizing, NEW R \in SUBSET Present(sizes)
  PROVE  /\ Starts(SecsOf(sizes, R)) = LowOf(sizes, R) /\ Ends(SecsOf(sizes, R)) = HighOf(sizes, R)
         /\ Stored(SecsOf(sizes, R)) = SecsOf(sizes, R \ {14, 15})
         /\ SecsOf(sizes, R) = {} <=> R = {}
<1>1. Starts(SecsOf(sizes, R)) = LowOf(sizes, R) /\ Ends(SecsOf(sizes, R)) = HighOf(sizes, R)
  BY Zenon DEF Starts, Ends, SecsOf, LowOf, HighOf
<1>2. \A i \in R : NoBits(Sec(sizes, i)) <=> i \in {14, 15}
  BY RowKinds
<1>3. Stored(SecsOf(sizes, R)) = SecsOf(sizes, R \ {14, 15})
  BY <1>2, Zenon DEF Stored, SecsOf
<1>4. QED
  BY <1>1, <1>3 DEF SecsOf

(* The sections of a kind are those of its rows.                             *)
LEMMA KindRows ==
  ASSUME NEW sizes \in Sizing, NEW image, image.sections = LinkedPie(sizes)
  PROVE  /\ OfKind(image, "text") = SecsOf(sizes, Present(sizes) \cap {1})
         /\ OfKind(image, "ro") = SecsOf(sizes, Present(sizes) \cap 2 .. 4)
         /\ OfKind(image, "relro") = SecsOf(sizes, Present(sizes) \cap 5 .. 7)
         /\ OfKind(image, "data") = SecsOf(sizes, Present(sizes) \cap {12, 15})
         /\ OfKind(image, "tls") = SecsOf(sizes, Present(sizes) \cap {13, 14})
<1>1. ToSet(image.sections) = {Sec(sizes, j) : j \in Present(sizes)}
  BY PieIs
<1>2. ASSUME NEW kind, NEW R, \A i \in Present(sizes) : Kind(Sec(sizes, i)) = kind <=> i \in R
      PROVE  OfKind(image, kind) = SecsOf(sizes, Present(sizes) \cap R)
  BY <1>1, <1>2, Zenon DEF OfKind, SecsOf
<1>3. /\ \A i \in Present(sizes) : Kind(Sec(sizes, i)) = "text" <=> i \in {1}
      /\ \A i \in Present(sizes) : Kind(Sec(sizes, i)) = "ro" <=> i \in 2 .. 4
      /\ \A i \in Present(sizes) : Kind(Sec(sizes, i)) = "relro" <=> i \in 5 .. 7
      /\ \A i \in Present(sizes) : Kind(Sec(sizes, i)) = "data" <=> i \in {12, 15}
      /\ \A i \in Present(sizes) : Kind(Sec(sizes, i)) = "tls" <=> i \in {13, 14}
  BY RowKinds, Zenon
<1>4. OfKind(image, "text") = SecsOf(sizes, Present(sizes) \cap {1})
  BY <1>2, <1>3, Zenon
<1>5. OfKind(image, "ro") = SecsOf(sizes, Present(sizes) \cap 2 .. 4)
  BY <1>2, <1>3, Zenon
<1>6. OfKind(image, "relro") = SecsOf(sizes, Present(sizes) \cap 5 .. 7)
  BY <1>2, <1>3, Zenon
<1>7. OfKind(image, "data") = SecsOf(sizes, Present(sizes) \cap {12, 15})
  BY <1>2, <1>3, Zenon
<1>8. OfKind(image, "tls") = SecsOf(sizes, Present(sizes) \cap {13, 14})
  BY <1>2, <1>3, Zenon
<1>9. QED
  BY <1>4, <1>5, <1>6, <1>7, <1>8, Zenon

(* A program the linker makes a title of: it has what the start-up code and the *)
(* linker give every program.                                                *)
Buildable(sizes) ==
  sizes \in Sizing /\ {1, 3, 6, 11} \subseteq Present(sizes) /\ (14 \in Present(sizes) => 13 \in Present(sizes))

StartAt(sizes, i) == Sec(sizes, i).at
EndAt(sizes, i) == Sec(sizes, i).at + Sec(sizes, i).size

(* The rows present lie one behind the other.                                *)
LEMMA RowNumbers ==
  ASSUME NEW sizes, Buildable(sizes)
  PROVE  /\ \A i \in Present(sizes) : StartAt(sizes, i) \in Nat /\ EndAt(sizes, i) \in Nat /\ StartAt(sizes, i) < EndAt(sizes, i)
         /\ \A i, j \in Present(sizes) : i < j /\ i # 14 => EndAt(sizes, i) <= StartAt(sizes, j)
         /\ \A i, j \in Present(sizes) : i <= j => StartAt(sizes, i) <= StartAt(sizes, j)
<1>1. sizes \in Sizing
  BY DEF Buildable
<1>2. \A i \in Present(sizes) : StartAt(sizes, i) \in Nat /\ EndAt(sizes, i) \in Nat /\ StartAt(sizes, i) < EndAt(sizes, i)
  <2>1. TAKE i \in Present(sizes)
  <2>2. Sec(sizes, i).at \in Nat /\ Sec(sizes, i).size \in Nat /\ Sec(sizes, i).size > 0
    BY <1>1, SecIs
  <2>3. QED
    BY <2>2 DEF StartAt, EndAt
<1>3. \A i \in Present(sizes) : i \in Int
  BY DEF Present
<1>4. \A i, j \in Present(sizes) : i < j /\ i # 14 => EndAt(sizes, i) <= StartAt(sizes, j)
  BY <1>1, SecsApart DEF StartAt, EndAt
<1>5. \A i, j \in Present(sizes) : i < j => StartAt(sizes, i) <= StartAt(sizes, j)
  BY <1>1, SecsApart DEF StartAt
<1>6. \A i, j \in Present(sizes) : i <= j => StartAt(sizes, i) <= StartAt(sizes, j)
  <2>1. TAKE i, j \in Present(sizes)
  <2>2. CASE i < j
    BY <1>5, <2>2
  <2>3. CASE i = j
    BY <1>2, <2>3
  <2>4. QED
    BY <1>3, <2>2, <2>3
<1>7. QED
  BY <1>2, <1>4, <1>6

(* Where the writer sees the regions of the image.                           *)
LEMMA RegionsAre ==
  ASSUME NEW sizes, Buildable(sizes), NEW image, image.sections = LinkedPie(sizes)
  PROVE  LET r == Regions(image)
             P == Present(sizes)
         IN  /\ r.textEnd = EndAt(sizes, 1)
             /\ (\E i \in P \cap 2 .. 4 : r.roStart = StartAt(sizes, i)) /\ \A i \in P \cap 2 .. 4 : r.roStart <= StartAt(sizes, i)
             /\ (\E i \in P \cap 2 .. 4 : r.roEnd = EndAt(sizes, i)) /\ \A i \in P \cap 2 .. 4 : EndAt(sizes, i) <= r.roEnd
             /\ (\E i \in P \cap 5 .. 7 : r.relroStart = StartAt(sizes, i)) /\ \A i \in P \cap 5 .. 7 : r.relroStart <= StartAt(sizes, i)
             /\ (\E i \in P \cap 5 .. 7 : r.relroContentEnd = EndAt(sizes, i)) /\ \A i \in P \cap 5 .. 7 : EndAt(sizes, i) <= r.relroContentEnd
             /\ r.dataStart = StartAt(sizes, 11)
             /\ r.dataEnd \in Nat /\ StartAt(sizes, 11) + 8 <= r.dataEnd /\ \A i \in P \cap {12, 15} : EndAt(sizes, i) <= r.dataEnd
             /\ r.dataStoredEnd \in Nat /\ StartAt(sizes, 11) + 8 <= r.dataStoredEnd /\ r.dataStoredEnd <= r.dataEnd
             /\ 12 \in P => EndAt(sizes, 12) <= r.dataStoredEnd
             /\ r.dataStoredEnd = StartAt(sizes, 11) + 8 \/ (12 \in P /\ r.dataStoredEnd = EndAt(sizes, 12))
             /\ 13 \notin P => r.tlsStart = 0
             /\ 13 \in P => /\ r.tlsStart = StartAt(sizes, 13) /\ r.tlsFileEnd = EndAt(sizes, 13)
                            /\ r.tlsMemoryEnd \in Nat /\ r.tlsFileEnd <= r.tlsMemoryEnd
<1> DEFINE P == Present(sizes)
           r == Regions(image)
           d == StartAt(sizes, 11)
<1>1. sizes \in Sizing /\ 1 \in P /\ 3 \in P /\ 6 \in P /\ 11 \in P /\ (14 \in P => 13 \in P)
  BY DEF Buildable
<1> DEFINE text == OfKind(image, "text")
           ro == OfKind(image, "ro")
           relro == OfKind(image, "relro")
           data == OfKind(image, "data")
           tls == OfKind(image, "tls")
<1>2. /\ text = SecsOf(sizes, P \cap {1}) /\ ro = SecsOf(sizes, P \cap 2 .. 4) /\ relro = SecsOf(sizes, P \cap 5 .. 7)
      /\ data = SecsOf(sizes, P \cap {12, 15}) /\ tls = SecsOf(sizes, P \cap {13, 14})
  BY <1>1, KindRows
<1>3. /\ Ends(text) = HighOf(sizes, P \cap {1})
      /\ Starts(ro) = LowOf(sizes, P \cap 2 .. 4) /\ Ends(ro) = HighOf(sizes, P \cap 2 .. 4) /\ ro # {}
      /\ Starts(relro) = LowOf(sizes, P \cap 5 .. 7) /\ Ends(relro) = HighOf(sizes, P \cap 5 .. 7)
      /\ Starts(data) = LowOf(sizes, P \cap {12, 15}) /\ Ends(data) = HighOf(sizes, P \cap {12, 15})
      /\ Ends(Stored(data)) = HighOf(sizes, P \cap {12})
      /\ Starts(tls) = LowOf(sizes, P \cap {13, 14}) /\ Ends(tls) = HighOf(sizes, P \cap {13, 14})
      /\ Ends(Stored(tls)) = HighOf(sizes, P \cap {13})
      /\ tls = {} <=> 13 \notin P
  <2>1. \A R \in SUBSET P : /\ Starts(SecsOf(sizes, R)) = LowOf(sizes, R) /\ Ends(SecsOf(sizes, R)) = HighOf(sizes, R)
                            /\ Stored(SecsOf(sizes, R)) = SecsOf(sizes, R \ {14, 15})
                            /\ SecsOf(sizes, R) = {} <=> R = {}
    BY <1>1, SecsOfRows
  <2>2. /\ P \cap {1} \in SUBSET P /\ P \cap 2 .. 4 \in SUBSET P /\ P \cap 5 .. 7 \in SUBSET P
        /\ P \cap {12, 15} \in SUBSET P /\ P \cap {13, 14} \in SUBSET P /\ P \cap {12} \in SUBSET P /\ P \cap {13} \in SUBSET P
    OBVIOUS
  <2>3. (P \cap {12, 15}) \ {14, 15} = P \cap {12} /\ (P \cap {13, 14}) \ {14, 15} = P \cap {13}
    <3> HIDE DEF P
    <3>1. QED
      OBVIOUS
  <2>4. P \cap 2 .. 4 # {} /\ (P \cap {13, 14} = {} <=> 13 \notin P)
    <3> HIDE DEF P
    <3>1. 3 \in 2 .. 4
      OBVIOUS
    <3>2. QED
      BY <1>1, <3>1
  <2> HIDE DEF P, text, ro, relro, data, tls
  <2>5. Ends(text) = HighOf(sizes, P \cap {1})
    BY <1>2, <2>1, <2>2
  <2>6. Starts(ro) = LowOf(sizes, P \cap 2 .. 4) /\ Ends(ro) = HighOf(sizes, P \cap 2 .. 4) /\ ro # {}
    BY <1>2, <2>1, <2>2, <2>4
  <2>7. Starts(relro) = LowOf(sizes, P \cap 5 .. 7) /\ Ends(relro) = HighOf(sizes, P \cap 5 .. 7)
    BY <1>2, <2>1, <2>2
  <2>8. Starts(data) = LowOf(sizes, P \cap {12, 15}) /\ Ends(data) = HighOf(sizes, P \cap {12, 15}) /\ Stored(data) = SecsOf(sizes, P \cap {12})
    BY <1>2, <2>1, <2>2, <2>3
  <2>9. Starts(tls) = LowOf(sizes, P \cap {13, 14}) /\ Ends(tls) = HighOf(sizes, P \cap {13, 14}) /\ Stored(tls) = SecsOf(sizes, P \cap {13})
        /\ (tls = {} <=> 13 \notin P)
    <3> DEFINE T == P \cap {13, 14}
    <3>1. tls = SecsOf(sizes, T) /\ T \in SUBSET P /\ T \ {14, 15} = P \cap {13} /\ (T = {} <=> 13 \notin P)
      BY <1>2, <2>3, <2>4
    <3> HIDE DEF T
    <3>2. Starts(tls) = LowOf(sizes, T) /\ Ends(tls) = HighOf(sizes, T) /\ Stored(tls) = SecsOf(sizes, T \ {14, 15}) /\ (tls = {} <=> T = {})
      BY <2>1, <3>1
    <3>3. QED
      BY <3>1, <3>2 DEF T
  <2>10. Ends(Stored(data)) = HighOf(sizes, P \cap {12}) /\ Ends(Stored(tls)) = HighOf(sizes, P \cap {13})
    BY <2>1, <2>2, <2>8, <2>9
  <2>11. QED
    BY <2>5, <2>6, <2>7, <2>8, <2>9, <2>10
<1>4. SectionOf(image, ".dynamic").at = d
  <2>3. 11 \in 1 .. 15
    OBVIOUS
  <2>1. Script[11].name = ".dynamic" /\ 11 \in 1 .. 15
    BY <2>3, ScriptIs, Zenon
  <2>2. SectionOf(image, ".dynamic") = Sec(sizes, 11)
    BY <1>1, <2>1, SectionOfIs, Zenon
  <2>4. QED
    BY <2>2 DEF StartAt
<1>5. /\ r.textEnd = Max(Ends(text))
      /\ r.roStart = (IF ro = {} THEN AlignUp(Max(Ends(text)), Page) ELSE Min(Starts(ro)))
      /\ r.roEnd = (IF ro = {} THEN r.roStart ELSE Max(Ends(ro)))
      /\ r.relroStart = Min(Starts(relro)) /\ r.relroContentEnd = Max(Ends(relro))
      /\ r.dataStart = Min({d} \cup Starts(data)) /\ r.dataEnd = Max({d + 8} \cup Ends(data))
      /\ r.dataStoredEnd = Max({d + 8} \cup Ends(Stored(data)))
      /\ r.tlsStart = (IF tls = {} THEN 0 ELSE Min(Starts(tls)))
      /\ r.tlsFileEnd = Max({0} \cup Ends(Stored(tls))) /\ r.tlsMemoryEnd = Max({0} \cup Ends(tls))
  <2> HIDE DEF d
  <2>1. QED
    BY <1>4, Zenon DEF Regions
<1> HIDE DEF text, ro, relro, data, tls, r, d
<1>6. /\ \A i \in P : StartAt(sizes, i) \in Nat /\ EndAt(sizes, i) \in Nat /\ StartAt(sizes, i) < EndAt(sizes, i)
      /\ \A i, j \in P : i < j /\ i # 14 => EndAt(sizes, i) <= StartAt(sizes, j)
      /\ \A i, j \in P : i <= j => StartAt(sizes, i) <= StartAt(sizes, j)
  BY RowNumbers
<1>7. d \in Nat
  BY <1>1, <1>6 DEF d
<1>8. \A R \in SUBSET (P \ {14}) :
        /\ LowOf(sizes, R) \in SUBSET Nat /\ HighOf(sizes, R) \in SUBSET Nat
        /\ R # {} => /\ \E i \in R : Min(LowOf(sizes, R)) = StartAt(sizes, i)
                     /\ \A i \in R : Min(LowOf(sizes, R)) <= StartAt(sizes, i)
                     /\ \E i \in R : Max(HighOf(sizes, R)) = EndAt(sizes, i)
                     /\ \A i \in R : EndAt(sizes, i) <= Max(HighOf(sizes, R))
        /\ \A b \in Nat : /\ Max({b} \cup HighOf(sizes, R)) \in Nat /\ b <= Max({b} \cup HighOf(sizes, R))
                          /\ \A i \in R : EndAt(sizes, i) <= Max({b} \cup HighOf(sizes, R))
                          /\ Max({b} \cup HighOf(sizes, R)) = b \/ \E i \in R : Max({b} \cup HighOf(sizes, R)) = EndAt(sizes, i)
  BY <1>1, RowsReach, Zenon DEF StartAt, EndAt
<1>9. \A i \in P : i \in 1 .. 15
  BY DEF Present
<1> HIDE DEF P
<1>10. r.textEnd = EndAt(sizes, 1)
  <2>1. P \cap {1} \in SUBSET (P \ {14}) /\ P \cap {1} # {} /\ \A i \in P \cap {1} : i = 1
    BY <1>1
  <2>2. \E i \in P \cap {1} : Max(HighOf(sizes, P \cap {1})) = EndAt(sizes, i)
    BY <1>8, <2>1
  <2>3. QED
    BY <1>3, <1>5, <2>1, <2>2
<1>11. /\ \E i \in P \cap 2 .. 4 : r.roStart = StartAt(sizes, i)
       /\ \A i \in P \cap 2 .. 4 : r.roStart <= StartAt(sizes, i)
       /\ \E i \in P \cap 2 .. 4 : r.roEnd = EndAt(sizes, i)
       /\ \A i \in P \cap 2 .. 4 : EndAt(sizes, i) <= r.roEnd
  <2>1. P \cap 2 .. 4 \in SUBSET (P \ {14}) /\ P \cap 2 .. 4 # {}
    <3>1. 3 \in 2 .. 4 /\ 14 \notin 2 .. 4
      OBVIOUS
    <3>2. QED
      BY <1>1, <3>1
  <2>2. r.roStart = Min(LowOf(sizes, P \cap 2 .. 4)) /\ r.roEnd = Max(HighOf(sizes, P \cap 2 .. 4))
    BY <1>3, <1>5
  <2> DEFINE rows == P \cap 2 .. 4
             low == Min(LowOf(sizes, rows))
             high == Max(HighOf(sizes, rows))
  <2>3. /\ \E i \in rows : low = StartAt(sizes, i)
        /\ \A i \in rows : low <= StartAt(sizes, i)
        /\ \E i \in rows : high = EndAt(sizes, i)
        /\ \A i \in rows : EndAt(sizes, i) <= high
    <3>1. rows \in SUBSET (P \ {14}) /\ rows # {}
      BY <2>1
    <3> HIDE DEF rows
    <3>2. QED
      BY <1>8, <3>1, Zenon
  <2>4. r.roStart = low /\ r.roEnd = high
    BY <2>2, Zenon
  <2> HIDE DEF low, high
  <2>5. QED
    BY <2>3, <2>4, Zenon
<1>12. /\ \E i \in P \cap 5 .. 7 : r.relroStart = StartAt(sizes, i)
       /\ \A i \in P \cap 5 .. 7 : r.relroStart <= StartAt(sizes, i)
       /\ \E i \in P \cap 5 .. 7 : r.relroContentEnd = EndAt(sizes, i)
       /\ \A i \in P \cap 5 .. 7 : EndAt(sizes, i) <= r.relroContentEnd
  <2>1. P \cap 5 .. 7 \in SUBSET (P \ {14}) /\ P \cap 5 .. 7 # {}
    <3>1. 6 \in 5 .. 7 /\ 14 \notin 5 .. 7
      OBVIOUS
    <3>2. QED
      BY <1>1, <3>1
  <2>2. r.relroStart = Min(LowOf(sizes, P \cap 5 .. 7)) /\ r.relroContentEnd = Max(HighOf(sizes, P \cap 5 .. 7))
    BY <1>3, <1>5
  <2> DEFINE rows == P \cap 5 .. 7
             low == Min(LowOf(sizes, rows))
             high == Max(HighOf(sizes, rows))
  <2>3. /\ \E i \in rows : low = StartAt(sizes, i)
        /\ \A i \in rows : low <= StartAt(sizes, i)
        /\ \E i \in rows : high = EndAt(sizes, i)
        /\ \A i \in rows : EndAt(sizes, i) <= high
    <3>1. rows \in SUBSET (P \ {14}) /\ rows # {}
      BY <2>1
    <3> HIDE DEF rows
    <3>2. QED
      BY <1>8, <3>1, Zenon
  <2>4. r.relroStart = low /\ r.relroContentEnd = high
    BY <2>2, Zenon
  <2> HIDE DEF low, high
  <2>5. QED
    BY <2>3, <2>4, Zenon
<1> DEFINE D == P \cap {12, 15}
<1>13. D \in SUBSET (P \ {14}) /\ P \cap {12} \in SUBSET (P \ {14}) /\ \A i \in D : 11 <= i
  <2>1. 14 # 12 /\ 14 # 15 /\ 11 <= 12 /\ 11 <= 15
    OBVIOUS
  <2>2. QED
    BY <2>1
<1>14. r.dataStart = d
  <2>1. r.dataStart = Min({d} \cup LowOf(sizes, D))
    BY <1>3, <1>5
  <2>2. \A x \in LowOf(sizes, D) : d <= x
    <3>1. \A i \in D : d <= StartAt(sizes, i)
      BY <1>1, <1>6, <1>13 DEF d
    <3>2. QED
      BY <3>1, Zenon DEF LowOf, StartAt
  <2>3. {d} \cup LowOf(sizes, D) \in SUBSET Nat /\ {d} \cup LowOf(sizes, D) # {}
    BY <1>7, <1>8, <1>13
  <2>4. Min({d} \cup LowOf(sizes, D)) \in {d} \cup LowOf(sizes, D) /\ Min({d} \cup LowOf(sizes, D)) <= d
    BY <2>3, MinIs
  <2> DEFINE m == Min({d} \cup LowOf(sizes, D))
  <2>5. m \in Nat /\ d <= m
    BY <1>7, <2>2, <2>3, <2>4
  <2> HIDE DEF m
  <2>6. m <= d
    BY <2>4 DEF m
  <2>7. QED
    BY <1>7, <2>1, <2>5, <2>6 DEF m
<1>15. d + 8 \in Nat
  BY <1>7
<1>22. ASSUME NEW R \in SUBSET (P \ {14}), NEW b \in Nat, NEW m, m = Max({b} \cup HighOf(sizes, R))
       PROVE  /\ m \in Nat /\ b <= m /\ \A i \in R : EndAt(sizes, i) <= m
              /\ m = b \/ \E i \in R : m = EndAt(sizes, i)
  BY <1>8, <1>22, Zenon
<1>16. r.dataEnd \in Nat /\ d + 8 <= r.dataEnd /\ \A i \in D : EndAt(sizes, i) <= r.dataEnd
  <2>1. r.dataEnd = Max({d + 8} \cup HighOf(sizes, D))
    BY <1>3, <1>5
  <2> HIDE DEF D
  <2>2. QED
    BY <1>13, <1>15, <1>22, <2>1, Zenon
<1>17. /\ r.dataStoredEnd \in Nat /\ d + 8 <= r.dataStoredEnd /\ \A i \in P \cap {12} : EndAt(sizes, i) <= r.dataStoredEnd
       /\ r.dataStoredEnd = d + 8 \/ \E i \in P \cap {12} : r.dataStoredEnd = EndAt(sizes, i)
  <2> DEFINE F == P \cap {12}
             e == d + 8
             m == r.dataStoredEnd
  <2>1. m = Max({e} \cup HighOf(sizes, F))
    BY <1>3, <1>5
  <2>2. F \in SUBSET (P \ {14}) /\ e \in Nat
    BY <1>13, <1>15
  <2> HIDE DEF F, e, m
  <2>3. /\ m \in Nat /\ e <= m /\ \A i \in F : EndAt(sizes, i) <= m
        /\ m = e \/ \E i \in F : m = EndAt(sizes, i)
    BY <1>22, <2>1, <2>2
  <2>4. QED
    BY <2>3 DEF F, e, m
<1>18. r.dataStoredEnd <= r.dataEnd
  BY <1>16, <1>17
<1>19. 13 \notin P => r.tlsStart = 0
  BY <1>3, <1>5
<1>20. ASSUME 13 \in P
       PROVE  /\ r.tlsStart = StartAt(sizes, 13) /\ r.tlsFileEnd = EndAt(sizes, 13)
              /\ r.tlsMemoryEnd \in Nat /\ r.tlsFileEnd <= r.tlsMemoryEnd
  <2> DEFINE T == P \cap {13, 14}
             low == LowOf(sizes, T)
             high == HighOf(sizes, T)
             a == StartAt(sizes, 13)
             b == EndAt(sizes, 13)
  <2>1. a \in Nat /\ b \in Nat /\ a < b
    BY <1>6, <1>20
  <2>2. \A i \in T : i \in P /\ 13 <= i
    OBVIOUS
  <2>3. \A i \in T : StartAt(sizes, i) \in Nat /\ EndAt(sizes, i) \in Nat /\ a <= StartAt(sizes, i)
    BY <1>6, <1>20, <2>2
  <2>4. low \in SUBSET Nat /\ high \in SUBSET Nat /\ a \in low /\ b \in high /\ \A x \in low : a <= x
    BY <1>20, <2>3, Zenon DEF LowOf, HighOf, StartAt, EndAt
  <2>5. r.tlsStart = Min(low) /\ r.tlsMemoryEnd = Max({0} \cup high)
    BY <1>3, <1>5, <1>20
  <2>6. \E c \in Nat : \A x \in high : x <= c
    <3>1. CASE 14 \in P
      <4>1. EndAt(sizes, 14) \in Nat
        BY <1>6, <3>1
      <4>2. \A x \in high : x = b \/ x = EndAt(sizes, 14)
        BY Zenon DEF HighOf, EndAt
      <4> HIDE DEF high, b
      <4>3. b + EndAt(sizes, 14) \in Nat /\ \A x \in high : x <= b + EndAt(sizes, 14)
        BY <2>1, <4>1, <4>2
      <4>4. QED
        BY <4>3
    <3>2. CASE 14 \notin P
      <4>1. \A x \in high : x = b
        BY <3>2, Zenon DEF HighOf, EndAt
      <4>2. QED
        BY <2>1, <4>1
    <3>3. QED
      BY <3>1, <3>2
  <2> HIDE DEF low, high, a, b, T
  <2>7. Min(low) = a
    <3>1. low # {}
      BY <2>4
    <3>2. Min(low) \in low /\ \A x \in low : Min(low) <= x
      BY <2>4, <3>1, MinIs
    <3>3. Min(low) <= a /\ a <= Min(low) /\ Min(low) \in Nat
      BY <2>4, <3>2
    <3>4. QED
      BY <2>1, <3>3
  <2>8. r.tlsMemoryEnd \in Nat /\ b <= r.tlsMemoryEnd
    <3>1. PICK c \in Nat : \A x \in high : x <= c
      BY <2>6
    <3> DEFINE U == {0} \cup high
    <3>2. U \in SUBSET Int /\ U \in SUBSET Nat /\ U # {} /\ b \in U /\ \A x \in U : x <= c
      BY <2>4, <3>1
    <3> HIDE DEF U
    <3>5. c \in Int
      OBVIOUS
    <3>3. Max(U) \in U /\ \A x \in U : x <= Max(U)
      BY <3>2, <3>5, MaxIs, Zenon
    <3>4. QED
      BY <2>5, <3>2, <3>3 DEF U
  <2>9. r.tlsFileEnd = b
    <3> DEFINE F == P \cap {13}
    <3>1. F \in SUBSET (P \ {14}) /\ 0 \in Nat /\ 13 \in F /\ \A i \in F : i = 13
      BY <1>20
    <3>2. r.tlsFileEnd = Max({0} \cup HighOf(sizes, F))
      BY <1>3, <1>5
    <3> HIDE DEF F
    <3>3. EndAt(sizes, 13) <= r.tlsFileEnd /\ (r.tlsFileEnd = 0 \/ r.tlsFileEnd = EndAt(sizes, 13)) /\ r.tlsFileEnd \in Nat
      <4> DEFINE m == r.tlsFileEnd
      <4>1. m = Max({0} \cup HighOf(sizes, F))
        BY <3>2
      <4> HIDE DEF m
      <4>2. /\ m \in Nat /\ \A i \in F : EndAt(sizes, i) <= m
            /\ m = 0 \/ \E i \in F : m = EndAt(sizes, i)
        BY <1>22, <3>1, <4>1
      <4>3. QED
        BY <3>1, <4>2 DEF m
    <3>4. QED
      BY <2>1, <3>3 DEF b
  <2>10. QED
    BY <2>5, <2>7, <2>8, <2>9 DEF a, b
<1>21. QED
  BY <1>10, <1>11, <1>12, <1>14, <1>16, <1>17, <1>18, <1>19, <1>20, Zenon DEF r, d, P

(* The regions lie one behind the other.                                     *)
LEMMA RegionsOrdered ==
  ASSUME NEW sizes, Buildable(sizes), NEW image, image.sections = LinkedPie(sizes)
  PROVE  LET r == Regions(image)
         IN  /\ r.textEnd \in Nat /\ r.roStart \in Nat /\ r.roEnd \in Nat /\ r.relroStart \in Nat /\ r.relroContentEnd \in Nat
             /\ r.dataStart \in Nat /\ r.dataEnd \in Nat /\ r.dataStoredEnd \in Nat
             /\ 0 < r.textEnd /\ r.textEnd <= r.roStart /\ r.roStart < r.roEnd /\ r.roEnd <= r.relroStart
             /\ r.relroStart < r.relroContentEnd /\ r.relroContentEnd <= r.dataStart
             /\ r.dataStart + 8 <= r.dataStoredEnd /\ r.dataStoredEnd <= r.dataEnd
<1> DEFINE P == Present(sizes)
           r == Regions(image)
           start(i) == StartAt(sizes, i)
           end(i) == EndAt(sizes, i)
<1>1. 1 \in P /\ 11 \in P
  BY DEF Buildable
<1>2. /\ r.textEnd = end(1)
      /\ (\E i \in P \cap 2 .. 4 : r.roStart = start(i)) /\ \A i \in P \cap 2 .. 4 : r.roStart <= start(i)
      /\ (\E i \in P \cap 2 .. 4 : r.roEnd = end(i)) /\ \A i \in P \cap 2 .. 4 : end(i) <= r.roEnd
      /\ (\E i \in P \cap 5 .. 7 : r.relroStart = start(i))
      /\ (\E i \in P \cap 5 .. 7 : r.relroContentEnd = end(i)) /\ \A i \in P \cap 5 .. 7 : end(i) <= r.relroContentEnd
      /\ r.dataStart = start(11)
      /\ r.dataEnd \in Nat /\ r.dataStoredEnd \in Nat /\ start(11) + 8 <= r.dataStoredEnd /\ r.dataStoredEnd <= r.dataEnd
  <2> HIDE DEF P
  <2>1. QED
    BY RegionsAre, ZenonT(40) DEF P
<1>3. /\ \A i \in P : start(i) \in Nat /\ end(i) \in Nat /\ start(i) < end(i)
      /\ \A i, j \in P : i < j /\ i # 14 => end(i) <= start(j)
  BY RowNumbers, Zenon
<1> HIDE DEF P, r, start, end
<1>4. PICK a \in P \cap 2 .. 4 : r.roStart = start(a)
  BY <1>2
<1>5. PICK b \in P \cap 2 .. 4 : r.roEnd = end(b)
  BY <1>2
<1>6. PICK c \in P \cap 5 .. 7 : r.relroStart = start(c)
  BY <1>2
<1>7. PICK d \in P \cap 5 .. 7 : r.relroContentEnd = end(d)
  BY <1>2
<1>8. /\ a \in P /\ 1 < a /\ b \in P /\ b < c /\ b # 14 /\ c \in P /\ d \in P /\ d < 11 /\ d # 14 /\ 1 # 14
  BY <1>4, <1>5, <1>6, <1>7
<1>9. end(1) <= start(a) /\ end(b) <= start(c) /\ end(d) <= start(11)
  BY <1>1, <1>3, <1>8
<1>10. start(a) < end(a) /\ end(a) <= r.roEnd /\ start(c) < end(c) /\ end(c) <= r.relroContentEnd
  BY <1>2, <1>3, <1>4, <1>6
<1>11. /\ start(1) \in Nat /\ end(1) \in Nat /\ start(1) < end(1) /\ start(a) \in Nat /\ end(a) \in Nat /\ end(b) \in Nat
       /\ start(c) \in Nat /\ end(c) \in Nat /\ end(d) \in Nat /\ start(11) \in Nat
  BY <1>1, <1>3, <1>8
<1>12. /\ r.textEnd = end(1) /\ r.dataStart = start(11)
       /\ r.dataEnd \in Nat /\ r.dataStoredEnd \in Nat /\ start(11) + 8 <= r.dataStoredEnd /\ r.dataStoredEnd <= r.dataEnd
  BY <1>2
<1>13. /\ r.textEnd \in Nat /\ r.roStart \in Nat /\ r.roEnd \in Nat /\ r.relroStart \in Nat /\ r.relroContentEnd \in Nat
       /\ r.dataStart \in Nat /\ r.dataEnd \in Nat /\ r.dataStoredEnd \in Nat
  BY <1>4, <1>5, <1>6, <1>7, <1>11, <1>12
<1>14. /\ 0 < r.textEnd /\ r.textEnd <= r.roStart /\ r.roStart < r.roEnd /\ r.roEnd <= r.relroStart
       /\ r.relroStart < r.relroContentEnd /\ r.relroContentEnd <= r.dataStart
       /\ r.dataStart + 8 <= r.dataStoredEnd /\ r.dataStoredEnd <= r.dataEnd
  <2>1. 0 < end(1)
    BY <1>11
  <2>2. r.roStart < r.roEnd /\ r.relroStart < r.relroContentEnd
    BY <1>4, <1>6, <1>10, <1>11, <1>13
  <2>3. QED
    BY <1>4, <1>5, <1>6, <1>7, <1>9, <1>12, <2>1, <2>2
<1>15. QED
  BY <1>13, <1>14 DEF r

(* The blocks of the process parameters, one behind the other.                *)
LEMMA BlocksAre ==
  /\ BlockOffset(1) = 0 /\ BlockOffset(2) = \ha8 /\ BlockOffset(3) = \he0 /\ BlockOffset(4) = \hf0
  /\ BlockOffset(5) = \h168 /\ BlockOffset(6) = \h228 /\ HeapSize = \h260 /\ HeapExtended = \h268 /\ BlocksSize = \h270
<1> DEFINE Turn(f) == [k \in 0 .. Len(BlockSizes) |-> IF k = 0 THEN 0 ELSE f[k - 1] + BlockSizes[k]]
           ends == <<\ha8, \he0, \hf0, \h168, \h228, \h260>>
           w == [k \in 0 .. 6 |-> IF k = 0 THEN 0 ELSE ends[k]]
           b == BlockEnds
<1>1. /\ Len(BlockSizes) = 6 /\ BlockSizes[1] = \ha8 /\ BlockSizes[2] = \h38 /\ BlockSizes[3] = \h10 /\ BlockSizes[4] = \h78
      /\ BlockSizes[5] = \hc0 /\ BlockSizes[6] = \h38
  BY SMT DEF BlockSizes
<1>2. /\ w[0] = 0 /\ w[1] = \ha8 /\ w[2] = \he0 /\ w[3] = \hf0 /\ w[4] = \h168 /\ w[5] = \h228 /\ w[6] = \h260
      /\ w = [k \in 0 .. 6 |-> w[k]]
  BY SMT
<1>3. b = CHOOSE g : g = Turn(g)
  BY Zenon DEF BlockEnds
<1>4. \A k \in 0 .. 6 : k = 0 \/ k = 1 \/ k = 2 \/ k = 3 \/ k = 4 \/ k = 5 \/ k = 6
  OBVIOUS
<1>5. w = Turn(w)
  <2> HIDE DEF w
  <2>1. \A k \in 0 .. 6 : w[k] = Turn(w)[k]
    BY <1>1, <1>2, <1>4, SMT
  <2>2. Turn(w) = [k \in 0 .. 6 |-> Turn(w)[k]]
    BY <1>1, SMT
  <2>3. QED
    BY <1>2, <2>1, <2>2
<1> HIDE DEF b
<1>6. b = Turn(b)
  <2> HIDE DEF w, Turn
  <2>1. QED
    BY <1>3, <1>5
<1>7. /\ b[0] = 0 /\ b[1] = b[0] + \ha8 /\ b[2] = b[1] + \h38 /\ b[3] = b[2] + \h10 /\ b[4] = b[3] + \h78
      /\ b[5] = b[4] + \hc0 /\ b[6] = b[5] + \h38
  <2>1. \A k \in 0 .. 6 : b[k] = IF k = 0 THEN 0 ELSE b[k - 1] + BlockSizes[k]
    <3>1. \A k \in 0 .. 6 : Turn(b)[k] = IF k = 0 THEN 0 ELSE b[k - 1] + BlockSizes[k]
      BY <1>1, SMT
    <3> HIDE DEF Turn
    <3>2. QED
      BY <1>6, <3>1
  <2>2. QED
    BY <1>1, <2>1, SMT
<1>8. /\ b[0] = 0 /\ b[1] = \ha8 /\ b[2] = \he0 /\ b[3] = \hf0 /\ b[4] = \h168 /\ b[5] = \h228 /\ b[6] = \h260
  BY <1>7, SMT
<1>9. QED
  BY <1>8, SMT DEF BlockOffset, HeapSize, HeapExtended, BlocksSize, b

(* The parameters follow the contents of their segment.                      *)
LEMMA ParametersAre ==
  ASSUME NEW sizes, Buildable(sizes), NEW image, image.sections = LinkedPie(sizes)
  PROVE  LET r == Regions(image)
         IN  /\ ProcessAddress(r) \in Nat /\ ProcessAddress(r) % 8 = 0
             /\ r.relroContentEnd <= ProcessAddress(r) /\ ProcessAddress(r) < r.relroContentEnd + 8
             /\ BlocksAddress(r) = ProcessAddress(r) + ProcessSize
             /\ RelroEnd(r) = ProcessAddress(r) + ProcessSize + BlocksSize
<1> DEFINE r == Regions(image)
           c == r.relroContentEnd
           e == r.roEnd
           s == r.relroStart
           p == ProcessAddress(r)
<1>1. c \in Nat /\ e \in Nat /\ s \in Nat /\ ~(e > s)
  BY RegionsOrdered
<1> HIDE DEF c, e, s
<1>2. Max({c, 0}) = c
  <2>1. {c, 0} \in SUBSET Int /\ {c, 0} # {} /\ c \in Int /\ \A x \in {c, 0} : x <= c
    BY <1>1
  <2>2. Max({c, 0}) \in {c, 0} /\ c <= Max({c, 0})
    BY <2>1, MaxIs
  <2>3. QED
    BY <1>1, <2>2
<1>3. p = AlignUp(c, 8)
  <2>1. p = AlignUp(Max({c, IF e > s THEN e ELSE 0}), 8)
    BY Zenon DEF ProcessAddress, c, e, s
  <2>2. (IF e > s THEN e ELSE 0) = 0
    BY <1>1
  <2>3. QED
    BY <1>2, <2>1, <2>2
<1>4. AlignUp(c, 8) \in Int /\ AlignUp(c, 8) >= c /\ AlignUp(c, 8) < c + 8 /\ AlignUp(c, 8) % 8 = 0
  BY <1>1, AlignUpIs
<1>5. p \in Nat /\ p % 8 = 0 /\ c <= p /\ p < c + 8
  BY <1>1, <1>3, <1>4
<1>6. BlocksAddress(r) = AlignUp(p + ProcessSize, 8)
  BY Zenon DEF BlocksAddress
<1> HIDE DEF p
<1>7. p + ProcessSize \in Int /\ (p + ProcessSize) % 8 = 0
  BY <1>5, SMT DEF ProcessSize
<1>8. AlignUp(p + ProcessSize, 8) = p + ProcessSize
  <2> DEFINE q == p + ProcessSize
  <2> HIDE DEF q
  <2>1. q \in Int /\ q % 8 = 0
    BY <1>7 DEF q
  <2>2. AlignUp(q, 8) = q
    BY <2>1, AlignUpIs
  <2>3. QED
    BY <2>2 DEF q
<1>9. RelroEnd(r) = p + ProcessSize + BlocksSize
  BY <1>6, <1>8 DEF RelroEnd
<1>10. QED
  BY <1>5, <1>6, <1>8, <1>9 DEF p, c

(* The tables behind the image, in their order.                              *)
TableRows(image, modules, strings) ==
  << [name |-> "strings", size |-> 1 + StringSize * Len(strings), alignment |-> 16],
     [name |-> "symbols", size |-> 24 * Len(image.symbols), alignment |-> 8],
     [name |-> "jump", size |-> 24 * Len(image.plt), alignment |-> 8],
     [name |-> "relocations", size |-> 24 * (8 + Len(image.relocations)), alignment |-> 8],
     [name |-> "hash", size |-> 8 + 8 * Len(image.symbols), alignment |-> 8],
     [name |-> "note", size |-> NoteSize, alignment |-> 4],
     [name |-> "dynamic", size |-> DynamicSize(modules), alignment |-> 8] >>
TableNames == <<"strings", "symbols", "jump", "relocations", "hash", "note", "dynamic">>

(* The writer's seven tables follow each other from a base.                  *)
LEMMA TablesAre ==
  ASSUME NEW base \in Nat, base % 16 = 0, NEW image, NEW modules, NEW strings,
         Len(strings) \in Nat, Len(modules) \in Nat, Len(image.symbols) \in Nat, Len(image.plt) \in Nat, Len(image.relocations) \in Nat
  PROVE  LET t == Tables(base, image, modules, strings)
         IN  /\ DOMAIN t = 1 .. 7 /\ Last(t) = t[7] /\ t[1].at = base
             /\ \A i \in 1 .. 7 : t[i].name = TableNames[i] /\ t[i].at \in Nat /\ t[i].size \in Nat
             /\ \A i \in 1 .. 6 : t[i].at + t[i].size <= t[i + 1].at
             /\ t[7].size > 0
<1> DEFINE row == TableRows(image, modules, strings)
           size(i) == row[i].size
           up(i, v) == AlignUp(v, row[i].alignment)
           Turn(f) == [i \in 0 .. Len(row) |-> IF i = 0 THEN base ELSE AlignUp(f[i - 1], row[i].alignment) + row[i].size]
           step == [i \in 1 .. 7 |-> [v \in Int |-> up(i, v) + size(i)]]
           e == CHOOSE g : g = Turn(g)
           t == Tables(base, image, modules, strings)
<1>1. /\ Len(row) = 7 /\ DOMAIN row = 1 .. 7
      /\ size(1) = 1 + StringSize * Len(strings) /\ size(2) = 24 * Len(image.symbols) /\ size(3) = 24 * Len(image.plt)
      /\ size(4) = 24 * (8 + Len(image.relocations)) /\ size(5) = 8 + 8 * Len(image.symbols) /\ size(6) = NoteSize
      /\ size(7) = DynamicSize(modules)
  BY SMT DEF TableRows
<1>2. /\ row[1].alignment = 16 /\ row[2].alignment = 8 /\ row[3].alignment = 8 /\ row[4].alignment = 8 /\ row[5].alignment = 8
      /\ row[6].alignment = 4 /\ row[7].alignment = 8
  BY SMT DEF TableRows
<1>3. /\ row[1].name = TableNames[1] /\ row[2].name = TableNames[2] /\ row[3].name = TableNames[3] /\ row[4].name = TableNames[4]
      /\ row[5].name = TableNames[5] /\ row[6].name = TableNames[6] /\ row[7].name = TableNames[7]
  BY SMT DEF TableRows, TableNames
<1>4. /\ t = [i \in DOMAIN row |-> [name |-> row[i].name, at |-> AlignUp(e[i - 1], row[i].alignment), size |-> row[i].size]]
  BY Zenon DEF Tables, TableRows
<1>5. \A i \in 1 .. 7 : i = 1 \/ i = 2 \/ i = 3 \/ i = 4 \/ i = 5 \/ i = 6 \/ i = 7
  OBVIOUS
<1>6. \A i \in 1 .. 7 : size(i) \in Nat
  <2>1. /\ size(1) \in Nat /\ size(2) \in Nat /\ size(3) \in Nat /\ size(4) \in Nat /\ size(5) \in Nat /\ size(6) \in Nat
        /\ size(7) \in Nat
    <3> DEFINE a == Len(strings)
               b == Len(modules)
               c == Len(image.symbols)
               d == Len(image.plt)
               g == Len(image.relocations)
    <3>1. /\ size(1) = 1 + 16 * a /\ size(2) = 24 * c /\ size(3) = 24 * d /\ size(4) = 24 * (8 + g) /\ size(5) = 8 + 8 * c
          /\ size(6) = \h24 /\ size(7) = 16 * (4 * b + 28)
      BY <1>1, Zenon DEF StringSize, NoteSize, DynamicSize
    <3>2. a \in Nat /\ b \in Nat /\ c \in Nat /\ d \in Nat /\ g \in Nat
      OBVIOUS
    <3> HIDE DEF a, b, c, d, g, row, size
    <3>3. \A n \in Nat : 16 * n \in Nat /\ 1 + 16 * n \in Nat /\ 24 * n \in Nat /\ 24 * (8 + n) \in Nat /\ 8 + 8 * n \in Nat
                        /\ 16 * (4 * n + 28) \in Nat
      OBVIOUS
    <3>4. \h24 \in Nat
      OBVIOUS
    <3>5. 1 + 16 * a \in Nat /\ 24 * c \in Nat /\ 24 * d \in Nat /\ 24 * (8 + g) \in Nat /\ 8 + 8 * c \in Nat /\ 16 * (4 * b + 28) \in Nat
      BY <3>2, <3>3
    <3>6. QED
      BY <3>1, <3>4, <3>5, Zenon
  <2> HIDE DEF row, size
  <2>2. QED
    BY <1>5, <2>1
<1>7. size(7) > 0
  <2> HIDE DEF row, size
  <2>1. QED
    BY <1>1, SMT DEF DynamicSize
<1>8. \A i \in 1 .. 7, v \in Int : up(i, v) \in Int /\ up(i, v) >= v
  <2> TAKE i \in 1 .. 7, v \in Int
  <2>1. row[i].alignment = 16 \/ row[i].alignment = 8 \/ row[i].alignment = 4
    <3> HIDE DEF row
    <3>1. QED
      BY <1>2, <1>5
  <2> HIDE DEF row
  <2>2. QED
    BY <2>1, AlignUpIs
<1>9. up(1, base) = base
  BY <1>2, SMT DEF AlignUp
<1>10. DOMAIN t = 1 .. 7 /\ \A i \in 1 .. 7 : t[i].name = row[i].name /\ t[i].at = up(i, e[i - 1]) /\ t[i].size = size(i)
  <2> HIDE DEF t, e, row
  <2>1. QED
    BY <1>1, <1>4 DEF row
<1> HIDE DEF up, size
<1>11. step \in Turns(Int, 7)
  <2>1. ASSUME NEW i \in 1 .. 7, NEW v \in Int PROVE up(i, v) + size(i) \in Int
    <3>1. up(i, v) \in Int /\ size(i) \in Nat
      BY <1>6, <1>8, Zenon
    <3>2. QED
      BY <3>1
  <2>2. QED
    BY <2>1 DEF Turns
<1>12. PICK f : Loops(Int, base, 7, step, f)
  <2>1. 7 \in Nat /\ base \in Int
    OBVIOUS
  <2> HIDE DEF step
  <2>2. QED
    BY <1>11, <2>1, Iteration
<1>13. f = Turn(f)
  <2>1. \A i \in 0 .. 7 : Turn(f)[i] = IF i = 0 THEN base ELSE up(i, f[i - 1]) + size(i)
    BY <1>1 DEF up, size
  <2>2. \A i \in 0 .. 7 : f[i] = Turn(f)[i]
    <3> HIDE DEF Turn
    <3>1. SUFFICES ASSUME NEW i \in 0 .. 7 PROVE f[i] = Turn(f)[i]
      OBVIOUS
    <3>2. CASE i = 0
      BY <1>12, <2>1, <3>2 DEF Loops
    <3>3. CASE i # 0
      <4>1. i \in 1 .. 7 /\ i - 1 \in 0 .. 7
        BY <3>3
      <4>2. f[i - 1] \in Int
        BY <1>12, <4>1 DEF Loops
      <4>3. f[i] = step[i][f[i - 1]] /\ step[i][f[i - 1]] = up(i, f[i - 1]) + size(i)
        BY <1>12, <4>1, <4>2 DEF Loops
      <4>4. QED
        BY <2>1, <3>3, <4>1, <4>3
    <3>4. QED
      BY <3>2, <3>3
  <2>3. f = [i \in 0 .. 7 |-> f[i]] /\ Turn(f) = [i \in 0 .. 7 |-> Turn(f)[i]]
    <3> HIDE DEF row
    <3>1. Turn(f) = [i \in 0 .. 7 |-> Turn(f)[i]]
      BY <1>1
    <3>2. f \in [0 .. 7 -> Int]
      BY <1>12 DEF Loops
    <3> HIDE DEF Turn
    <3>3. QED
      BY <3>1, <3>2
  <2> HIDE DEF Turn
  <2>4. QED
    BY <2>2, <2>3, Zenon
<1>14. e = Turn(e)
  <2> HIDE DEF Turn
  <2>1. QED
    BY <1>13
<1>15. e[0] = base /\ \A i \in 1 .. 7 : e[i] = up(i, e[i - 1]) + size(i)
  <2>1. \A i \in 0 .. 7 : Turn(e)[i] = IF i = 0 THEN base ELSE up(i, e[i - 1]) + size(i)
    <3> HIDE DEF e
    <3>1. QED
      BY <1>1 DEF up, size
  <2>2. 0 \in 0 .. 7 /\ \A i \in 1 .. 7 : i \in 0 .. 7 /\ i # 0
    OBVIOUS
  <2> HIDE DEF Turn, e
  <2>3. QED
    BY <1>14, <2>1, <2>2
<1> HIDE DEF e
<1>16. \A i \in 0 .. 7 : e[i] \in Nat
  <2>1. ASSUME NEW i \in 1 .. 7, e[i - 1] \in Nat PROVE e[i] \in Nat
    <3>1. e[i - 1] \in Int
      BY <2>1
    <3>2. up(i, e[i - 1]) \in Int /\ up(i, e[i - 1]) >= e[i - 1] /\ size(i) \in Nat /\ e[i] = up(i, e[i - 1]) + size(i)
      BY <1>6, <1>8, <1>15, <3>1, Zenon
    <3>3. QED
      BY <2>1, <3>2
  <2>2. e[0] \in Nat /\ 7 \in Nat
    BY <1>15
  <2>3. QED
    BY <2>1, <2>2, Invariance
<1>17. \A i \in 1 .. 7 : e[i - 1] \in Nat /\ e[i] \in Nat
  BY <1>16
<1>26. t = [i \in 1 .. 7 |-> t[i]]
  <2>1. t = [i \in DOMAIN row |-> [name |-> row[i].name, at |-> up(i, e[i - 1]), size |-> row[i].size]] /\ DOMAIN row = 1 .. 7
    BY <1>1, <1>4, Zenon DEF up, e
  <2> HIDE DEF t, row, e
  <2>2. QED
    BY <2>1
<1> HIDE DEF row, t
<1>18. \A i \in 1 .. 7 : t[i].at \in Nat /\ e[i - 1] <= t[i].at /\ t[i].at + t[i].size = e[i]
  <2> TAKE i \in 1 .. 7
  <2>1. t[i].at = up(i, e[i - 1]) /\ t[i].size = size(i) /\ e[i - 1] \in Nat
    BY <1>10, <1>17
  <2>2. e[i - 1] \in Int
    BY <2>1
  <2>3. up(i, e[i - 1]) \in Int /\ up(i, e[i - 1]) >= e[i - 1] /\ e[i] = up(i, e[i - 1]) + size(i)
    BY <1>8, <1>15, <2>2, Zenon
  <2>4. QED
    BY <2>1, <2>3
<1>19. \A i \in 1 .. 6 : t[i].at + t[i].size <= t[i + 1].at
  <2> TAKE i \in 1 .. 6
  <2>1. i \in 1 .. 7 /\ i + 1 \in 1 .. 7 /\ (i + 1) - 1 = i
    OBVIOUS
  <2>2. QED
    BY <1>18, <2>1
<1>20. t[1].at = base
  BY <1>9, <1>10, <1>15
<1>21. Last(t) = t[7]
  <2>1. t \in Seq({t[i] : i \in 1 .. 7})
    BY <1>26
  <2>2. Len(t) = 7
    BY <1>10, <2>1
  <2>3. QED
    BY <2>2 DEF Last
<1>22. \A i \in 1 .. 7 : t[i].name = TableNames[i]
  BY <1>3, <1>5, <1>10
<1>23. \A i \in 1 .. 7 : t[i].size \in Nat
  BY <1>6, <1>10
<1>24. t[7].size > 0
  BY <1>7, <1>10
<1>25. QED
  BY <1>10, <1>18, <1>19, <1>20, <1>21, <1>22, <1>23, <1>24 DEF t

(* Where in the file the writer finds the parts of the image.                 *)
UnwindOf(image, r) ==
  IF HasSection(image, ".eh_frame_hdr") THEN SectionOf(image, ".eh_frame_hdr")
  ELSE [at |-> r.roStart, size |-> 0, offset |-> SectionOf(image, ".eh_frame").offset]

(* The code begins at address zero.                                          *)
LEMMA TextFirst ==
  ASSUME NEW sizes, Buildable(sizes)
  PROVE  StartAt(sizes, 1) = 0
<1> DEFINE row == Script[1]
           after == Laid(sizes)[1]
<1>1. sizes \in Sizing /\ 1 \in 1 .. 15 /\ 1 - 1 = 0 /\ sizes[row.name] # 0
  BY DEF Buildable, Present
<1>2. Laid(sizes)[0] = Ground /\ Ground \in LinkState /\ after = Place(sizes, Ground, row)
  <2>1. Laid(sizes)[0] = Ground /\ Laid(sizes)[0] \in LinkState
    <3>1. 0 \in 0 .. 15
      OBVIOUS
    <3>2. QED
      BY <1>1, <3>1, LaidIs, Zenon
  <2>2. after = Place(sizes, Laid(sizes)[1 - 1], row)
    BY <1>1, LaidIs, Zenon
  <2>3. QED
    BY <1>1, <2>1, <2>2
<1> HIDE DEF row, after
<1>3. PutDown(sizes, Ground, row, after)
  BY <1>1, <1>2, PlaceIs
<1>4. after.section.at = AddressOf(Ground, row)
  <2>1. after.section = SectionIn(sizes, Ground, row)
    BY <1>3, Zenon DEF PutDown
  <2>2. QED
    BY <2>1, SectionInIs
<1>5. Ground.dot = 0
  BY Zenon DEF Ground
<1>6. AlignUp(0, Page) = 0 /\ AlignUp(0, 8) = 0
  BY SMT DEF AlignUp, Page
<1>7. AddressOf(Ground, row) = 0
  BY <1>5, <1>6 DEF AddressOf
<1>8. QED
  BY <1>4, <1>7 DEF StartAt, Sec, after

(* What is copied from the linked file ends behind every stored section.     *)
LEMMA CopiedEnd ==
  ASSUME NEW sizes, Buildable(sizes), NEW image, image.sections = LinkedPie(sizes)
  PROVE  /\ CopiedFileEnd(image) \in Nat /\ Page <= CopiedFileEnd(image)
         /\ \A i \in Present(sizes) \ {14, 15} : EndAt(sizes, i) + Page <= CopiedFileEnd(image)
         /\ Stored(ToSet(image.sections)) = SecsOf(sizes, Present(sizes) \ {14, 15})
<1> DEFINE P == Present(sizes)
           Q == P \ {14, 15}
           last(i) == Sec(sizes, i).offset + Sec(sizes, i).size
           T == {Page} \cup {s.offset + s.size : s \in SecsOf(sizes, Q)}
           m == CopiedFileEnd(image)
<1>1. sizes \in Sizing
  BY DEF Buildable
<1>2. ToSet(image.sections) = SecsOf(sizes, P)
  BY <1>1, PieIs, Zenon DEF SecsOf
<1>3. Stored(ToSet(image.sections)) = SecsOf(sizes, Q)
  <2>1. P \in SUBSET Present(sizes)
    OBVIOUS
  <2> HIDE DEF P
  <2>2. Stored(SecsOf(sizes, P)) = SecsOf(sizes, P \ {14, 15})
    BY <1>1, <2>1, SecsOfRows
  <2>3. QED
    BY <1>2, <2>2
<1>4. m = Max(T)
  BY <1>3 DEF CopiedFileEnd
<1>5. \A i \in Q : last(i) \in Nat /\ last(i) = EndAt(sizes, i) + Page /\ last(i) <= Dot(sizes, 15) + Page
  <2>1. TAKE i \in Q
  <2>2. i \in Present(sizes) /\ i \in 0 .. 15 /\ i <= 15 /\ i # 14 /\ 15 \in 0 .. 15
    BY DEF Present
  <2>3. /\ Sec(sizes, i).at \in Nat /\ Sec(sizes, i).size \in Nat /\ Sec(sizes, i).offset = Sec(sizes, i).at + Page
        /\ Dot(sizes, i) = Sec(sizes, i).at + Sec(sizes, i).size
    BY <1>1, <2>2, SecIs
  <2>4. Dot(sizes, i) <= Dot(sizes, 15) /\ Dot(sizes, 15) \in Nat
    BY <1>1, <2>2, DotsAre
  <2>5. QED
    BY <2>3, <2>4, SMT DEF EndAt, Page
<1>6. Page \in Nat /\ Dot(sizes, 15) \in Nat
  <2>1. 15 \in 0 .. 15 /\ Page \in Nat
    BY SMT DEF Page
  <2>2. QED
    BY <1>1, <2>1, DotsAre
<1>7. T = {Page} \cup {last(i) : i \in Q}
  BY Zenon DEF SecsOf
<1> HIDE DEF T, m, Q, last
<1>8. T \in SUBSET Nat /\ T \in SUBSET Int /\ T # {} /\ Page \in T /\ \A x \in T : x <= Dot(sizes, 15) + Page
  <2>1. \A x \in T : x = Page \/ \E i \in Q : x = last(i)
    BY <1>7
  <2>2. \A x \in T : x \in Nat /\ x <= Dot(sizes, 15) + Page
    BY <1>5, <1>6, <2>1
  <2>3. QED
    BY <1>7, <2>2
<1>9. Dot(sizes, 15) + Page \in Int
  BY <1>6
<1>10. m \in T /\ \A x \in T : x <= m
  BY <1>4, <1>8, <1>9, MaxIs, Zenon
<1>11. \A i \in Q : last(i) \in T
  BY <1>7
<1>12. m \in Nat /\ Page <= m /\ \A i \in Q : EndAt(sizes, i) + Page <= m
  BY <1>5, <1>8, <1>10, <1>11
<1>13. QED
  BY <1>3, <1>12 DEF m, Q

(* Where the regions begin in the file.                                      *)
LEMMA FilePlaces ==
  ASSUME NEW sizes, Buildable(sizes), NEW image, image.sections = LinkedPie(sizes)
  PROVE  LET r == Regions(image)
             u == UnwindOf(image, r)
         IN  /\ SectionOf(image, ".text").at = 0 /\ SectionOf(image, ".text").offset = Page
             /\ RelroFile(image) = r.relroStart + Page
             /\ SectionOf(image, ".dynamic").offset = r.dataStart + Page
             /\ u.offset = r.roStart + Page /\ u.at \in Nat /\ u.size \in Nat /\ r.roStart + u.size <= r.roEnd
<1> DEFINE P == Present(sizes)
           r == Regions(image)
           u == UnwindOf(image, r)
<1>1. sizes \in Sizing /\ 1 \in P /\ 3 \in P /\ 6 \in P /\ 11 \in P
  BY DEF Buildable
<1>2. \A i \in P : /\ Sec(sizes, i).at = StartAt(sizes, i) /\ Sec(sizes, i).offset = StartAt(sizes, i) + Page
                   /\ Sec(sizes, i).size \in Nat /\ StartAt(sizes, i) \in Nat /\ EndAt(sizes, i) = StartAt(sizes, i) + Sec(sizes, i).size
  BY <1>1, SecIs DEF StartAt, EndAt
<1>3. /\ 1 \in 1 .. 15 /\ 2 \in 1 .. 15 /\ 3 \in 1 .. 15 /\ 11 \in 1 .. 15
      /\ 2 \in 2 .. 4 /\ 3 \in 2 .. 4
  OBVIOUS
<1>4. /\ SectionOf(image, ".text") = Sec(sizes, 1) /\ SectionOf(image, ".dynamic") = Sec(sizes, 11)
      /\ SectionOf(image, ".eh_frame") = Sec(sizes, 3)
      /\ HasSection(image, ".eh_frame_hdr") <=> 2 \in P
      /\ 2 \in P => SectionOf(image, ".eh_frame_hdr") = Sec(sizes, 2)
  <2>1. Script[1].name = ".text" /\ Script[2].name = ".eh_frame_hdr" /\ Script[3].name = ".eh_frame" /\ Script[11].name = ".dynamic"
    BY ScriptIs, Zenon
  <2>2. \A i \in 1 .. 15 : /\ HasSection(image, Script[i].name) <=> i \in P
                           /\ i \in P => SectionOf(image, Script[i].name) = Sec(sizes, i)
    BY <1>1, SectionOfIs, Zenon
  <2> HIDE DEF P
  <2>3. QED
    BY <1>1, <1>3, <2>1, <2>2, Zenon
<1>5. SectionOf(image, ".text").at = 0 /\ SectionOf(image, ".text").offset = Page
  <2>1. Sec(sizes, 1).at = 0 /\ Sec(sizes, 1).offset = 0 + Page
    BY <1>1, <1>2, TextFirst
  <2>2. 0 + Page = Page
    BY SMT DEF Page
  <2>3. QED
    BY <1>4, <2>1, <2>2
<1>6. /\ (\E i \in P \cap 2 .. 4 : r.roStart = StartAt(sizes, i)) /\ \A i \in P \cap 2 .. 4 : r.roStart <= StartAt(sizes, i)
      /\ \A i \in P \cap 2 .. 4 : EndAt(sizes, i) <= r.roEnd
      /\ (\E i \in P \cap 5 .. 7 : r.relroStart = StartAt(sizes, i)) /\ \A i \in P \cap 5 .. 7 : r.relroStart <= StartAt(sizes, i)
      /\ r.dataStart = StartAt(sizes, 11)
  BY RegionsAre, Zenon
<1>7. /\ \A i \in P : StartAt(sizes, i) \in Nat /\ EndAt(sizes, i) \in Nat /\ StartAt(sizes, i) < EndAt(sizes, i)
      /\ \A i, j \in P : i <= j => StartAt(sizes, i) <= StartAt(sizes, j)
  BY RowNumbers, Zenon
<1>8. r.roStart \in Nat /\ r.roEnd \in Nat /\ r.relroStart \in Nat /\ r.roStart < r.roEnd
  BY RegionsOrdered
<1> HIDE DEF P, r
<1>9. SectionOf(image, ".dynamic").offset = r.dataStart + Page
  BY <1>1, <1>2, <1>4, <1>6
<1>10. RelroFile(image) = r.relroStart + Page
  <2> DEFINE relro == OfKind(image, "relro")
  <2>1. relro = {Sec(sizes, i) : i \in P \cap 5 .. 7}
    BY <1>1, KindRows, Zenon DEF SecsOf, P
  <2>2. PICK c \in P \cap 5 .. 7 : r.relroStart = StartAt(sizes, c)
    BY <1>6
  <2> HIDE DEF relro
  <2>3. Sec(sizes, c) \in relro /\ \A other \in relro : Sec(sizes, c).at <= other.at
    <3>1. \A i \in P \cap 5 .. 7 : Sec(sizes, c).at <= Sec(sizes, i).at
      BY <1>2, <1>6, <2>2
    <3>2. QED
      BY <2>1, <2>2, <3>1, Zenon
  <2> DEFINE s == CHOOSE s \in relro : \A other \in relro : s.at <= other.at
  <2>4. s \in relro /\ \A other \in relro : s.at <= other.at
    BY <2>3
  <2> HIDE DEF s
  <2>5. PICK i \in P \cap 5 .. 7 : s = Sec(sizes, i)
    BY <2>1, <2>4
  <2>6. s.at <= Sec(sizes, c).at /\ Sec(sizes, c).at <= s.at
    BY <2>3, <2>4
  <2>7. s.offset = r.relroStart + Page
    BY <1>2, <2>2, <2>5, <2>6
  <2>8. RelroFile(image) = s.offset
    BY Zenon DEF RelroFile, s, relro
  <2>9. QED
    BY <2>7, <2>8
<1>11. u.offset = r.roStart + Page /\ u.at \in Nat /\ u.size \in Nat /\ r.roStart + u.size <= r.roEnd
  <2>1. CASE 2 \in P
    <3>1. u = Sec(sizes, 2)
      BY <1>4, <2>1 DEF UnwindOf
    <3>2. 2 \in P \cap 2 .. 4 /\ \A i \in P \cap 2 .. 4 : 2 <= i /\ i \in P
      BY <1>3, <2>1
    <3>3. r.roStart = StartAt(sizes, 2)
      BY <1>6, <1>7, <1>8, <2>1, <3>2
    <3> HIDE DEF u
    <3>4. EndAt(sizes, 2) <= r.roEnd
      BY <1>6, <3>2
    <3>5. QED
      BY <1>2, <2>1, <3>1, <3>3, <3>4
  <2>2. CASE 2 \notin P
    <3>1. u = [at |-> r.roStart, size |-> 0, offset |-> Sec(sizes, 3).offset]
      BY <1>4, <2>2 DEF UnwindOf
    <3>2. \A i \in P \cap 2 .. 4 : 3 <= i /\ i \in P
      BY <2>2
    <3>3. r.roStart = StartAt(sizes, 3)
      <4>1. 3 \in P \cap 2 .. 4
        BY <1>1, <1>3
      <4>2. QED
        BY <1>1, <1>6, <1>7, <1>8, <3>2, <4>1
    <3> HIDE DEF u
    <3>4. u.offset = r.roStart + Page
      BY <1>1, <1>2, <3>1, <3>3
    <3>5. u.at = r.roStart /\ u.size = 0
      BY <3>1
    <3>6. QED
      BY <1>8, <3>4, <3>5
  <2>3. QED
    BY <2>1, <2>2
<1>12. QED
  BY <1>5, <1>9, <1>10, <1>11 DEF r

(* What a walk over a list keeps.                                            *)
LEMMA PickedIs ==
  ASSUME NEW list, NEW n \in Nat, NEW S \in SUBSET (1 .. n)
  PROVE  /\ DOMAIN Picked(list, S) = 1 .. Cardinality(S) /\ Len(Picked(list, S)) = Cardinality(S) /\ Cardinality(S) \in Nat
         /\ \A k \in 1 .. Cardinality(S) : Picked(list, S)[k] = list[InOrder(S)[k]] /\ InOrder(S)[k] \in S
<1> DEFINE c == Cardinality(S)
           order == InOrder(S)
           p == Picked(list, S)
<1>1. c \in Nat /\ DOMAIN order = 1 .. c /\ \A k \in 1 .. c : order[k] \in S
  BY InOrderIs, InOrderLength
<1> HIDE DEF c, order
<1>2. p = [k \in DOMAIN order |-> list[order[k]]]
  BY DEF Picked, order
<1> HIDE DEF p
<1>3. DOMAIN p = 1 .. c /\ \A k \in 1 .. c : p[k] = list[order[k]]
  BY <1>1, <1>2
<1>4. Len(p) = c
  BY <1>1, <1>3
<1>5. QED
  BY <1>1, <1>3, <1>4 DEF c, p, order

(* A function over the numbers from one on is a sequence.                     *)
LEMMA Sequence ==
  ASSUME NEW n \in Nat, NEW f, NEW U, DOMAIN f = 1 .. n, f = [i \in 1 .. n |-> f[i]], \A i \in 1 .. n : f[i] \in U
  PROVE  f \in Seq(U) /\ Len(f) = n
OBVIOUS

(* The string table is as long as there are different strings.                *)
LEMMA StringsFinite ==
  ASSUME NEW modules, NEW n \in Nat, Len(modules) = n, NEW imports, NEW m \in Nat, DOMAIN imports = 1 .. m
  PROVE  Len(Strings(modules, imports)) \in Nat
<1> DEFINE named(j) == LET x == modules[(j + 2) \div 3]
                       IN  IF j % 3 = 1 THEN Soname(x) ELSE IF j % 3 = 2 THEN Name(x.module) ELSE Name(x.library)
           first == [j \in 1 .. 3 * Len(modules) |-> named(j)]
           second == <<Name("eboot.elf"), Name("eboot")>>
           third == [i \in DOMAIN imports |-> Mangled(imports[i])]
           U == {first[j] : j \in 1 .. 3 * n} \cup {second[1], second[2]} \cup {third[i] : i \in 1 .. m}
           list == first \o second \o third
<1>1. first \in Seq(U)
  <2>3. 3 * n \in Nat
    OBVIOUS
  <2>4. first = [j \in 1 .. 3 * n |-> named(j)]
    BY Zenon
  <2> HIDE DEF named
  <2>1. 3 * n \in Nat /\ first = [j \in 1 .. 3 * n |-> first[j]] /\ DOMAIN first = 1 .. 3 * n /\ \A j \in 1 .. 3 * n : first[j] \in U
    BY <2>3, <2>4, Zenon
  <2> HIDE DEF first, U
  <2>2. QED
    BY <2>1, Sequence
<1>2. second \in Seq(U)
  <2>1. second[1] \in U /\ second[2] \in U
    OBVIOUS
  <2> HIDE DEF U, first, third
  <2>2. QED
    BY <2>1
<1>3. third \in Seq(U)
  <2>1. third = [i \in 1 .. m |-> third[i]] /\ DOMAIN third = 1 .. m /\ \A i \in 1 .. m : third[i] \in U
    BY Zenon
  <2> HIDE DEF third, U
  <2>2. QED
    BY <2>1, Sequence
<1>4. Strings(modules, imports) = Distinct(list)
  BY Zenon DEF Strings
<1> HIDE DEF first, second, third, U
<1>5. list \in Seq(U)
  <2>1. first \o second \in Seq(U)
    BY <1>1, <1>2, ConcatProperties
  <2>2. QED
    BY <1>3, <2>1, ConcatProperties
<1> HIDE DEF list
<1>6. Len(list) \in Nat /\ DOMAIN list = 1 .. Len(list)
  BY <1>5, LenProperties
<1> DEFINE S == {k \in DOMAIN list : \A j \in 1 .. k - 1 : list[j] # list[k]}
<1>7. S \in SUBSET (1 .. Len(list))
  BY <1>6
<1>8. Distinct(list) = Picked(list, S)
  BY DEF Distinct
<1> HIDE DEF S
<1>9. Len(Picked(list, S)) \in Nat
  BY <1>6, <1>7, PickedIs
<1>10. QED
  BY <1>4, <1>8, <1>9

(* What the writer computes once the modules and imports are known.           *)
BaseOf(r) == AlignUp(Max({r.dataEnd, r.dataStart + 8}), 16)
TablesOf(image, modules, imports, r) == Tables(BaseOf(r), image, modules, Strings(modules, imports))
FileOf(image, r) == CongruentOffset(CopiedFileEnd(image), BaseOf(r))
CommentOf(image, modules, imports, r) ==
  AlignUp(FileOf(image, r) + (End(Last(TablesOf(image, modules, imports, r))) - BaseOf(r)), 8)
VersionOf(image, modules, imports, r) ==
  [offset |-> AlignUp(CommentOf(image, modules, imports, r) + CommentSize, 4), size |-> VersionSize(1 + Len(modules))]
TailOf(image, modules, imports, r) ==
  AlignUp(VersionOf(image, modules, imports, r).offset + VersionOf(image, modules, imports, r).size, 4)

(* The parts of the module the writer emits.                                 *)
LEMMA EmitIs ==
  ASSUME NEW image, NEW hash, NEW modules, NEW imports, NEW r
  PROVE  LET o == Emit(image, hash, modules, imports, r)
             tables == TablesOf(image, modules, imports, r)
             relro == RelroFile(image)
             strings == Strings(modules, imports)
         IN  /\ o.error = "none" /\ o.size = TailOf(image, modules, imports, r) + TailSize
             /\ o.headers = Headers(image, r, relro, BaseOf(r), tables, FileOf(image, r), CommentOf(image, modules, imports, r),
                                    VersionOf(image, modules, imports, r), TailOf(image, modules, imports, r))
             /\ o.pieces = {Piece(s.name, s.at, s.offset, s.size) : s \in Copied(image)}
                    \cup {Piece("parameters", ProcessAddress(r), relro + ProcessAddress(r) - r.relroStart, ProcessSize),
                          Piece("blocks", BlocksAddress(r), relro + BlocksAddress(r) - r.relroStart, BlocksSize)}
                    \cup {Piece(t.name, t.at, FileOf(image, r) + (t.at - BaseOf(r)), t.size) : t \in ToSet(tables)}
             /\ o.strings = strings /\ o.modules = ModuleRecords(modules, strings) /\ o.libraries = LibraryRecords(modules, strings)
             /\ o.imports = imports /\ o.hash = BuildHash(Len(image.symbols), hash)
             /\ o.relocations = Relocations(image, ProcessAddress(r), BlocksAddress(r)) /\ o.relativeCount = RelativeCount(image)
<1> DEFINE tables == TablesOf(image, modules, imports, r)
           relro == RelroFile(image)
           strings == Strings(modules, imports)
           size == TailOf(image, modules, imports, r) + TailSize
           headers == Headers(image, r, relro, BaseOf(r), tables, FileOf(image, r), CommentOf(image, modules, imports, r),
                              VersionOf(image, modules, imports, r), TailOf(image, modules, imports, r))
           pieces == {Piece(s.name, s.at, s.offset, s.size) : s \in Copied(image)}
                    \cup {Piece("parameters", ProcessAddress(r), relro + ProcessAddress(r) - r.relroStart, ProcessSize),
                          Piece("blocks", BlocksAddress(r), relro + BlocksAddress(r) - r.relroStart, BlocksSize)}
                    \cup {Piece(t.name, t.at, FileOf(image, r) + (t.at - BaseOf(r)), t.size) : t \in ToSet(tables)}
           mods == ModuleRecords(modules, strings)
           libs == LibraryRecords(modules, strings)
           table == BuildHash(Len(image.symbols), hash)
           relocations == Relocations(image, ProcessAddress(r), BlocksAddress(r))
           count == RelativeCount(image)
           o == Emit(image, hash, modules, imports, r)
<1>1. o = [error |-> "none", size |-> size, headers |-> headers, pieces |-> pieces, strings |-> strings, modules |-> mods,
           libraries |-> libs, imports |-> imports, hash |-> table, relocations |-> relocations, relativeCount |-> count]
  BY Zenon DEF Emit, TailOf, VersionOf, CommentOf, FileOf, TablesOf, BaseOf
<1> HIDE DEF size, headers, pieces, strings, mods, libs, table, relocations, count, o
<1>2. /\ o.error = "none" /\ o.size = size /\ o.headers = headers /\ o.pieces = pieces /\ o.strings = strings /\ o.modules = mods
      /\ o.libraries = libs /\ o.imports = imports /\ o.hash = table /\ o.relocations = relocations /\ o.relativeCount = count
  BY <1>1
<1>3. QED
  BY <1>2, Zenon DEF size, headers, pieces, strings, mods, libs, table, relocations, count, o

(* A program of which the writer could make a title: its tables have lengths.  *)
Countable(image, modules, imports) ==
  /\ Len(image.symbols) \in Nat /\ Len(image.plt) \in Nat /\ Len(image.relocations) \in Nat
  /\ Len(modules) \in Nat /\ Len(Strings(modules, imports)) \in Nat

(* The tables follow the image, in memory and in the file.                    *)
LEMMA BehindIs ==
  ASSUME NEW sizes, Buildable(sizes), NEW image, image.sections = LinkedPie(sizes),
         NEW modules, NEW imports, Countable(image, modules, imports)
  PROVE  LET r == Regions(image)
             base == BaseOf(r)
             file == FileOf(image, r)
             t == TablesOf(image, modules, imports, r)
             comment == CommentOf(image, modules, imports, r)
             version == VersionOf(image, modules, imports, r)
             tail == TailOf(image, modules, imports, r)
         IN  /\ base \in Nat /\ r.dataEnd <= base
             /\ DOMAIN t = 1 .. 7 /\ Last(t) = t[7] /\ t[1].at = base
             /\ \A i \in 1 .. 7 : t[i].name = TableNames[i] /\ t[i].at \in Nat /\ t[i].size \in Nat
             /\ \A i \in 1 .. 6 : t[i].at + t[i].size <= t[i + 1].at
             /\ t[7].size > 0
             /\ file \in Nat /\ CopiedFileEnd(image) <= file /\ file % Page = base % Page
             /\ comment \in Nat /\ file + (t[7].at + t[7].size - base) <= comment
             /\ version.offset \in Nat /\ version.size \in Nat /\ comment + CommentSize <= version.offset
             /\ tail \in Nat /\ version.offset + version.size <= tail /\ CommentSize \in Nat /\ 0 < CommentSize
<1> DEFINE r == Regions(image)
           base == BaseOf(r)
           file == FileOf(image, r)
           t == TablesOf(image, modules, imports, r)
           comment == CommentOf(image, modules, imports, r)
           version == VersionOf(image, modules, imports, r)
           offset == version.offset
           size == version.size
           tail == TailOf(image, modules, imports, r)
           ended == CopiedFileEnd(image)
           last == t[7].at + t[7].size
           v == 1 + Len(modules)
<1>1. r.dataEnd \in Nat /\ r.dataStart \in Nat /\ r.dataStart + 8 <= r.dataEnd
  BY RegionsOrdered
<1>2. ended \in Nat
  BY CopiedEnd
<1> HIDE DEF r, ended
<1>3. base = AlignUp(r.dataEnd, 16)
  <2> DEFINE a == r.dataEnd
             b == r.dataStart + 8
  <2>1. a \in Nat /\ b \in Nat /\ b <= a
    BY <1>1
  <2> HIDE DEF a, b
  <2>2. Max({a, b}) = a
    <3>1. {a, b} \in SUBSET Int /\ {a, b} # {} /\ a \in Int /\ \A x \in {a, b} : x <= a
      BY <2>1
    <3>2. Max({a, b}) \in {a, b} /\ a <= Max({a, b})
      BY <3>1, MaxIs
    <3>3. QED
      BY <2>1, <3>2
  <2>3. base = AlignUp(Max({a, b}), 16)
    BY DEF BaseOf, a, b
  <2>4. QED
    BY <2>2, <2>3 DEF a
<1> DEFINE e == r.dataEnd
<1>4. base \in Nat /\ e <= base /\ base % 16 = 0
  <2>1. e \in Nat /\ e \in Int
    BY <1>1
  <2> HIDE DEF e
  <2>2. AlignUp(e, 16) \in Int /\ AlignUp(e, 16) >= e /\ AlignUp(e, 16) % 16 = 0
    BY <2>1, AlignUpIs
  <2>3. base = AlignUp(e, 16)
    BY <1>3 DEF e
  <2> HIDE DEF base
  <2>4. QED
    BY <2>1, <2>2, <2>3
<1>5. t = Tables(base, image, modules, Strings(modules, imports))
  BY DEF TablesOf
<1>6. file = CongruentOffset(ended, base)
  BY DEF FileOf, ended
<1> HIDE DEF base
<1>7. /\ DOMAIN t = 1 .. 7 /\ Last(t) = t[7] /\ t[1].at = base
      /\ \A i \in 1 .. 7 : t[i].name = TableNames[i] /\ t[i].at \in Nat /\ t[i].size \in Nat
      /\ \A i \in 1 .. 6 : t[i].at + t[i].size <= t[i + 1].at
      /\ t[7].size > 0
  <2> DEFINE strings == Strings(modules, imports)
  <2>1. /\ Len(image.symbols) \in Nat /\ Len(image.plt) \in Nat /\ Len(image.relocations) \in Nat
        /\ Len(modules) \in Nat /\ Len(strings) \in Nat
    BY Zenon DEF Countable
  <2>2. t = Tables(base, image, modules, strings)
    BY <1>5
  <2> HIDE DEF t, strings
  <2> DEFINE T == Tables(base, image, modules, strings)
  <2>3. /\ DOMAIN T = 1 .. 7 /\ Last(T) = T[7] /\ T[1].at = base
        /\ \A i \in 1 .. 7 : T[i].name = TableNames[i] /\ T[i].at \in Nat /\ T[i].size \in Nat
        /\ \A i \in 1 .. 6 : T[i].at + T[i].size <= T[i + 1].at
        /\ T[7].size > 0
    BY <1>4, <2>1, TablesAre
  <2>4. t = T
    BY <2>2
  <2> HIDE DEF T
  <2>5. QED
    BY <2>3, <2>4
<1> HIDE DEF t, file
<1>8. file \in Int /\ file >= ended /\ file % Page = base % Page
  <2>1. ended \in Int /\ base \in Int
    BY <1>2, <1>4
  <2>2. QED
    BY <1>6, <2>1, CongruentIs, Zenon
<1>9. file \in Nat
  BY <1>2, <1>8
<1>10. last \in Nat
  <2>1. 7 \in 1 .. 7
    OBVIOUS
  <2>2. t[7].at \in Nat /\ t[7].size \in Nat
    BY <1>7, <2>1
  <2>3. QED
    BY <2>2
<1>11. base <= last
  <2>1. \A i \in 1 .. 7 : t[i].at \in Nat /\ t[i].size \in Nat
    BY <1>7
  <2>2. /\ t[1].at + t[1].size <= t[2].at /\ t[2].at + t[2].size <= t[3].at /\ t[3].at + t[3].size <= t[4].at
        /\ t[4].at + t[4].size <= t[5].at /\ t[5].at + t[5].size <= t[6].at /\ t[6].at + t[6].size <= t[7].at
    <3>1. 1 \in 1 .. 6 /\ 2 \in 1 .. 6 /\ 3 \in 1 .. 6 /\ 4 \in 1 .. 6 /\ 5 \in 1 .. 6 /\ 6 \in 1 .. 6
      OBVIOUS
    <3>2. 1 + 1 = 2 /\ 2 + 1 = 3 /\ 3 + 1 = 4 /\ 4 + 1 = 5 /\ 5 + 1 = 6 /\ 6 + 1 = 7
      OBVIOUS
    <3>3. QED
      BY <1>7, <3>1, <3>2
  <2>3. /\ t[1].at \in Nat /\ t[2].at \in Nat /\ t[3].at \in Nat /\ t[4].at \in Nat /\ t[5].at \in Nat /\ t[6].at \in Nat /\ t[7].at \in Nat
        /\ t[1].size \in Nat /\ t[2].size \in Nat /\ t[3].size \in Nat /\ t[4].size \in Nat /\ t[5].size \in Nat /\ t[6].size \in Nat
        /\ t[7].size \in Nat
    BY <2>1
  <2>4. t[1].at = base
    BY <1>7
  <2>5. QED
    BY <2>2, <2>3, <2>4
<1>12. comment = AlignUp(file + (last - base), 8)
  BY <1>7, Zenon DEF CommentOf, End, t, base, file
<1> DEFINE w == file + (last - base)
<1>13. w \in Nat
  BY <1>4, <1>9, <1>10, <1>11
<1> HIDE DEF last, w, comment
<1>14. comment \in Nat /\ w <= comment
  <2>1. AlignUp(w, 8) \in Int /\ AlignUp(w, 8) >= w
    BY <1>13, AlignUpIs
  <2>2. comment = AlignUp(w, 8)
    BY <1>12 DEF w
  <2>3. QED
    BY <1>13, <2>1, <2>2
<1>15. CommentSize \in Nat /\ 0 < CommentSize
  BY SMT DEF CommentSize, AlignUp
<1>16. offset = AlignUp(comment + CommentSize, 4) /\ size = VersionSize(v)
  BY DEF VersionOf, comment
<1>17. size \in Nat
  <2>1. v \in Nat
    BY DEF Countable
  <2> HIDE DEF v
  <2>2. VersionSize(v) \in Nat
    BY <2>1, SMT DEF VersionSize
  <2>3. QED
    BY <1>16, <2>2
<1>18. tail = AlignUp(offset + size, 4)
  BY DEF TailOf
<1> HIDE DEF version, tail, offset, size
<1>19. offset \in Nat /\ comment + CommentSize <= offset
  <2> DEFINE x == comment + CommentSize
  <2>1. x \in Nat
    BY <1>14, <1>15
  <2> HIDE DEF x
  <2>2. AlignUp(x, 4) \in Int /\ AlignUp(x, 4) >= x
    BY <2>1, AlignUpIs
  <2>3. offset = AlignUp(x, 4)
    BY <1>16 DEF x
  <2>4. offset \in Nat /\ x <= offset
    BY <2>1, <2>2, <2>3
  <2>5. QED
    BY <2>4 DEF x
<1>20. tail \in Nat /\ offset + size <= tail
  <2> DEFINE x == offset + size
  <2>1. x \in Nat
    BY <1>17, <1>19
  <2> HIDE DEF x
  <2>2. AlignUp(x, 4) \in Int /\ AlignUp(x, 4) >= x
    BY <2>1, AlignUpIs
  <2>3. tail = AlignUp(x, 4)
    BY <1>18 DEF x
  <2>4. tail \in Nat /\ x <= tail
    BY <2>1, <2>2, <2>3
  <2>5. QED
    BY <2>4 DEF x
<1>21. base \in Nat /\ r.dataEnd <= base
  BY <1>4 DEF e
<1>22. comment \in Nat /\ file + (t[7].at + t[7].size - base) <= comment
  <2> DEFINE a == t[7].at
             b == t[7].size
  <2>1. a \in Nat /\ b \in Nat
    <3>1. 7 \in 1 .. 7
      OBVIOUS
    <3>2. QED
      BY <1>7, <3>1
  <2>2. w = file + ((a + b) - base)
    BY DEF w, last
  <2> HIDE DEF a, b
  <2>3. comment \in Nat /\ file + (a + b - base) <= comment
    BY <1>4, <1>9, <1>14, <2>1, <2>2
  <2>4. QED
    BY <2>3 DEF a, b
<1>23. offset \in Nat /\ size \in Nat /\ comment + CommentSize <= offset /\ tail \in Nat /\ offset + size <= tail
  BY <1>17, <1>19, <1>20
<1>24. file \in Nat /\ ended <= file /\ file % Page = base % Page
  BY <1>2, <1>8, <1>9
<1>25. QED
  BY <1>7, <1>15, <1>21, <1>22, <1>23, <1>24, Zenon DEF r, base, t, file, comment, version, tail, ended, offset, size

(* The program headers, one by one.                                          *)
Spans(x, type, offset, at, size, memory) ==
  x.type = type /\ x.offset = offset /\ x.at = at /\ x.size = size /\ x.memory = memory

(* A header has the fields it is written from.                               *)
LEMMA HeaderSpans ==
  ASSUME NEW x, NEW type \in HeaderTypes, NEW flags \in HeaderFlags, NEW offset, NEW at, NEW size, NEW memory,
         x = Header(type, flags, offset, at, size, memory)
  PROVE  /\ Spans(x, type, offset, at, size, memory)
         /\ offset \in Nat /\ at \in Nat /\ size \in Nat /\ memory \in Nat => x \in HeaderRecord
<1>1. x = [type |-> type, flags |-> flags, offset |-> offset, at |-> at, size |-> size, memory |-> memory]
  BY DEF Header
<1>2. QED
  BY <1>1 DEF Spans, HeaderRecord

HeaderList(h, image, r, relro, base, tables, file, comment, version, tail) ==
  LET dynamic == Last(tables)
      note == tables[6]
      process == ProcessAddress(r)
      tls == r.tlsStart # 0
      u == UnwindOf(image, r)
  IN  /\ DOMAIN h = 1 .. 14 /\ h = [i \in 1 .. 14 |-> h[i]]
      /\ h[1] = Header("LOAD", "x", SectionOf(image, ".text").offset, 0, r.textEnd, r.textEnd)
      /\ h[2] = Header("LOAD", "r", u.offset, r.roStart, r.roEnd - r.roStart, r.roEnd - r.roStart)
      /\ h[3] = Header("LOAD", "rw", relro, r.relroStart, RelroEnd(r) - r.relroStart, RelroEnd(r) - r.relroStart)
      /\ h[4] = Header("GNU_RELRO", "r", relro, r.relroStart, RelroEnd(r) - r.relroStart, AlignUp(RelroEnd(r) - r.relroStart, Page))
      /\ h[5] = Header("LOAD", "rw", SectionOf(image, ".dynamic").offset, r.dataStart, Max({8, r.dataStoredEnd - r.dataStart}),
                       r.dataEnd - r.dataStart)
      /\ h[6] = Header("PROCPARAM", "r", relro + process - r.relroStart, process, ProcessSize, ProcessSize)
      /\ h[7] = Header("DYNAMIC", "rw", file + (dynamic.at - base), dynamic.at, dynamic.size, dynamic.size)
      /\ h[8] = Header("TLS", "r", IF tls THEN relro + (r.tlsStart - r.relroStart) ELSE relro, IF tls THEN r.tlsStart ELSE r.relroStart,
                       IF tls THEN r.tlsFileEnd - r.tlsStart ELSE 0, IF tls THEN r.tlsMemoryEnd - r.tlsStart ELSE 0)
      /\ h[9] = Header("EH_FRAME", "r", u.offset, u.at, u.size, u.size)
      /\ h[10] = Header("LOAD", "none", file, base, End(dynamic) - base, End(dynamic) - base)
      /\ h[11] = Header("COMMENT", "none", comment, 0, CommentSize, 0)
      /\ h[12] = Header("VERSION", "none", version.offset, 0, version.size, version.size)
      /\ h[13] = Header("NOTE", "none", file + (note.at - base), note.at, note.size, note.size)
      /\ h[14] = Header("NOTE", "none", tail, 0, TailSize, 0)

(* The fourteen headers the writer writes.                                   *)
LEMMA HeadersAre ==
  ASSUME NEW image, NEW r, NEW relro, NEW base, NEW tables, NEW file, NEW comment, NEW version, NEW tail
  PROVE  HeaderList(Headers(image, r, relro, base, tables, file, comment, version, tail),
                    image, r, relro, base, tables, file, comment, version, tail)
<1> DEFINE dynamic == Last(tables)
           note == tables[6]
           process == ProcessAddress(r)
           tls == r.tlsStart # 0
           u == UnwindOf(image, r)
           a1 == Header("LOAD", "x", SectionOf(image, ".text").offset, 0, r.textEnd, r.textEnd)
           a2 == Header("LOAD", "r", u.offset, r.roStart, r.roEnd - r.roStart, r.roEnd - r.roStart)
           a3 == Header("LOAD", "rw", relro, r.relroStart, RelroEnd(r) - r.relroStart, RelroEnd(r) - r.relroStart)
           a4 == Header("GNU_RELRO", "r", relro, r.relroStart, RelroEnd(r) - r.relroStart, AlignUp(RelroEnd(r) - r.relroStart, Page))
           a5 == Header("LOAD", "rw", SectionOf(image, ".dynamic").offset, r.dataStart, Max({8, r.dataStoredEnd - r.dataStart}),
                        r.dataEnd - r.dataStart)
           a6 == Header("PROCPARAM", "r", relro + process - r.relroStart, process, ProcessSize, ProcessSize)
           a7 == Header("DYNAMIC", "rw", file + (dynamic.at - base), dynamic.at, dynamic.size, dynamic.size)
           a8 == Header("TLS", "r", IF tls THEN relro + (r.tlsStart - r.relroStart) ELSE relro, IF tls THEN r.tlsStart ELSE r.relroStart,
                        IF tls THEN r.tlsFileEnd - r.tlsStart ELSE 0, IF tls THEN r.tlsMemoryEnd - r.tlsStart ELSE 0)
           a9 == Header("EH_FRAME", "r", u.offset, u.at, u.size, u.size)
           a10 == Header("LOAD", "none", file, base, End(dynamic) - base, End(dynamic) - base)
           a11 == Header("COMMENT", "none", comment, 0, CommentSize, 0)
           a12 == Header("VERSION", "none", version.offset, 0, version.size, version.size)
           a13 == Header("NOTE", "none", file + (note.at - base), note.at, note.size, note.size)
           a14 == Header("NOTE", "none", tail, 0, TailSize, 0)
           h == Headers(image, r, relro, base, tables, file, comment, version, tail)
<1>1. h = <<a1, a2, a3, a4, a5, a6, a7, a8, a9, a10, a11, a12, a13, a14>>
  BY Zenon DEF Headers, UnwindOf
<1> HIDE DEF h, a1, a2, a3, a4, a5, a6, a7, a8, a9, a10, a11, a12, a13, a14
<1>2. /\ DOMAIN h = 1 .. 14 /\ h = [i \in 1 .. 14 |-> h[i]]
      /\ h[1] = a1 /\ h[2] = a2 /\ h[3] = a3 /\ h[4] = a4 /\ h[5] = a5 /\ h[6] = a6 /\ h[7] = a7
      /\ h[8] = a8 /\ h[9] = a9 /\ h[10] = a10 /\ h[11] = a11 /\ h[12] = a12 /\ h[13] = a13 /\ h[14] = a14
  BY <1>1, SMT
<1>3. QED
  BY <1>2, Zenon DEF HeaderList, h, a1, a2, a3, a4, a5, a6, a7, a8, a9, a10, a11, a12, a13, a14

(* The numbers of a title with room for the parameters.                      *)
LEMMA TitleNumbers ==
  ASSUME NEW sizes, Buildable(sizes), NEW image, image.sections = LinkedPie(sizes),
         ~(RelroEnd(Regions(image)) > Regions(image).dataStart)
  PROVE  LET r == Regions(image)
             p == ProcessAddress(r)
             c == CopiedFileEnd(image)
         IN  /\ r.textEnd + Page <= c /\ r.roEnd + Page <= c
             /\ RelroEnd(r) \in Nat /\ p + ProcessSize <= RelroEnd(r) /\ RelroEnd(r) <= r.dataStart /\ RelroEnd(r) > r.relroStart
             /\ r.dataStart + Page <= c /\ r.dataStoredEnd + Page <= c + 8
             /\ r.tlsStart # 0 <=> 13 \in Present(sizes)
             /\ r.tlsStart # 0 => /\ r.tlsStart \in Nat /\ r.tlsFileEnd \in Nat /\ r.tlsMemoryEnd \in Nat
                                  /\ r.dataStart < r.tlsStart /\ r.tlsStart <= r.tlsFileEnd /\ r.tlsFileEnd <= r.tlsMemoryEnd
                                  /\ r.tlsFileEnd + Page <= c
<1> DEFINE P == Present(sizes)
           r == Regions(image)
           p == ProcessAddress(r)
           c == CopiedFileEnd(image)
           start(i) == StartAt(sizes, i)
           end(i) == EndAt(sizes, i)
           R == RelroEnd(r)
<1>1. 1 \in P /\ 11 \in P
  BY DEF Buildable
<1>2. c \in Nat /\ \A i \in P \ {14, 15} : end(i) + Page <= c
  BY CopiedEnd
<1>3. /\ r.textEnd = end(1) /\ (\E i \in P \cap 2 .. 4 : r.roEnd = end(i)) /\ r.dataStart = start(11)
      /\ r.dataStoredEnd = start(11) + 8 \/ (12 \in P /\ r.dataStoredEnd = end(12))
      /\ 13 \notin P => r.tlsStart = 0
      /\ 13 \in P => r.tlsStart = start(13) /\ r.tlsFileEnd = end(13) /\ r.tlsMemoryEnd \in Nat /\ r.tlsFileEnd <= r.tlsMemoryEnd
  BY RegionsAre, Zenon
<1>4. /\ \A i \in P : start(i) \in Nat /\ end(i) \in Nat /\ start(i) < end(i)
      /\ \A i, j \in P : i < j /\ i # 14 => end(i) <= start(j)
  BY RowNumbers, Zenon
<1>5. /\ p \in Nat /\ R = p + ProcessSize + BlocksSize /\ r.relroContentEnd <= p
  BY ParametersAre
<1>6. /\ r.relroStart \in Nat /\ r.relroContentEnd \in Nat /\ r.relroStart < r.relroContentEnd /\ r.dataStart \in Nat
  BY RegionsOrdered
<1>7. BlocksSize = \h270 /\ ProcessSize = \h60 /\ Page = \h4000
  BY BlocksAre DEF ProcessSize, Page
<1> HIDE DEF P, r, p, c, start, end, R
<1>8. ~(R > r.dataStart)
  BY DEF R, r
<1>9. R \in Nat /\ p + ProcessSize <= R /\ R <= r.dataStart /\ R > r.relroStart
  <2>1. R = p + (\h60 + \h270)
    BY <1>5, <1>7
  <2>2. QED
    BY <1>5, <1>6, <1>7, <1>8, <2>1
<1>10. r.textEnd + Page <= c /\ r.roEnd + Page <= c
  <2>1. PICK i \in P \cap 2 .. 4 : r.roEnd = end(i)
    BY <1>3
  <2>2. i \in P \ {14, 15} /\ 1 \in P \ {14, 15}
    BY <1>1
  <2>3. QED
    BY <1>2, <1>3, <2>1, <2>2
<1>11. r.dataStart + Page <= c
  <2>1. 11 \in P \ {14, 15}
    BY <1>1
  <2>2. end(11) + Page <= c /\ start(11) < end(11) /\ start(11) \in Nat /\ end(11) \in Nat
    BY <1>1, <1>2, <1>4, <2>1
  <2>3. QED
    BY <1>2, <1>3, <1>7, <2>2
<1>12. r.dataStoredEnd + Page <= c + 8
  <2>1. CASE r.dataStoredEnd = start(11) + 8
    <3>1. start(11) + Page <= c /\ start(11) \in Nat
      BY <1>1, <1>3, <1>4, <1>11
    <3>2. QED
      BY <1>2, <1>7, <2>1, <3>1
  <2>2. CASE 12 \in P /\ r.dataStoredEnd = end(12)
    <3>1. 12 \in P \ {14, 15}
      BY <2>2
    <3>2. end(12) + Page <= c /\ end(12) \in Nat
      BY <1>2, <1>4, <2>2, <3>1
    <3>3. QED
      BY <1>2, <1>7, <2>2, <3>2
  <2>3. QED
    BY <1>3, <2>1, <2>2
<1>13. ASSUME 13 \in P
       PROVE  /\ r.tlsStart \in Nat /\ r.tlsFileEnd \in Nat /\ r.tlsMemoryEnd \in Nat
              /\ r.dataStart < r.tlsStart /\ r.tlsStart <= r.tlsFileEnd /\ r.tlsFileEnd <= r.tlsMemoryEnd
              /\ r.tlsFileEnd + Page <= c
  <2>1. 13 \in P \ {14, 15} /\ 11 < 13 /\ 11 # 14
    BY <1>13
  <2>2. end(11) <= start(13) /\ start(11) < end(11) /\ start(13) < end(13) /\ end(13) + Page <= c
    BY <1>1, <1>2, <1>4, <1>13, <2>1
  <2>3. start(11) \in Nat /\ end(11) \in Nat /\ start(13) \in Nat /\ end(13) \in Nat
    BY <1>1, <1>4, <1>13
  <2>4. QED
    BY <1>3, <1>13, <2>2, <2>3
<1>14. r.tlsStart # 0 <=> 13 \in P
  <2>1. CASE 13 \in P
    BY <1>6, <1>13, <2>1
  <2>2. CASE 13 \notin P
    BY <1>3, <2>2
  <2>3. QED
    BY <2>1, <2>2
<1>15. QED
  BY <1>9, <1>10, <1>11, <1>12, <1>13, <1>14, Zenon DEF P, r, p, c, R

(* The header list of a title, in terms of the regions and the tables.        *)
TitleSpans(h, r, R, p, u, base, file, t, comment, version, tail) ==
  /\ Spans(h[1], "LOAD", Page, 0, r.textEnd, r.textEnd)
  /\ Spans(h[2], "LOAD", r.roStart + Page, r.roStart, r.roEnd - r.roStart, r.roEnd - r.roStart)
  /\ Spans(h[3], "LOAD", r.relroStart + Page, r.relroStart, R - r.relroStart, R - r.relroStart)
  /\ Spans(h[4], "GNU_RELRO", r.relroStart + Page, r.relroStart, R - r.relroStart, AlignUp(R - r.relroStart, Page))
  /\ Spans(h[5], "LOAD", r.dataStart + Page, r.dataStart, r.dataStoredEnd - r.dataStart, r.dataEnd - r.dataStart)
  /\ Spans(h[6], "PROCPARAM", p + Page, p, ProcessSize, ProcessSize)
  /\ Spans(h[7], "DYNAMIC", file + (t[7].at - base), t[7].at, t[7].size, t[7].size)
  /\ r.tlsStart # 0 => Spans(h[8], "TLS", r.tlsStart + Page, r.tlsStart, r.tlsFileEnd - r.tlsStart, r.tlsMemoryEnd - r.tlsStart)
  /\ r.tlsStart = 0 => Spans(h[8], "TLS", r.relroStart + Page, r.relroStart, 0, 0)
  /\ Spans(h[9], "EH_FRAME", r.roStart + Page, u.at, u.size, u.size)
  /\ Spans(h[10], "LOAD", file, base, (t[7].at + t[7].size) - base, (t[7].at + t[7].size) - base)
  /\ Spans(h[11], "COMMENT", comment, 0, CommentSize, 0)
  /\ Spans(h[12], "VERSION", version.offset, 0, version.size, version.size)
  /\ Spans(h[13], "NOTE", file + (t[6].at - base), t[6].at, t[6].size, t[6].size)
  /\ Spans(h[14], "NOTE", tail, 0, TailSize, 0)

(* The fourteen headers of a title, with numbers for their places.           *)
LEMMA TitleHeaders ==
  ASSUME NEW sizes, Buildable(sizes), NEW image, image.sections = LinkedPie(sizes),
         NEW modules, NEW imports, Countable(image, modules, imports), NEW hash,
         ~(RelroEnd(Regions(image)) > Regions(image).dataStart)
  PROVE  LET r == Regions(image)
             o == Emit(image, hash, modules, imports, r)
             h == o.headers
         IN  /\ DOMAIN h = 1 .. 14 /\ h = [i \in 1 .. 14 |-> h[i]] /\ \A i \in 1 .. 14 : h[i] \in HeaderRecord
             /\ TitleSpans(h, r, RelroEnd(r), ProcessAddress(r), UnwindOf(image, r), BaseOf(r), FileOf(image, r),
                           TablesOf(image, modules, imports, r), CommentOf(image, modules, imports, r),
                           VersionOf(image, modules, imports, r), TailOf(image, modules, imports, r))
<1> DEFINE r == Regions(image)
           h == Emit(image, hash, modules, imports, r).headers
           R == RelroEnd(r)
           p == ProcessAddress(r)
           u == UnwindOf(image, r)
           base == BaseOf(r)
           file == FileOf(image, r)
           t == TablesOf(image, modules, imports, r)
           comment == CommentOf(image, modules, imports, r)
           version == VersionOf(image, modules, imports, r)
           tail == TailOf(image, modules, imports, r)
           relro == RelroFile(image)
           top == t[7].at + t[7].size
           tls == r.tlsStart # 0
<1>1. h = Headers(image, r, relro, base, t, file, comment, version, tail)
  BY EmitIs
<1>2. /\ SectionOf(image, ".text").offset = Page /\ relro = r.relroStart + Page
      /\ SectionOf(image, ".dynamic").offset = r.dataStart + Page
      /\ u.offset = r.roStart + Page /\ u.at \in Nat /\ u.size \in Nat
  BY FilePlaces
<1>3. /\ base \in Nat /\ Last(t) = t[7] /\ t[1].at = base
      /\ \A i \in 1 .. 7 : t[i].at \in Nat /\ t[i].size \in Nat
      /\ \A i \in 1 .. 6 : t[i].at + t[i].size <= t[i + 1].at
      /\ file \in Nat /\ comment \in Nat /\ version.offset \in Nat /\ version.size \in Nat /\ tail \in Nat /\ CommentSize \in Nat
  <2>1. /\ base \in Nat /\ Last(t) = t[7] /\ t[1].at = base
        /\ \A i \in 1 .. 7 : t[i].name = TableNames[i] /\ t[i].at \in Nat /\ t[i].size \in Nat
        /\ \A i \in 1 .. 6 : t[i].at + t[i].size <= t[i + 1].at
        /\ file \in Nat /\ comment \in Nat /\ version.offset \in Nat /\ version.size \in Nat /\ tail \in Nat /\ CommentSize \in Nat
    BY BehindIs
  <2>2. QED
    BY <2>1
<1>4. /\ r.textEnd \in Nat /\ r.roStart \in Nat /\ r.roEnd \in Nat /\ r.relroStart \in Nat
      /\ r.dataStart \in Nat /\ r.dataEnd \in Nat /\ r.dataStoredEnd \in Nat
      /\ r.roStart < r.roEnd /\ r.dataStart + 8 <= r.dataStoredEnd /\ r.dataStoredEnd <= r.dataEnd
  BY RegionsOrdered
<1>5. p \in Nat
  BY ParametersAre
<1>6. /\ R \in Nat /\ R > r.relroStart
      /\ tls => /\ r.tlsStart \in Nat /\ r.tlsFileEnd \in Nat /\ r.tlsMemoryEnd \in Nat
                /\ r.dataStart < r.tlsStart /\ r.tlsStart <= r.tlsFileEnd /\ r.tlsFileEnd <= r.tlsMemoryEnd
      /\ p + ProcessSize <= R /\ R <= r.dataStart
  BY TitleNumbers, Zenon
<1> HIDE DEF relro
<1>7. /\ DOMAIN h = 1 .. 14 /\ h = [i \in 1 .. 14 |-> h[i]]
      /\ h[1] = Header("LOAD", "x", SectionOf(image, ".text").offset, 0, r.textEnd, r.textEnd)
      /\ h[2] = Header("LOAD", "r", u.offset, r.roStart, r.roEnd - r.roStart, r.roEnd - r.roStart)
      /\ h[3] = Header("LOAD", "rw", relro, r.relroStart, R - r.relroStart, R - r.relroStart)
      /\ h[4] = Header("GNU_RELRO", "r", relro, r.relroStart, R - r.relroStart, AlignUp(R - r.relroStart, Page))
      /\ h[5] = Header("LOAD", "rw", SectionOf(image, ".dynamic").offset, r.dataStart, Max({8, r.dataStoredEnd - r.dataStart}),
                       r.dataEnd - r.dataStart)
      /\ h[6] = Header("PROCPARAM", "r", relro + p - r.relroStart, p, ProcessSize, ProcessSize)
      /\ h[7] = Header("DYNAMIC", "rw", file + (Last(t).at - base), Last(t).at, Last(t).size, Last(t).size)
      /\ h[8] = Header("TLS", "r", IF tls THEN relro + (r.tlsStart - r.relroStart) ELSE relro, IF tls THEN r.tlsStart ELSE r.relroStart,
                       IF tls THEN r.tlsFileEnd - r.tlsStart ELSE 0, IF tls THEN r.tlsMemoryEnd - r.tlsStart ELSE 0)
      /\ h[9] = Header("EH_FRAME", "r", u.offset, u.at, u.size, u.size)
      /\ h[10] = Header("LOAD", "none", file, base, End(Last(t)) - base, End(Last(t)) - base)
      /\ h[11] = Header("COMMENT", "none", comment, 0, CommentSize, 0)
      /\ h[12] = Header("VERSION", "none", version.offset, 0, version.size, version.size)
      /\ h[13] = Header("NOTE", "none", file + (t[6].at - base), t[6].at, t[6].size, t[6].size)
      /\ h[14] = Header("NOTE", "none", tail, 0, TailSize, 0)
  <2>1. HeaderList(h, image, r, relro, base, t, file, comment, version, tail)
    <3> HIDE DEF h, r, base, file, t, comment, version, tail
    <3>1. QED
      BY <1>1, HeadersAre
  <2> HIDE DEF h, r, base, file, t, comment, version, tail
  <2>2. QED
    BY <2>1, Zenon DEF HeaderList
<1> HIDE DEF h, r, R, p, u, base, file, t, comment, version, tail, tls
<1>8. 1 \in 1 .. 7 /\ 6 \in 1 .. 7 /\ 7 \in 1 .. 7
  OBVIOUS
<1>9. End(Last(t)) - base = (t[7].at + t[7].size) - base
  BY <1>3 DEF End
<1>10. t[6].at \in Nat /\ t[6].size \in Nat /\ t[7].at \in Nat /\ t[7].size \in Nat
  BY <1>3, <1>8
<1>11. base <= t[6].at /\ base <= t[7].at
  <2>1. 1 \in 1 .. 6 /\ 2 \in 1 .. 6 /\ 3 \in 1 .. 6 /\ 4 \in 1 .. 6 /\ 5 \in 1 .. 6 /\ 6 \in 1 .. 6
    OBVIOUS
  <2>2. 1 + 1 = 2 /\ 2 + 1 = 3 /\ 3 + 1 = 4 /\ 4 + 1 = 5 /\ 5 + 1 = 6 /\ 6 + 1 = 7
    OBVIOUS
  <2>3. /\ t[1].at + t[1].size <= t[2].at /\ t[2].at + t[2].size <= t[3].at /\ t[3].at + t[3].size <= t[4].at
        /\ t[4].at + t[4].size <= t[5].at /\ t[5].at + t[5].size <= t[6].at /\ t[6].at + t[6].size <= t[7].at
    BY <1>3, <2>1, <2>2
  <2>4. 2 \in 1 .. 7 /\ 3 \in 1 .. 7 /\ 4 \in 1 .. 7 /\ 5 \in 1 .. 7
    OBVIOUS
  <2>5. /\ t[2].at \in Nat /\ t[3].at \in Nat /\ t[4].at \in Nat /\ t[5].at \in Nat
        /\ t[1].size \in Nat /\ t[2].size \in Nat /\ t[3].size \in Nat /\ t[4].size \in Nat /\ t[5].size \in Nat
    BY <1>3, <1>8, <2>4
  <2>6. t[1].at = base
    BY <1>3
  <2>7. QED
    BY <1>3, <1>10, <2>3, <2>5, <2>6
<1> DEFINE n7 == file + (t[7].at - base)
           s10 == (t[7].at + t[7].size) - base
           n13 == file + (t[6].at - base)
           s2 == r.roEnd - r.roStart
           s3 == R - r.relroStart
           m4 == AlignUp(R - r.relroStart, Page)
           s5 == r.dataStoredEnd - r.dataStart
           m5 == r.dataEnd - r.dataStart
           s8 == r.tlsFileEnd - r.tlsStart
           m8 == r.tlsMemoryEnd - r.tlsStart
<1>12. s2 \in Nat /\ s3 \in Nat /\ s5 \in Nat /\ 8 <= s5 /\ m5 \in Nat /\ (tls => s8 \in Nat /\ m8 \in Nat)
  BY <1>4, <1>6
<1>13. n7 \in Nat /\ s10 \in Nat /\ n13 \in Nat
  BY <1>3, <1>10, <1>11
<1>14. m4 \in Nat
  <2> DEFINE v == R - r.relroStart
  <2>1. v \in Nat
    BY <1>12
  <2> HIDE DEF v
  <2>2. AlignUp(v, Page) \in Int /\ AlignUp(v, Page) >= v
    BY <2>1, AlignUpIs
  <2>3. AlignUp(v, Page) \in Nat
    BY <2>1, <2>2
  <2>4. QED
    BY <2>3 DEF v
<1>15. Max({8, s5}) = s5
  <2> HIDE DEF s5
  <2>1. {8, s5} \in SUBSET Int /\ {8, s5} # {} /\ s5 \in Int /\ \A x \in {8, s5} : x <= s5
    BY <1>12
  <2>2. Max({8, s5}) \in {8, s5} /\ s5 <= Max({8, s5})
    BY <2>1, MaxIs
  <2>3. QED
    BY <1>12, <2>2
<1>16. relro + p - r.relroStart = p + Page /\ (tls => relro + (r.tlsStart - r.relroStart) = r.tlsStart + Page)
  <2>1. Page \in Nat
    BY SMT DEF Page
  <2>2. QED
    BY <1>2, <1>4, <1>5, <1>6, <2>1
<1>17. /\ Page \in Nat /\ ProcessSize \in Nat /\ TailSize \in Nat
  BY SMT DEF Page, ProcessSize, TailSize
<1>18. /\ r.roStart + Page \in Nat /\ r.relroStart + Page \in Nat /\ r.dataStart + Page \in Nat /\ p + Page \in Nat
       /\ (tls => r.tlsStart + Page \in Nat)
  BY <1>4, <1>5, <1>6, <1>17
<1> HIDE DEF n7, s10, n13, s2, s3, m4, s5, m5, s8, m8
<1>19. "LOAD" \in HeaderTypes /\ "GNU_RELRO" \in HeaderTypes /\ "PROCPARAM" \in HeaderTypes /\ "DYNAMIC" \in HeaderTypes /\ "TLS" \in HeaderTypes
       /\ "EH_FRAME" \in HeaderTypes /\ "COMMENT" \in HeaderTypes /\ "VERSION" \in HeaderTypes /\ "NOTE" \in HeaderTypes
       /\ "x" \in HeaderFlags /\ "r" \in HeaderFlags /\ "rw" \in HeaderFlags /\ "none" \in HeaderFlags
  BY DEF HeaderTypes, HeaderFlags
<1>20. Spans(h[1], "LOAD", Page, 0, r.textEnd, r.textEnd) /\ h[1] \in HeaderRecord
  <2> DEFINE z == 0
  <2>1. h[1] = Header("LOAD", "x", Page, z, r.textEnd, r.textEnd) /\ z \in Nat
    BY <1>2, <1>7
  <2> HIDE DEF z
  <2>2. Spans(h[1], "LOAD", Page, z, r.textEnd, r.textEnd) /\ h[1] \in HeaderRecord
    BY <1>4, <1>17, <1>19, <2>1, HeaderSpans
  <2>3. QED
    BY <2>2 DEF z
<1>21. Spans(h[2], "LOAD", r.roStart + Page, r.roStart, s2, s2) /\ h[2] \in HeaderRecord
  <2>1. h[2] = Header("LOAD", "r", r.roStart + Page, r.roStart, s2, s2)
    BY <1>2, <1>7, Zenon DEF s2
  <2>2. QED
    BY <1>4, <1>12, <1>18, <1>19, <2>1, HeaderSpans
<1>22. Spans(h[3], "LOAD", r.relroStart + Page, r.relroStart, s3, s3) /\ h[3] \in HeaderRecord
  <2>1. h[3] = Header("LOAD", "rw", r.relroStart + Page, r.relroStart, s3, s3)
    BY <1>2, <1>7, Zenon DEF s3
  <2>2. QED
    BY <1>4, <1>12, <1>18, <1>19, <2>1, HeaderSpans
<1>23. Spans(h[4], "GNU_RELRO", r.relroStart + Page, r.relroStart, s3, m4) /\ h[4] \in HeaderRecord
  <2>1. h[4] = Header("GNU_RELRO", "r", r.relroStart + Page, r.relroStart, s3, m4)
    BY <1>2, <1>7, Zenon DEF s3, m4
  <2>2. QED
    BY <1>4, <1>12, <1>14, <1>18, <1>19, <2>1, HeaderSpans
<1>24. Spans(h[5], "LOAD", r.dataStart + Page, r.dataStart, s5, m5) /\ h[5] \in HeaderRecord
  <2>1. h[5] = Header("LOAD", "rw", r.dataStart + Page, r.dataStart, s5, m5)
    BY <1>2, <1>7, <1>15, Zenon DEF s5, m5
  <2>2. QED
    BY <1>4, <1>12, <1>18, <1>19, <2>1, HeaderSpans
<1>25. Spans(h[6], "PROCPARAM", p + Page, p, ProcessSize, ProcessSize) /\ h[6] \in HeaderRecord
  <2>1. h[6] = Header("PROCPARAM", "r", p + Page, p, ProcessSize, ProcessSize)
    BY <1>7, <1>16, Zenon
  <2>2. QED
    BY <1>5, <1>17, <1>18, <1>19, <2>1, HeaderSpans
<1>26. Spans(h[7], "DYNAMIC", n7, t[7].at, t[7].size, t[7].size) /\ h[7] \in HeaderRecord
  <2>1. h[7] = Header("DYNAMIC", "rw", n7, t[7].at, t[7].size, t[7].size)
    BY <1>3, <1>7, Zenon DEF n7
  <2>2. QED
    BY <1>10, <1>13, <1>19, <2>1, HeaderSpans
<1>27. /\ tls => Spans(h[8], "TLS", r.tlsStart + Page, r.tlsStart, s8, m8)
       /\ ~tls => Spans(h[8], "TLS", r.relroStart + Page, r.relroStart, 0, 0)
       /\ h[8] \in HeaderRecord
  <2>1. CASE tls
    <3>1. h[8] = Header("TLS", "r", r.tlsStart + Page, r.tlsStart, s8, m8)
      BY <1>7, <1>16, <2>1, Zenon DEF s8, m8
    <3>2. r.tlsStart \in Nat
      BY <1>6, <2>1
    <3>3. QED
      BY <1>12, <1>18, <1>19, <2>1, <3>1, <3>2, HeaderSpans
  <2>2. CASE ~tls
    <3> DEFINE z == 0
    <3>1. h[8] = Header("TLS", "r", r.relroStart + Page, r.relroStart, z, z) /\ z \in Nat
      BY <1>2, <1>7, <2>2
    <3> HIDE DEF z
    <3>2. Spans(h[8], "TLS", r.relroStart + Page, r.relroStart, z, z) /\ h[8] \in HeaderRecord
      BY <1>4, <1>18, <1>19, <3>1, HeaderSpans
    <3>3. QED
      BY <2>2, <3>2 DEF z
  <2>3. QED
    BY <2>1, <2>2
<1>28. Spans(h[9], "EH_FRAME", r.roStart + Page, u.at, u.size, u.size) /\ h[9] \in HeaderRecord
  <2>1. h[9] = Header("EH_FRAME", "r", r.roStart + Page, u.at, u.size, u.size)
    BY <1>2, <1>7, Zenon
  <2>2. QED
    BY <1>2, <1>18, <1>19, <2>1, HeaderSpans
<1>29. Spans(h[10], "LOAD", file, base, s10, s10) /\ h[10] \in HeaderRecord
  <2>1. h[10] = Header("LOAD", "none", file, base, s10, s10)
    BY <1>7, <1>9, Zenon DEF s10
  <2>2. QED
    BY <1>3, <1>13, <1>19, <2>1, HeaderSpans
<1>30. Spans(h[11], "COMMENT", comment, 0, CommentSize, 0) /\ h[11] \in HeaderRecord
  <2> DEFINE z == 0
  <2>1. h[11] = Header("COMMENT", "none", comment, z, CommentSize, z) /\ z \in Nat
    BY <1>7
  <2> HIDE DEF z
  <2> DEFINE size == CommentSize
  <2>2. comment \in Nat /\ size \in Nat /\ "COMMENT" \in HeaderTypes /\ "none" \in HeaderFlags
    BY <1>3, <1>19
  <2>3. h[11] = Header("COMMENT", "none", comment, z, size, z)
    BY <2>1
  <2> HIDE DEF size
  <2>4. Spans(h[11], "COMMENT", comment, z, size, z) /\ h[11] \in HeaderRecord
    BY <2>1, <2>2, <2>3, HeaderSpans
  <2>5. QED
    BY <2>4 DEF z, size
<1>31. Spans(h[12], "VERSION", version.offset, 0, version.size, version.size) /\ h[12] \in HeaderRecord
  <2>1. h[12] = Header("VERSION", "none", version.offset, 0, version.size, version.size) /\ 0 \in Nat
    BY <1>7
  <2>2. QED
    BY <1>3, <1>19, <2>1, HeaderSpans
<1>32. Spans(h[13], "NOTE", n13, t[6].at, t[6].size, t[6].size) /\ h[13] \in HeaderRecord
  <2>1. h[13] = Header("NOTE", "none", n13, t[6].at, t[6].size, t[6].size)
    BY <1>7, Zenon DEF n13
  <2>2. QED
    BY <1>10, <1>13, <1>19, <2>1, HeaderSpans
<1>33. Spans(h[14], "NOTE", tail, 0, TailSize, 0) /\ h[14] \in HeaderRecord
  <2> DEFINE z == 0
  <2>1. h[14] = Header("NOTE", "none", tail, z, TailSize, z) /\ z \in Nat
    BY <1>7
  <2> HIDE DEF z
  <2> DEFINE size == TailSize
  <2>2. tail \in Nat /\ size \in Nat /\ "NOTE" \in HeaderTypes /\ "none" \in HeaderFlags
    BY <1>3, <1>17, <1>19
  <2>3. h[14] = Header("NOTE", "none", tail, z, size, z)
    BY <2>1
  <2> HIDE DEF size
  <2>4. Spans(h[14], "NOTE", tail, z, size, z) /\ h[14] \in HeaderRecord
    BY <2>1, <2>2, <2>3, HeaderSpans
  <2>5. QED
    BY <2>4 DEF z, size
<1>34. \A i \in 1 .. 14 : h[i] \in HeaderRecord
  <2>1. \A i \in 1 .. 14 : i = 1 \/ i = 2 \/ i = 3 \/ i = 4 \/ i = 5 \/ i = 6 \/ i = 7 \/ i = 8 \/ i = 9 \/ i = 10
                           \/ i = 11 \/ i = 12 \/ i = 13 \/ i = 14
    OBVIOUS
  <2>2. QED
    BY <1>20, <1>21, <1>22, <1>23, <1>24, <1>25, <1>26, <1>27, <1>28, <1>29, <1>30, <1>31, <1>32, <1>33, <2>1
<1>35. TitleSpans(h, r, R, p, u, base, file, t, comment, version, tail)
  BY <1>20, <1>21, <1>22, <1>23, <1>24, <1>25, <1>26, <1>27, <1>28, <1>29, <1>30, <1>31, <1>32, <1>33, Zenon
     DEF TitleSpans, n7, s10, n13, s2, s3, m4, s5, m5, s8, m8, tls
<1>36. QED
  BY <1>7, <1>34, <1>35, Zenon DEF h, r, R, p, u, base, file, t, comment, version, tail

(* The header list and the file of a title are arranged for the container.    *)
LEMMA TitleArranged ==
  ASSUME NEW sizes, Buildable(sizes), NEW image, image.sections = LinkedPie(sizes),
         NEW modules, NEW imports, Countable(image, modules, imports), NEW hash,
         ~(RelroEnd(Regions(image)) > Regions(image).dataStart)
  PROVE  LET o == Emit(image, hash, modules, imports, Regions(image))
         IN  Arranged([size |-> o.size, headers |-> o.headers])
<1> DEFINE r == Regions(image)
           o == Emit(image, hash, modules, imports, r)
           h == o.headers
           R == RelroEnd(r)
           p == ProcessAddress(r)
           u == UnwindOf(image, r)
           base == BaseOf(r)
           file == FileOf(image, r)
           t == TablesOf(image, modules, imports, r)
           comment == CommentOf(image, modules, imports, r)
           version == VersionOf(image, modules, imports, r)
           tail == TailOf(image, modules, imports, r)
           c == CopiedFileEnd(image)
           tls == r.tlsStart # 0
           full == tail + TailSize
<1>1. /\ DOMAIN h = 1 .. 14 /\ h = [i \in 1 .. 14 |-> h[i]] /\ \A i \in 1 .. 14 : h[i] \in HeaderRecord
      /\ TitleSpans(h, r, R, p, u, base, file, t, comment, version, tail)
  BY TitleHeaders
<1>2. o.size = full
  BY EmitIs
<1>3. /\ u.at \in Nat /\ u.size \in Nat /\ r.roStart + u.size <= r.roEnd
  BY FilePlaces
<1>4. /\ base \in Nat /\ DOMAIN t = 1 .. 7
      /\ \A i \in 1 .. 7 : t[i].name = TableNames[i] /\ t[i].at \in Nat /\ t[i].size \in Nat
      /\ \A i \in 1 .. 6 : t[i].at + t[i].size <= t[i + 1].at
      /\ t[1].at = base /\ t[7].size > 0
      /\ file \in Nat /\ c <= file
      /\ comment \in Nat /\ file + (t[7].at + t[7].size - base) <= comment
      /\ version.offset \in Nat /\ version.size \in Nat /\ comment + CommentSize <= version.offset
      /\ tail \in Nat /\ version.offset + version.size <= tail /\ CommentSize \in Nat
  BY BehindIs
<1>5. /\ r.textEnd \in Nat /\ r.roStart \in Nat /\ r.roEnd \in Nat /\ r.relroStart \in Nat
      /\ r.dataStart \in Nat /\ r.dataEnd \in Nat /\ r.dataStoredEnd \in Nat /\ 0 < r.textEnd
      /\ r.roStart < r.roEnd /\ r.dataStart + 8 <= r.dataStoredEnd /\ r.dataStoredEnd <= r.dataEnd
      /\ r.textEnd <= r.roStart /\ r.roEnd <= r.relroStart
  BY RegionsOrdered
<1>6. p \in Nat
  BY ParametersAre
<1>7. /\ r.textEnd + Page <= c /\ r.roEnd + Page <= c
      /\ R \in Nat /\ R > r.relroStart /\ R <= r.dataStart /\ p + ProcessSize <= R
      /\ r.dataStart + Page <= c /\ r.dataStoredEnd + Page <= c + 8
      /\ tls => /\ r.tlsStart \in Nat /\ r.tlsFileEnd \in Nat /\ r.tlsMemoryEnd \in Nat
                /\ r.dataStart < r.tlsStart /\ r.tlsStart <= r.tlsFileEnd /\ r.tlsFileEnd <= r.tlsMemoryEnd
                /\ r.tlsFileEnd + Page <= c
  BY TitleNumbers, Zenon
<1>8. c \in Nat
  BY CopiedEnd
<1>9. Page = \h4000 /\ ProcessSize = \h60 /\ TailSize = \h18
  BY DEF Page, ProcessSize, TailSize
<1>10. t[6].at \in Nat /\ t[6].size \in Nat /\ t[7].at \in Nat /\ t[7].size \in Nat /\ t[6].at + t[6].size <= t[7].at /\ base <= t[6].at
  <2> HIDE DEF t, base
  <2>1. 1 \in 1 .. 6 /\ 2 \in 1 .. 6 /\ 3 \in 1 .. 6 /\ 4 \in 1 .. 6 /\ 5 \in 1 .. 6 /\ 6 \in 1 .. 6
    OBVIOUS
  <2>2. 1 + 1 = 2 /\ 2 + 1 = 3 /\ 3 + 1 = 4 /\ 4 + 1 = 5 /\ 5 + 1 = 6 /\ 6 + 1 = 7
    OBVIOUS
  <2>3. /\ t[1].at + t[1].size <= t[2].at /\ t[2].at + t[2].size <= t[3].at /\ t[3].at + t[3].size <= t[4].at
        /\ t[4].at + t[4].size <= t[5].at /\ t[5].at + t[5].size <= t[6].at /\ t[6].at + t[6].size <= t[7].at
    BY <1>4, <2>1, <2>2
  <2>4. 1 \in 1 .. 7 /\ 2 \in 1 .. 7 /\ 3 \in 1 .. 7 /\ 4 \in 1 .. 7 /\ 5 \in 1 .. 7 /\ 6 \in 1 .. 7 /\ 7 \in 1 .. 7
    OBVIOUS
  <2>5. /\ t[1].at \in Nat /\ t[2].at \in Nat /\ t[3].at \in Nat /\ t[4].at \in Nat /\ t[5].at \in Nat /\ t[6].at \in Nat /\ t[7].at \in Nat
        /\ t[1].size \in Nat /\ t[2].size \in Nat /\ t[3].size \in Nat /\ t[4].size \in Nat /\ t[5].size \in Nat /\ t[6].size \in Nat
        /\ t[7].size \in Nat
    BY <1>4, <2>4
  <2>6. t[1].at = base
    BY <1>4
  <2>7. QED
    BY <2>3, <2>5, <2>6
<1> HIDE DEF h, r, R, p, u, base, file, t, comment, version, tail, c, tls, o
<1> DEFINE a6 == t[6].at
           b6 == t[6].size
           a7 == t[7].at
           b7 == t[7].size
           vo == version.offset
           vs == version.size
<1>11. /\ a6 \in Nat /\ b6 \in Nat /\ a7 \in Nat /\ b7 \in Nat /\ a6 + b6 <= a7 /\ base <= a6 /\ b7 > 0
       /\ vo \in Nat /\ vs \in Nat /\ comment + CommentSize <= vo /\ vo + vs <= tail
  BY <1>4, <1>10
<1>12. file + (a7 + b7 - base) <= comment
  BY <1>4
<1> HIDE DEF a6, b6, a7, b7, vo, vs
<1>13. c + 24 <= full /\ file <= comment /\ comment <= vo /\ vo <= tail /\ full \in Nat /\ full = tail + 24
  BY <1>4, <1>8, <1>9, <1>11, <1>12
<1> HIDE DEF full
<1>14. \A i \in 1 .. 14 : i = 1 \/ i = 2 \/ i = 3 \/ i = 4 \/ i = 5 \/ i = 6 \/ i = 7 \/ i = 8 \/ i = 9 \/ i = 10
                          \/ i = 11 \/ i = 12 \/ i = 13 \/ i = 14
  OBVIOUS
<1> DEFINE ty(i) == h[i].type
           f(i) == h[i].offset
           s(i) == h[i].size
<1>15. /\ ty(1) = "LOAD" /\ f(1) = Page /\ s(1) = r.textEnd
       /\ ty(2) = "LOAD" /\ f(2) = r.roStart + Page /\ s(2) = r.roEnd - r.roStart
       /\ ty(3) = "LOAD" /\ f(3) = r.relroStart + Page /\ s(3) = R - r.relroStart
       /\ ty(4) = "GNU_RELRO" /\ f(4) = r.relroStart + Page /\ s(4) = R - r.relroStart
       /\ ty(5) = "LOAD" /\ f(5) = r.dataStart + Page /\ s(5) = r.dataStoredEnd - r.dataStart
       /\ ty(6) = "PROCPARAM" /\ f(6) = p + Page /\ s(6) = ProcessSize
       /\ ty(7) = "DYNAMIC" /\ f(7) = file + (a7 - base) /\ s(7) = b7
  BY <1>1, Zenon DEF TitleSpans, Spans, a7, b7
<1>16. /\ tls => ty(8) = "TLS" /\ f(8) = r.tlsStart + Page /\ s(8) = r.tlsFileEnd - r.tlsStart
       /\ ~tls => ty(8) = "TLS" /\ f(8) = r.relroStart + Page /\ s(8) = 0
       /\ ty(9) = "EH_FRAME" /\ f(9) = r.roStart + Page /\ s(9) = u.size
       /\ ty(10) = "LOAD" /\ f(10) = file /\ s(10) = (a7 + b7) - base
       /\ ty(11) = "COMMENT" /\ f(11) = comment /\ s(11) = CommentSize
       /\ ty(12) = "VERSION" /\ f(12) = vo /\ s(12) = vs
       /\ ty(13) = "NOTE" /\ f(13) = file + (a6 - base) /\ s(13) = b6
       /\ ty(14) = "NOTE" /\ f(14) = tail /\ s(14) = TailSize
  BY <1>1, Zenon DEF TitleSpans, Spans, a6, b6, a7, b7, vo, vs, tls
<1> HIDE DEF ty, f, s
<1>17. \A i \in 1 .. 14 : f(i) + s(i) <= full
  <2>1. /\ f(1) + s(1) <= full /\ f(2) + s(2) <= full /\ f(3) + s(3) <= full /\ f(4) + s(4) <= full /\ f(5) + s(5) <= full
        /\ f(6) + s(6) <= full
    BY <1>5, <1>6, <1>7, <1>8, <1>9, <1>13, <1>15
  <2>2. f(7) + s(7) <= full /\ f(10) + s(10) <= full /\ f(13) + s(13) <= full
    BY <1>4, <1>11, <1>12, <1>13, <1>15, <1>16
  <2>3. f(8) + s(8) <= full
    <3>1. CASE tls
      BY <1>5, <1>7, <1>8, <1>9, <1>13, <1>16, <3>1
    <3>2. CASE ~tls
      BY <1>5, <1>7, <1>8, <1>9, <1>13, <1>16, <3>2
    <3>3. QED
      BY <3>1, <3>2
  <2>4. f(9) + s(9) <= full
    BY <1>3, <1>5, <1>7, <1>8, <1>9, <1>13, <1>16
  <2>5. f(11) + s(11) <= full /\ f(12) + s(12) <= full /\ f(14) + s(14) <= full
    BY <1>4, <1>9, <1>11, <1>13, <1>16
  <2>6. QED
    BY <1>14, <2>1, <2>2, <2>3, <2>4, <2>5
<1>18. \A i \in {1, 2, 3, 5, 10} : s(i) # 0
  <2>1. s(1) # 0 /\ s(2) # 0 /\ s(3) # 0 /\ s(5) # 0
    BY <1>5, <1>7, <1>15
  <2>2. s(10) # 0
    BY <1>4, <1>11, <1>16
  <2>3. QED
    BY <2>1, <2>2
<1>19. \A i \in 1 .. 14 : ty(i) = Arrangement[i] \/ (i = 6 /\ ty(i) \notin {"LOAD", "VERSION"})
  <2>1. /\ Arrangement[1] = "LOAD" /\ Arrangement[2] = "LOAD" /\ Arrangement[3] = "LOAD" /\ Arrangement[4] = "GNU_RELRO"
        /\ Arrangement[5] = "LOAD" /\ Arrangement[7] = "DYNAMIC" /\ Arrangement[8] = "TLS" /\ Arrangement[9] = "EH_FRAME"
        /\ Arrangement[10] = "LOAD" /\ Arrangement[11] = "COMMENT" /\ Arrangement[12] = "VERSION" /\ Arrangement[13] = "NOTE"
        /\ Arrangement[14] = "NOTE"
    BY SMT DEF Arrangement
  <2> DEFINE a(i) == Arrangement[i]
  <2>2. /\ ty(1) = a(1) /\ ty(2) = a(2) /\ ty(3) = a(3) /\ ty(4) = a(4) /\ ty(5) = a(5) /\ ty(6) \notin {"LOAD", "VERSION"} /\ ty(7) = a(7)
        /\ ty(8) = a(8) /\ ty(9) = a(9) /\ ty(10) = a(10) /\ ty(11) = a(11) /\ ty(12) = a(12) /\ ty(13) = a(13) /\ ty(14) = a(14)
    BY <1>15, <1>16, <2>1
  <2> HIDE DEF a
  <2>3. \A i \in 1 .. 14 : ty(i) = a(i) \/ (i = 6 /\ ty(i) \notin {"LOAD", "VERSION"})
    BY <1>14, <2>2
  <2>4. QED
    BY <2>3, Zenon DEF a
<1>20. h \in Seq(HeaderRecord) /\ Len(h) = 14
  <2>1. 14 \in Nat
    OBVIOUS
  <2>2. QED
    BY <1>1, <2>1, Sequence
<1> DEFINE e == [size |-> o.size, headers |-> h]
<1>21. e.size = full /\ e.headers = h
  BY <1>2
<1> HIDE DEF e
<1>22. /\ \A i \in 1 .. 14 : e.headers[i].type = Arrangement[i] \/ (i = 6 /\ e.headers[i].type \notin {"LOAD", "VERSION"})
       /\ \A i \in 1 .. 14 : e.headers[i].offset + e.headers[i].size <= e.size
       /\ \A i \in {1, 2, 3, 5, 10} : e.headers[i].size # 0
  BY <1>17, <1>18, <1>19, <1>21, Zenon DEF ty, f, s
<1>23. e.size \in Nat /\ DOMAIN e.headers = 1 .. 14 /\ e.headers \in Seq(HeaderRecord) /\ Len(e.headers) = 14
  BY <1>1, <1>13, <1>20, <1>21
<1>24. Arranged(e)
  BY <1>22, <1>23, Zenon DEF Arranged, HeaderCount
<1>25. QED
  BY <1>24, Zenon DEF e, h, o, r

(* Why the writer refuses a title, and what it makes of the others.           *)
SymbolsOf(image) == [i \in 1 .. Len(image.symbols) - 1 |-> image.symbols[i + 1]]
ProvidersOf(image, stubs) == [i \in DOMAIN image.needed |-> ProviderOf(image.needed[i], stubs)]
ModulesOf(image, stubs) == [i \in DOMAIN image.needed |-> stubs[ProvidersOf(image, stubs)[i]]]
ImportsOf(image, stubs) ==
  [i \in DOMAIN SymbolsOf(image) |-> Import(SymbolsOf(image)[i].name, ModulesOf(image, stubs))]
Written(image, hash, stubs) == Emit(image, hash, ModulesOf(image, stubs), ImportsOf(image, stubs), Regions(image))

Sectionless(image) == ~\A name \in {".text", ".dynamic", ".got"} : HasSection(image, name)
Misplaced(image) == SectionOf(image, ".text").at # 0 \/ SectionOf(image, ".text").offset < Page
Cramped(image) == RelroEnd(Regions(image)) > Regions(image).dataStart
Unprovided(image, stubs) == \E i \in DOMAIN ProvidersOf(image, stubs) : ProvidersOf(image, stubs)[i] = 0
Exporting(image) == \E i \in DOMAIN SymbolsOf(image) : SymbolsOf(image)[i].defined
Unbound(image, stubs) ==
  \E i \in DOMAIN SymbolsOf(image) : ImportFrom(SymbolsOf(image)[i].name, ModulesOf(image, stubs)) = 0
Incongruent(image, hash, stubs) == ~\A header \in ToSet(Written(image, hash, stubs).headers) : Congruent(header)

(* The writer either emits a module or reports a fault there is.             *)
LEMMA WriterIs ==
  ASSUME NEW image, NEW hash, NEW stubs
  PROVE  LET w == WriteExecutable(image, hash, stubs)
         IN  \/ w.error = "section missing" /\ Sectionless(image)
             \/ w.error = "text misplaced" /\ Misplaced(image)
             \/ w.error = "no room for the parameters" /\ Cramped(image)
             \/ w.error = "needed module missing" /\ ~Cramped(image) /\ Unprovided(image, stubs)
             \/ w.error = "application exports" /\ ~Cramped(image) /\ ~Unprovided(image, stubs) /\ Exporting(image)
             \/ w.error = "import missing" /\ ~Cramped(image) /\ ~Unprovided(image, stubs) /\ Unbound(image, stubs)
             \/ w.error = "segment not page aligned" /\ ~Cramped(image) /\ ~Unprovided(image, stubs) /\ Incongruent(image, hash, stubs)
             \/ /\ w.error = "none" /\ w = Written(image, hash, stubs)
                /\ ~Cramped(image) /\ ~Unprovided(image, stubs) /\ ~Exporting(image) /\ ~Unbound(image, stubs)
<1> DEFINE w == WriteExecutable(image, hash, stubs)
           output == Written(image, hash, stubs)
           c1 == Sectionless(image)
           c2 == Misplaced(image)
           c3 == Cramped(image)
           c4 == Unprovided(image, stubs)
           c5 == Exporting(image)
           c6 == Unbound(image, stubs)
           c7 == Incongruent(image, hash, stubs)
<1>1. w = IF c1 THEN [error |-> "section missing"]
          ELSE IF c2 THEN [error |-> "text misplaced"]
          ELSE IF c3 THEN [error |-> "no room for the parameters"]
          ELSE IF c4 THEN [error |-> "needed module missing"]
          ELSE IF c5 THEN [error |-> "application exports"]
          ELSE IF c6 THEN [error |-> "import missing"]
          ELSE IF ~c7 THEN output
          ELSE [error |-> "segment not page aligned"]
  BY Zenon DEF WriteExecutable, Written, Sectionless, Misplaced, Cramped, Unprovided, Exporting, Unbound, Incongruent,
               SymbolsOf, ProvidersOf, ModulesOf, ImportsOf
<1>2. output.error = "none"
  BY EmitIs DEF Written
<1>3. \A e : [error |-> e].error = e
  OBVIOUS
<1> HIDE DEF w, output, c1, c2, c3, c4, c5, c6, c7
<1>4. \/ c1 /\ w.error = "section missing"
      \/ c2 /\ w.error = "text misplaced"
      \/ c3 /\ w.error = "no room for the parameters"
      \/ ~c3 /\ c4 /\ w.error = "needed module missing"
      \/ ~c3 /\ ~c4 /\ c5 /\ w.error = "application exports"
      \/ ~c3 /\ ~c4 /\ c6 /\ w.error = "import missing"
      \/ ~c3 /\ ~c4 /\ c7 /\ w.error = "segment not page aligned"
      \/ ~c3 /\ ~c4 /\ ~c5 /\ ~c6 /\ w = output /\ w.error = "none"
  BY <1>1, <1>2, <1>3, Zenon
<1>5. QED
  BY <1>4, Zenon DEF w, output, c1, c2, c3, c4, c5, c6, c7

(* A program, its linked file and what the writer reads of it.               *)
LEMMA EntriesAre ==
  ASSUME NEW table, Listed(table)
  PROVE  /\ Entries(table) \in Seq(ToSet(table)) /\ Len(Entries(table)) \in Nat /\ DOMAIN Entries(table) = 1 .. Len(Entries(table))
         /\ \A i \in 1 .. Len(Entries(table)) : i \in DOMAIN table /\ Entries(table)[i] = table[i] /\ table[i].tag # 0
<1> DEFINE ends == {i \in DOMAIN table : table[i].tag = 0}
           U == ToSet(table)
<1>1. table \in Seq(U) /\ Len(table) \in Nat /\ DOMAIN table = 1 .. Len(table)
  BY LenProperties DEF Listed
<1> HIDE DEF U
<1>2. CASE ends = {}
  <2>1. Entries(table) = table
    BY <1>2 DEF Entries
  <2>2. QED
    BY <1>1, <1>2, <2>1 DEF U
<1>3. CASE ends # {}
  <2> DEFINE m == Min(ends)
  <2>1. Entries(table) = SubSeq(table, 1, m - 1)
    BY <1>3 DEF Entries
  <2>2. ends \in SUBSET Nat
    BY <1>1
  <2>3. m \in ends /\ \A x \in ends : m <= x
    BY <1>3, <2>2, MinIs
  <2>6. m \in 1 .. Len(table)
    BY <1>1, <2>3
  <2> HIDE DEF m
  <2>4. \A i \in 1 .. m - 1 : i \in DOMAIN table /\ table[i].tag # 0
    <3>1. TAKE i \in 1 .. m - 1
    <3>2. i \in DOMAIN table /\ ~(m <= i)
      BY <1>1, <2>6
    <3>3. QED
      BY <2>3, <3>2
  <2>5. SubSeq(table, 1, m - 1) \in Seq(U) /\ Len(SubSeq(table, 1, m - 1)) = m - 1
        /\ \A i \in 1 .. m - 1 : SubSeq(table, 1, m - 1)[i] = table[i]
    BY <1>1, <2>6
  <2>7. DOMAIN SubSeq(table, 1, m - 1) = 1 .. m - 1 /\ m - 1 \in Nat
    BY <2>5, <2>6
  <2> DEFINE e == SubSeq(table, 1, m - 1)
  <2> HIDE DEF e
  <2>8. e \in Seq(U) /\ Len(e) = m - 1 /\ DOMAIN e = 1 .. m - 1 /\ m - 1 \in Nat /\ \A i \in 1 .. m - 1 : e[i] = table[i]
    BY <2>5, <2>7 DEF e
  <2>9. Entries(table) = e
    BY <2>1 DEF e
  <2>10. QED
    BY <2>4, <2>8, <2>9 DEF U
<1>4. QED
  BY <1>2, <1>3

(* The needed modules are the entries of that tag, all of them.              *)
LEMMA NeedsAre ==
  ASSUME NEW table, Listed(table)
  PROVE  /\ Len(Needs(table)) \in Nat /\ DOMAIN Needs(table) = 1 .. Len(Needs(table))
         /\ \A i \in 1 .. Len(Needs(table)) : \E j \in DOMAIN Entries(table) : Needs(table)[i] = Entries(table)[j] /\ Entries(table)[j].tag = 1
         /\ \A j \in DOMAIN Entries(table) : Entries(table)[j].tag = 1 => \E i \in 1 .. Len(Needs(table)) : Needs(table)[i] = Entries(table)[j]
<1> DEFINE e == Entries(table)
           n == Len(e)
           S == {i \in DOMAIN e : e[i].tag = 1}
<1>1. n \in Nat /\ DOMAIN e = 1 .. n
  BY EntriesAre
<1>2. S \in SUBSET (1 .. n)
  BY <1>1
<1>3. Needs(table) = Picked(e, S)
  BY DEF Needs
<1> HIDE DEF e, n, S
<1>4. /\ DOMAIN Picked(e, S) = 1 .. Cardinality(S) /\ Len(Picked(e, S)) = Cardinality(S) /\ Cardinality(S) \in Nat
      /\ \A k \in 1 .. Cardinality(S) : Picked(e, S)[k] = e[InOrder(S)[k]] /\ InOrder(S)[k] \in S
  BY <1>1, <1>2, PickedIs
<1>5. \A i \in S : \E k \in 1 .. Cardinality(S) : InOrder(S)[k] = i
  BY <1>1, <1>2, InOrderIs
<1>6. \A i : i \in S <=> i \in DOMAIN e /\ e[i].tag = 1
  BY DEF S
<1> DEFINE c == Cardinality(S)
           order == InOrder(S)
           q == Picked(e, S)
<1>7. /\ Needs(table) = q /\ DOMAIN q = 1 .. c /\ Len(q) = c /\ c \in Nat
      /\ \A k \in 1 .. c : q[k] = e[order[k]] /\ order[k] \in S
      /\ \A i \in S : \E k \in 1 .. c : order[k] = i
  BY <1>3, <1>4, <1>5, Zenon
<1> HIDE DEF c, order, q
<1>8. \A k \in 1 .. c : \E j \in DOMAIN e : q[k] = e[j] /\ e[j].tag = 1
  BY <1>6, <1>7
<1>9. \A j \in DOMAIN e : e[j].tag = 1 => \E k \in 1 .. c : q[k] = e[j]
  <2>1. TAKE j \in DOMAIN e
  <2>2. HAVE e[j].tag = 1
  <2>3. j \in S
    BY <1>6, <2>2
  <2>4. PICK k \in 1 .. c : order[k] = j
    BY <1>7, <2>3
  <2>5. q[k] = e[j]
    BY <1>7, <2>4
  <2>6. QED
    BY <2>5
<1>10. QED
  BY <1>7, <1>8, <1>9, Zenon DEF e

(* Every program of the assumptions can be built.                            *)
LEMMA SizesAre ==
  ASSUME NEW program \in Program
  PROVE  Buildable(SizesOf(program))
<1> DEFINE sizes == SizesOf(program)
           a == Len(program.symbols)
           b == Len(program.relocations)
           c == Len(program.plt)
           d == program.hashing
<1>1. /\ program.sizes \in [SectionNames -> Nat] /\ d \in Nat
      /\ \A name \in {".text", ".eh_frame", ".got", ".dynamic"} : program.sizes[name] # 0
      /\ program.sizes[".tbss"] # 0 => program.sizes[".tdata"] # 0
      /\ Listed(program.symbols) /\ Listed(program.plt) /\ Listed(program.relocations)
  BY ProgramAssumption, Zenon
<1>2. a \in Nat /\ b \in Nat /\ c \in Nat
  BY <1>1, LenProperties DEF Listed
<1> HIDE DEF a, b, c, d
<1>3. 24 * a + d \in Nat /\ 24 * b \in Nat /\ 24 * c \in Nat
  BY <1>1, <1>2
<1> DEFINE v(name) == CASE name = ".dynsym" -> 24 * a + d
                        [] name = ".rela.dyn" -> 24 * b
                        [] name = ".rela.plt" -> 24 * c
                        [] OTHER -> program.sizes[name]
<1>4. sizes = [name \in SectionNames |-> v(name)]
  BY DEF SizesOf, a, b, c, d
<1> DEFINE x == 24 * a + d
           y == 24 * b
           z == 24 * c
<1> HIDE DEF x, y, z, sizes
<1>5. \A name : /\ name = ".dynsym" => v(name) = x
                /\ name = ".rela.dyn" => v(name) = y
                /\ name = ".rela.plt" => v(name) = z
                /\ name \notin {".dynsym", ".rela.dyn", ".rela.plt"} => v(name) = program.sizes[name]
  BY DEF x, y, z
<1>6. x \in Nat /\ y \in Nat /\ z \in Nat
  BY <1>3 DEF x, y, z
<1> HIDE DEF v
<1>7. \A name \in SectionNames : v(name) \in Nat
  <2>1. TAKE name \in SectionNames
  <2>2. CASE name \in {".dynsym", ".rela.dyn", ".rela.plt"}
    BY <1>5, <1>6, <2>2
  <2>3. CASE name \notin {".dynsym", ".rela.dyn", ".rela.plt"}
    BY <1>1, <1>5, <2>3
  <2>4. QED
    BY <2>2, <2>3
<1>8. sizes \in Sizing
  BY <1>4, <1>7 DEF Sizing
<1>9. /\ Script[1].name = ".text" /\ Script[3].name = ".eh_frame" /\ Script[6].name = ".got" /\ Script[11].name = ".dynamic"
      /\ Script[13].name = ".tdata" /\ Script[14].name = ".tbss"
  BY ScriptIs, Zenon
<1>10. \A i \in 1 .. 15 : Script[i].name \in SectionNames
  BY ScriptIs, Zenon
<1>11. 1 \in 1 .. 15 /\ 3 \in 1 .. 15 /\ 6 \in 1 .. 15 /\ 11 \in 1 .. 15 /\ 13 \in 1 .. 15 /\ 14 \in 1 .. 15
  OBVIOUS
<1>12. \A name \in SectionNames : name \notin {".dynsym", ".rela.dyn", ".rela.plt"} => sizes[name] = program.sizes[name]
  BY <1>4, <1>5
<1>13. /\ ".text" \in SectionNames /\ ".eh_frame" \in SectionNames /\ ".got" \in SectionNames /\ ".dynamic" \in SectionNames
       /\ ".tdata" \in SectionNames /\ ".tbss" \in SectionNames
  BY <1>9, <1>10, <1>11, Zenon
<1>14. /\ sizes[".text"] # 0 /\ sizes[".eh_frame"] # 0 /\ sizes[".got"] # 0 /\ sizes[".dynamic"] # 0
       /\ sizes[".tbss"] # 0 => sizes[".tdata"] # 0
  BY <1>1, <1>12, <1>13
<1>15. 1 \in Present(sizes) /\ 3 \in Present(sizes) /\ 6 \in Present(sizes) /\ 11 \in Present(sizes)
       /\ (14 \in Present(sizes) => 13 \in Present(sizes))
  BY <1>9, <1>11, <1>14, Zenon DEF Present
<1>16. QED
  BY <1>8, <1>15 DEF Buildable, sizes

(* The image of a linked program, if the file was not cut off.                *)

(* What read_image() makes of the linked program.                            *)
LEMMA ImageIs ==
  ASSUME NEW program \in Program
  PROVE  LET file == PieFile(program)
             image == ReadImage(file)
         IN  /\ file.sections = LinkedPie(SizesOf(program)) /\ file.symbols = program.symbols /\ file.dynamic = program.dynamic
             /\ file.relocations = program.relocations /\ file.plt = program.plt
             /\ ~TablesComplete(file) => image.error = "unreadable image"
             /\ TablesComplete(file) =>
                   /\ image.error = "none" /\ image.sections = LinkedPie(SizesOf(program)) /\ image.symbols = program.symbols
                   /\ image.relocations = program.relocations /\ image.plt = program.plt
                   /\ image.needed = [i \in 1 .. Len(Needs(program.dynamic)) |-> Normalized(Needs(program.dynamic)[i].value)]
<1> DEFINE file == PieFile(program)
           image == ReadImage(file)
           sections == LinkedPie(SizesOf(program))
           size == Max({s.offset + s.size : s \in {s \in ToSet(sections) : ~NoBits(s)}}) - program.cut
<1>1. file = [sections |-> sections, size |-> size, symbols |-> program.symbols,
              relocations |-> program.relocations, plt |-> program.plt, dynamic |-> program.dynamic]
  BY Zenon DEF PieFile
<1> HIDE DEF file, sections, size
<1>2. /\ file.sections = sections /\ file.symbols = program.symbols /\ file.dynamic = program.dynamic
      /\ file.relocations = program.relocations /\ file.plt = program.plt
  BY <1>1
<1>3. program.symbols # <<>> /\ Listed(program.dynamic)
  BY ProgramAssumption, Zenon
<1> DEFINE needs == Needs(file.dynamic)
           needed == [i \in DOMAIN needs |-> Normalized(needs[i].value)]
           record == [error |-> "none", sections |-> file.sections, symbols |-> file.symbols,
                      relocations |-> file.relocations, plt |-> file.plt, needed |-> needed]
<1>4. image = IF ~TablesComplete(file) \/ file.symbols = <<>> THEN [error |-> "unreadable image"] ELSE record
  BY Zenon DEF ReadImage
<1>5. DOMAIN needs = 1 .. Len(Needs(program.dynamic))
  BY <1>2, <1>3, NeedsAre
<1>6. needed = [i \in 1 .. Len(Needs(program.dynamic)) |-> Normalized(Needs(program.dynamic)[i].value)]
  BY <1>2, <1>5
<1> HIDE DEF image, needed
<1>7. CASE ~TablesComplete(file)
  <2>1. image = [error |-> "unreadable image"]
    BY <1>4, <1>7
  <2>2. image.error = "unreadable image"
    BY <2>1
  <2>3. QED
    BY <1>2, <1>7, <2>2 DEF file, image, sections
<1>8. CASE TablesComplete(file)
  <2>1. image = record
    BY <1>2, <1>3, <1>4, <1>8
  <2>2. /\ image.error = "none" /\ image.sections = sections /\ image.symbols = program.symbols
        /\ image.relocations = program.relocations /\ image.plt = program.plt /\ image.needed = needed
    BY <1>2, <2>1
  <2>3. QED
    BY <1>2, <1>6, <1>8, <2>2, Zenon DEF file, image, sections
<1>9. QED
  BY <1>7, <1>8

(* The lengths of what the writer goes through.                               *)
LEMMA TitleCountable ==
  ASSUME NEW program \in Program, TablesComplete(PieFile(program)), NEW stubs
  PROVE  LET image == ReadImage(PieFile(program))
             n == Len(Needs(program.dynamic))
             m == Len(program.symbols) - 1
         IN  /\ Countable(image, ModulesOf(image, stubs), ImportsOf(image, stubs))
             /\ n \in Nat /\ m \in Nat /\ program.symbols \in Seq(ToSet(program.symbols))
             /\ DOMAIN image.needed = 1 .. n /\ DOMAIN ProvidersOf(image, stubs) = 1 .. n
             /\ DOMAIN ModulesOf(image, stubs) = 1 .. n /\ Len(ModulesOf(image, stubs)) = n
             /\ DOMAIN SymbolsOf(image) = 1 .. m /\ DOMAIN ImportsOf(image, stubs) = 1 .. m
<1> DEFINE image == ReadImage(PieFile(program))
           n == Len(Needs(program.dynamic))
           m == Len(program.symbols) - 1
           modules == ModulesOf(image, stubs)
           imports == ImportsOf(image, stubs)
<1>1. /\ image.symbols = program.symbols /\ image.relocations = program.relocations /\ image.plt = program.plt
      /\ image.needed = [i \in 1 .. n |-> Normalized(Needs(program.dynamic)[i].value)]
  BY ImageIs
<1>2. /\ Listed(program.symbols) /\ program.symbols # <<>> /\ Listed(program.plt) /\ Listed(program.dynamic) /\ Listed(program.relocations)
  BY ProgramAssumption, Zenon
<1>3. n \in Nat
  BY <1>2, NeedsAre
<1>4. program.symbols \in Seq(ToSet(program.symbols)) /\ m \in Nat
  BY <1>2, LenProperties, EmptySeq DEF Listed
<1>5. Len(image.symbols) \in Nat /\ Len(image.plt) \in Nat /\ Len(image.relocations) \in Nat
  BY <1>1, <1>2, LenProperties DEF Listed
<1> HIDE DEF image, n
<1>6. DOMAIN image.needed = 1 .. n
  BY <1>1
<1>7. DOMAIN ProvidersOf(image, stubs) = 1 .. n /\ DOMAIN modules = 1 .. n
  BY <1>6, Zenon DEF ProvidersOf, ModulesOf
<1>8. modules = [i \in 1 .. n |-> modules[i]]
  BY <1>6, Zenon DEF ModulesOf
<1>9. m = Len(image.symbols) - 1
  BY <1>1
<1>10. DOMAIN SymbolsOf(image) = 1 .. m /\ DOMAIN imports = 1 .. m
  BY <1>9, Zenon DEF SymbolsOf, ImportsOf
<1> HIDE DEF modules, imports, m
<1>11. Len(modules) = n
  BY <1>3, <1>8
<1>12. Len(Strings(modules, imports)) \in Nat
  BY <1>3, <1>4, <1>10, <1>11, StringsFinite
<1>13. Countable(image, modules, imports)
  BY <1>3, <1>5, <1>11, <1>12 DEF Countable
<1>14. QED
  BY <1>3, <1>4, <1>6, <1>7, <1>10, <1>11, <1>13, Zenon DEF image, n, m, modules, imports

-----------------------------------------------------------------------------
(* The hash table of a title: which symbols a chain holds.                   *)

HashState(count) == [bucket : [0 .. count - 1 -> 0 .. count - 1], chain : [0 .. count - 1 -> 0 .. count - 1]]
NoChains(count) == [bucket |-> [i \in 0 .. count - 1 |-> 0], chain |-> [i \in 0 .. count - 1 |-> 0]]
Entered(count, hash, s, i) ==
  LET bucket == hash[i] % count
  IN  [bucket |-> [s.bucket EXCEPT ![bucket] = i], chain |-> [s.chain EXCEPT ![i] = s.bucket[bucket]]]

(* The loop over the symbols exists and is what its definition says.          *)
LEMMA HashTurnsAre ==
  ASSUME NEW count \in Nat \ {0}, NEW hash \in [1 .. count - 1 -> Nat]
  PROVE  LET t == HashTurns(count, hash)
         IN  /\ \A k \in 0 .. count - 1 : t[k] \in HashState(count)
             /\ t[0] = NoChains(count) /\ \A k \in 1 .. count - 1 : t[k] = Entered(count, hash, t[k - 1], count - k)
<1> DEFINE n == count - 1
           S == HashState(count)
           start == NoChains(count)
           Turn(f) == [k \in 0 .. n |-> IF k = 0 THEN start ELSE Entered(count, hash, f[k - 1], count - k)]
           step == [k \in 1 .. n |-> [s \in S |-> Entered(count, hash, s, count - k)]]
           t == HashTurns(count, hash)
<1>1. n \in Nat /\ \A k \in 1 .. n : count - k \in 1 .. n
  OBVIOUS
<1>2. \A i \in 1 .. n : i \in 0 .. count - 1 /\ hash[i] % count \in 0 .. count - 1
  <2>1. TAKE i \in 1 .. n
  <2>2. hash[i] \in Nat /\ i \in 0 .. count - 1
    OBVIOUS
  <2>3. QED
    BY <2>2
<1>3. start \in S
  BY DEF NoChains, HashState
<1>4. \A i \in 1 .. n, s \in S : Entered(count, hash, s, i) \in S
  <2>1. TAKE i \in 1 .. n, s \in S
  <2> DEFINE b == hash[i] % count
             D == 0 .. count - 1
             x == s.bucket
             y == s.chain
             x1 == [x EXCEPT ![b] = i]
             y1 == [y EXCEPT ![i] = x[b]]
  <2>2. b \in D /\ i \in D
    BY <1>2
  <2>3. x \in [D -> D] /\ y \in [D -> D]
    BY DEF HashState
  <2>4. Entered(count, hash, s, i) = [bucket |-> x1, chain |-> y1]
    BY DEF Entered
  <2>5. HashState(count) = [bucket : [D -> D], chain : [D -> D]]
    BY DEF HashState
  <2> HIDE DEF b, D, x, y
  <2>6. x1 \in [D -> D] /\ y1 \in [D -> D]
    BY <2>2, <2>3
  <2> HIDE DEF x1, y1
  <2>7. QED
    BY <2>4, <2>5, <2>6
<1> HIDE DEF S, start
<1>5. step \in Turns(S, n)
  BY <1>1, <1>4 DEF Turns
<1>6. PICK f : Loops(S, start, n, step, f)
  <2> HIDE DEF step, n
  <2>1. QED
    BY <1>1, <1>3, <1>5, Iteration
<1>7. f = Turn(f)
  <2>1. \A i \in 0 .. n : f[i] = Turn(f)[i]
    <3>1. SUFFICES ASSUME NEW i \in 0 .. n PROVE f[i] = Turn(f)[i]
      OBVIOUS
    <3>2. CASE i = 0
      BY <1>6, <3>2 DEF Loops
    <3>3. CASE i # 0
      <4>1. i \in 1 .. n /\ i - 1 \in 0 .. n
        BY <1>1, <3>3
      <4>2. f[i - 1] \in S
        BY <1>6, <4>1 DEF Loops
      <4>3. f[i] = step[i][f[i - 1]] /\ step[i][f[i - 1]] = Entered(count, hash, f[i - 1], count - i)
        BY <1>6, <4>1, <4>2 DEF Loops
      <4>4. QED
        BY <4>1, <4>3
    <3>4. QED
      BY <3>2, <3>3
  <2>2. f \in [0 .. n -> S]
    BY <1>6 DEF Loops
  <2>3. QED
    BY <2>1, <2>2
<1>8. t = Turn(t)
  <2>1. t = CHOOSE g : g = Turn(g)
    BY DEF HashTurns, Entered, start, NoChains
  <2> HIDE DEF Turn, t
  <2>2. QED
    BY <1>7, <2>1
<1>9. t[0] = start /\ \A i \in 1 .. n : t[i] = Entered(count, hash, t[i - 1], count - i)
  <2>1. 0 \in 0 .. n /\ \A i \in 1 .. n : i \in 0 .. n /\ i # 0
    BY <1>1
  <2>2. \A i \in 0 .. n : Turn(t)[i] = IF i = 0 THEN start ELSE Entered(count, hash, t[i - 1], count - i)
    OBVIOUS
  <2> HIDE DEF t, Turn, n
  <2>3. QED
    BY <1>8, <2>1, <2>2
<1>10. \A i \in 0 .. n : t[i] \in S
  <2>1. ASSUME NEW i \in 1 .. n, t[i - 1] \in S PROVE t[i] \in S
    <3>1. count - i \in 1 .. n
      BY <1>1
    <3>2. QED
      BY <1>4, <1>9, <2>1, <3>1
  <2> HIDE DEF t, n
  <2>2. QED
    BY <1>1, <1>3, <1>9, <2>1, Invariance
<1>11. QED
  BY <1>9, <1>10 DEF S, start

(* A number is the first symbol of a class from some symbol on, or 0 if there  *)
(* is none.                                                                   *)
FirstIn(count, hash, b, from, x) ==
  \/ x = 0 /\ \A j \in from .. count - 1 : hash[j] % count # b
  \/ /\ x \in from .. count - 1 /\ hash[x] % count = b
     /\ \A j \in from .. count - 1 : hash[j] % count = b => x <= j

Filed(count, hash, from, s) ==
  /\ \A b \in 0 .. count - 1 : FirstIn(count, hash, b, from, s.bucket[b])
  /\ \A i \in from .. count - 1 : FirstIn(count, hash, hash[i] % count, i + 1, s.chain[i])

(* Entering the symbol before the filed ones keeps the table in order.        *)
LEMMA EnteredFiled ==
  ASSUME NEW count \in Nat \ {0}, NEW hash \in [1 .. count - 1 -> Nat], NEW s \in HashState(count),
         NEW i \in 1 .. count - 1, Filed(count, hash, i + 1, s)
  PROVE  Filed(count, hash, i, Entered(count, hash, s, i))
<1> DEFINE c == [j \in 1 .. count - 1 |-> hash[j] % count]
           b == hash[i] % count
           D == 0 .. count - 1
           x == s.bucket
           y == s.chain
           x1 == [x EXCEPT ![b] = i]
           y1 == [y EXCEPT ![i] = x[b]]
<1>1. \A j \in 1 .. count - 1 : c[j] = hash[j] % count /\ c[j] \in D
  <2>1. TAKE j \in 1 .. count - 1
  <2>2. hash[j] \in Nat
    OBVIOUS
  <2>3. QED
    BY <2>2
<1>2. b \in D /\ i \in D /\ b = c[i]
  BY <1>1
<1>3. x \in [D -> D] /\ y \in [D -> D]
  BY DEF HashState
<1>4. Entered(count, hash, s, i).bucket = x1 /\ Entered(count, hash, s, i).chain = y1
  BY DEF Entered
<1>5. \A d, from, z : from \in 1 .. count =>
        (FirstIn(count, hash, d, from, z) <=>
            \/ z = 0 /\ \A j \in from .. count - 1 : c[j] # d
            \/ z \in from .. count - 1 /\ c[z] = d /\ \A j \in from .. count - 1 : c[j] = d => z <= j)
  <2>1. TAKE d, from, z
  <2>2. HAVE from \in 1 .. count
  <2>3. \A j \in from .. count - 1 : c[j] = hash[j] % count
    BY <1>1, <2>2
  <2> HIDE DEF c
  <2>4. QED
    BY <2>3, Zenon DEF FirstIn
<1> HIDE DEF c, x, y, b
<1>6. /\ \A d \in D : x1[d] = IF d = b THEN i ELSE x[d]
      /\ \A d \in D : y1[d] = IF d = i THEN x[b] ELSE y[d]
  BY <1>2, <1>3
<1> HIDE DEF x1, y1
<1>7. i + 1 \in 1 .. count /\ i \in 1 .. count /\ \A j \in i + 1 .. count - 1 : j \in D /\ j # i /\ j + 1 \in 1 .. count
  BY DEF D
<1>8. \A d \in D : FirstIn(count, hash, d, i + 1, x[d])
  BY DEF Filed, x, D
<1>9. \A j \in i + 1 .. count - 1 : FirstIn(count, hash, hash[j] % count, j + 1, y[j])
  BY DEF Filed, y
<1>10. \A d \in D : FirstIn(count, hash, d, i, x1[d])
  <2>1. SUFFICES ASSUME NEW d \in D PROVE FirstIn(count, hash, d, i, x1[d])
    OBVIOUS
  <2>2. \A j \in i .. count - 1 : j = i \/ j \in i + 1 .. count - 1
    BY <1>7
  <2>3. i \in i .. count - 1 /\ \A j \in i .. count - 1 : i <= j
    BY <1>7
  <2>4. CASE d = b
    <3>1. x1[d] = i /\ c[i] = d
      BY <1>2, <1>6, <2>4
    <3>2. QED
      BY <1>5, <1>7, <2>3, <3>1
  <2>5. CASE d # b
    <3>1. x1[d] = x[d] /\ c[i] # d
      BY <1>2, <1>6, <2>5
    <3>2. FirstIn(count, hash, d, i + 1, x[d])
      BY <1>8
    <3>3. CASE x[d] = 0
      <4>1. \A j \in i + 1 .. count - 1 : c[j] # d
        BY <1>5, <1>7, <3>2, <3>3
      <4>2. QED
        BY <1>5, <1>7, <2>2, <3>1, <3>3, <4>1
    <3>4. CASE x[d] # 0
      <4>1. x[d] \in i + 1 .. count - 1 /\ c[x[d]] = d /\ \A j \in i + 1 .. count - 1 : c[j] = d => x[d] <= j
        BY <1>5, <1>7, <3>2, <3>4
      <4>2. x[d] \in i .. count - 1
        BY <4>1
      <4>3. QED
        BY <1>5, <1>7, <2>2, <3>1, <4>1, <4>2, SMTT(30)
    <3>5. QED
      BY <3>3, <3>4
  <2>6. QED
    BY <2>4, <2>5
<1>11. \A j \in i .. count - 1 : FirstIn(count, hash, hash[j] % count, j + 1, y1[j])
  <2>1. SUFFICES ASSUME NEW j \in i .. count - 1 PROVE FirstIn(count, hash, hash[j] % count, j + 1, y1[j])
    OBVIOUS
  <2>2. CASE j = i
    <3>1. y1[j] = x[b] /\ hash[j] % count = b
      BY <1>2, <1>6, <2>2 DEF b
    <3>2. QED
      BY <1>2, <1>8, <2>2, <3>1
  <2>3. CASE j # i
    <3>1. j \in i + 1 .. count - 1
      BY <2>3
    <3>2. y1[j] = y[j]
      BY <1>6, <1>7, <3>1
    <3>3. QED
      BY <1>9, <3>1, <3>2
  <2>4. QED
    BY <2>2, <2>3
<1>12. QED
  BY <1>4, <1>10, <1>11 DEF Filed, D

(* In the finished table a bucket holds the first symbol of its class, and a    *)
(* chain leads from each symbol to the next of its class.                     *)
LEMMA HashFiled ==
  ASSUME NEW count \in Nat \ {0}, NEW hash \in [1 .. count - 1 -> Nat]
  PROVE  BuildHash(count, hash) \in HashState(count) /\ Filed(count, hash, 1, BuildHash(count, hash))
<1> DEFINE t == HashTurns(count, hash)
           Good == {k \in Nat : k <= count - 1 => Filed(count, hash, count - k, t[k])}
<1>1. /\ \A k \in 0 .. count - 1 : t[k] \in HashState(count)
      /\ t[0] = NoChains(count) /\ \A k \in 1 .. count - 1 : t[k] = Entered(count, hash, t[k - 1], count - k)
  BY HashTurnsAre
<1> HIDE DEF t
<1>2. 0 \in Good
  <2>1. \A b \in 0 .. count - 1 : t[0].bucket[b] = 0
    BY <1>1 DEF NoChains
  <2>2. count - 0 = count /\ ~\E j \in count .. count - 1 : TRUE
    OBVIOUS
  <2>3. Filed(count, hash, count, t[0])
    BY <2>1, <2>2, Zenon DEF Filed, FirstIn
  <2>4. QED
    BY <2>2, <2>3
<1>3. \A k \in Nat : k \in Good => k + 1 \in Good
  <2>1. SUFFICES ASSUME NEW k \in Nat, k + 1 <= count - 1, Filed(count, hash, count - k, t[k])
                 PROVE  Filed(count, hash, count - (k + 1), t[k + 1])
    OBVIOUS
  <2> DEFINE i == count - (k + 1)
  <2>2. i \in 1 .. count - 1 /\ i + 1 = count - k /\ k \in 0 .. count - 1 /\ k + 1 \in 1 .. count - 1 /\ (k + 1) - 1 = k
    BY <2>1
  <2>3. t[k] \in HashState(count) /\ t[k + 1] = Entered(count, hash, t[k], i)
    BY <1>1, <2>2
  <2> HIDE DEF i
  <2>4. Filed(count, hash, i, Entered(count, hash, t[k], i))
    BY <2>1, <2>2, <2>3, EnteredFiled
  <2>5. QED
    BY <2>3, <2>4 DEF i
<1>4. \A k \in Nat : k \in Good
  <2> HIDE DEF Good
  <2>1. QED
    BY <1>2, <1>3, Induction
<1>5. count - 1 \in Nat /\ count - (count - 1) = 1 /\ count - 1 \in 0 .. count - 1
  OBVIOUS
<1>6. Filed(count, hash, 1, t[count - 1])
  BY <1>4, <1>5
<1>7. QED
  BY <1>1, <1>5, <1>6 DEF BuildHash, t

(* The console's walk: it starts in a bucket and follows the chains.          *)
LEMMA ChainIs ==
  ASSUME NEW count \in Nat \ {0}, NEW table \in HashState(count), NEW value \in Nat
  PROVE  LET w == ChainOf(table, count, value)
         IN  /\ \A k \in 0 .. count : w[k] \in 0 .. count - 1
             /\ w[0] = table.bucket[value % count]
             /\ \A k \in 1 .. count : w[k] = IF w[k - 1] = 0 THEN 0 ELSE table.chain[w[k - 1]]
<1> DEFINE S == 0 .. count - 1
           chain == table.chain
           start == table.bucket[value % count]
           Turn(f) == [k \in 0 .. count |-> IF k = 0 THEN start ELSE IF f[k - 1] = 0 THEN 0 ELSE chain[f[k - 1]]]
           step == [k \in 1 .. count |-> [x \in S |-> IF x = 0 THEN 0 ELSE chain[x]]]
           w == ChainOf(table, count, value)
<1>1. value % count \in S /\ 0 \in S /\ table.bucket \in [S -> S] /\ chain \in [S -> S] /\ count \in Nat
  <2>1. value % count \in S /\ 0 \in S /\ count \in Nat
    OBVIOUS
  <2>2. table \in [bucket : [S -> S], chain : [S -> S]]
    BY DEF HashState
  <2> HIDE DEF S
  <2>3. QED
    BY <2>1, <2>2
<1>2. start \in S
  BY <1>1
<1>3. w = CHOOSE g : g = Turn(g)
  BY DEF ChainOf
<1> HIDE DEF w, chain, start, S
<1>4. \A x \in S : (IF x = 0 THEN 0 ELSE chain[x]) \in S
  BY <1>1
<1>5. step \in Turns(S, count)
  BY <1>4 DEF Turns
<1>6. PICK f : Loops(S, start, count, step, f)
  <2> HIDE DEF step
  <2>1. QED
    BY <1>1, <1>2, <1>5, Iteration
<1>7. f = Turn(f)
  <2>1. \A i \in 0 .. count : f[i] = Turn(f)[i]
    <3>1. SUFFICES ASSUME NEW i \in 0 .. count PROVE f[i] = Turn(f)[i]
      OBVIOUS
    <3>2. CASE i = 0
      BY <1>6, <3>2 DEF Loops
    <3>3. CASE i # 0
      <4>1. i \in 1 .. count /\ i - 1 \in 0 .. count
        BY <3>3
      <4>2. f[i - 1] \in S
        BY <1>6, <4>1 DEF Loops
      <4>3. f[i] = step[i][f[i - 1]] /\ step[i][f[i - 1]] = IF f[i - 1] = 0 THEN 0 ELSE chain[f[i - 1]]
        BY <1>6, <4>1, <4>2 DEF Loops
      <4>4. QED
        BY <4>1, <4>3
    <3>4. QED
      BY <3>2, <3>3
  <2>2. f \in [0 .. count -> S]
    BY <1>6 DEF Loops
  <2>3. QED
    BY <2>1, <2>2
<1>8. w = Turn(w)
  <2> HIDE DEF Turn
  <2>1. QED
    BY <1>3, <1>7
<1>9. w[0] = start /\ \A k \in 1 .. count : w[k] = IF w[k - 1] = 0 THEN 0 ELSE chain[w[k - 1]]
  <2>1. 0 \in 0 .. count /\ \A i \in 1 .. count : i \in 0 .. count /\ i # 0
    OBVIOUS
  <2>2. \A i \in 0 .. count : Turn(w)[i] = IF i = 0 THEN start ELSE IF w[i - 1] = 0 THEN 0 ELSE chain[w[i - 1]]
    OBVIOUS
  <2> HIDE DEF Turn
  <2>3. QED
    BY <1>8, <2>1, <2>2
<1>10. \A k \in 0 .. count : w[k] \in S
  <2>1. ASSUME NEW i \in 1 .. count, w[i - 1] \in S PROVE w[i] \in S
    BY <1>4, <1>9, <2>1
  <2>2. QED
    BY <1>1, <1>2, <1>9, <2>1, Invariance
<1>11. QED
  BY <1>9, <1>10, Zenon DEF S, start, chain, w

(* It meets every symbol with the hash value and ends.                        *)
LEMMA ChainFinds ==
  ASSUME NEW count \in Nat \ {0}, NEW hash \in [1 .. count - 1 -> Nat], NEW i \in 1 .. count - 1
  PROVE  LET w == ChainOf(BuildHash(count, hash), count, hash[i])
         IN  (\E k \in 0 .. count : w[k] = i) /\ w[count] = 0
<1> DEFINE table == BuildHash(count, hash)
           w == ChainOf(table, count, hash[i])
           b == hash[i] % count
           Class(j) == j \in 1 .. count - 1 /\ hash[j] % count = b
           Met(k, j) == (\E l \in 0 .. k : w[l] = j) \/ (w[k] # 0 /\ w[k] < j)
           Good == {k \in Nat : k <= count =>
                       /\ w[k] # 0 => Class(w[k]) /\ k < w[k]
                       /\ \A j : Class(j) => Met(k, j)}
<1>1. table \in HashState(count) /\ Filed(count, hash, 1, table)
  BY HashFiled
<1>2. hash[i] \in Nat /\ b \in 0 .. count - 1 /\ Class(i)
  <2>1. hash[i] \in Nat
    OBVIOUS
  <2>2. QED
    BY <2>1
<1> HIDE DEF table
<1>3. /\ \A k \in 0 .. count : w[k] \in 0 .. count - 1
      /\ w[0] = table.bucket[b]
      /\ \A k \in 1 .. count : w[k] = IF w[k - 1] = 0 THEN 0 ELSE table.chain[w[k - 1]]
  BY <1>1, <1>2, ChainIs
<1>4. /\ FirstIn(count, hash, b, 1, table.bucket[b])
      /\ \A j \in 1 .. count - 1 : FirstIn(count, hash, hash[j] % count, j + 1, table.chain[j])
  BY <1>1, <1>2 DEF Filed
<1> HIDE DEF w, b
<1>5. 0 \in Good
  <2>1. w[0] \in 0 .. count - 1 /\ FirstIn(count, hash, b, 1, w[0])
    BY <1>3, <1>4
  <2>2. w[0] # 0 => Class(w[0]) /\ 0 < w[0]
    BY <2>1 DEF FirstIn
  <2>3. ASSUME NEW j, Class(j) PROVE Met(0, j)
    <3>1. w[0] # 0 /\ w[0] <= j
      BY <2>1, <2>3 DEF FirstIn
    <3>2. QED
      BY <2>1, <2>3, <3>1
  <2>4. QED
    BY <2>2, <2>3
<1>6. \A k \in Nat : k \in Good => k + 1 \in Good
  <2>1. SUFFICES ASSUME NEW k \in Nat, k + 1 <= count, w[k] # 0 => Class(w[k]) /\ k < w[k], \A j : Class(j) => Met(k, j)
                 PROVE  /\ w[k + 1] # 0 => Class(w[k + 1]) /\ k + 1 < w[k + 1]
                        /\ \A j : Class(j) => Met(k + 1, j)
    OBVIOUS
  <2>2. k \in 0 .. count /\ k + 1 \in 1 .. count /\ k + 1 \in 0 .. count /\ (k + 1) - 1 = k
    BY <2>1
  <2>3. w[k] \in 0 .. count - 1 /\ w[k + 1] \in 0 .. count - 1 /\ w[k + 1] = IF w[k] = 0 THEN 0 ELSE table.chain[w[k]]
    BY <1>3, <2>2
  <2>4. w[k] # 0 => FirstIn(count, hash, b, w[k] + 1, w[k + 1])
    BY <1>4, <2>1, <2>3
  <2>5. w[k + 1] # 0 => Class(w[k + 1]) /\ k + 1 < w[k + 1]
    <3>1. SUFFICES ASSUME w[k + 1] # 0 PROVE Class(w[k + 1]) /\ k + 1 < w[k + 1]
      OBVIOUS
    <3>2. w[k] # 0 /\ w[k + 1] \in w[k] + 1 .. count - 1 /\ hash[w[k + 1]] % count = b
      BY <2>3, <2>4, <3>1 DEF FirstIn
    <3>3. k < w[k]
      BY <2>1, <3>2
    <3>4. QED
      BY <2>3, <3>2, <3>3
  <2>6. ASSUME NEW j, Class(j) PROVE Met(k + 1, j)
    <3>1. CASE \E l \in 0 .. k : w[l] = j
      <4>1. PICK l \in 0 .. k : w[l] = j
        BY <3>1
      <4>2. l \in 0 .. k + 1
        OBVIOUS
      <4>3. QED
        BY <4>1, <4>2
    <3>2. CASE w[k] # 0 /\ w[k] < j
      <4>1. j \in w[k] + 1 .. count - 1 /\ hash[j] % count = b
        BY <2>3, <2>6, <3>2
      <4>2. w[k + 1] # 0 /\ w[k + 1] <= j
        BY <2>3, <2>4, <3>2, <4>1 DEF FirstIn
      <4>3. k + 1 \in 0 .. k + 1
        OBVIOUS
      <4>4. QED
        BY <2>3, <2>6, <4>2, <4>3, SMTT(30)
    <3>3. QED
      BY <2>1, <2>6, <3>1, <3>2
  <2>7. QED
    BY <2>5, <2>6
<1>7. \A k \in Nat : k \in Good
  <2> HIDE DEF Good
  <2>1. QED
    BY <1>5, <1>6, Induction
<1>8. w[count] # 0 => count < w[count]
  BY <1>7
<1>9. count \in 0 .. count /\ w[count] \in 0 .. count - 1
  BY <1>3
<1>10. w[count] = 0
  BY <1>8, <1>9
<1>11. Met(count, i)
  <2>1. count \in Good /\ count <= count
    BY <1>7
  <2>2. \A j : Class(j) => Met(count, j)
    BY <2>1
  <2> HIDE DEF Met, Class
  <2>3. QED
    BY <1>2, <2>2
<1>12. QED
  BY <1>10, <1>11 DEF w, table

-----------------------------------------------------------------------------
(* The ids of modules in the names of symbols.                               *)

(* What is left of an id gets less with each digit.                           *)
LEMMA LeftIs ==
  ASSUME NEW id \in Nat
  PROVE  LET left == Left(id)
         IN  /\ left[0] = id /\ \A k \in 1 .. id : left[k] = left[k - 1] \div 64
             /\ \A k \in 0 .. id : left[k] \in Nat
             /\ left[id] = 0
<1> DEFINE Turn(f) == [k \in 0 .. id |-> IF k = 0 THEN id ELSE f[k - 1] \div 64]
           step == [k \in 1 .. id |-> [x \in Nat |-> x \div 64]]
           left == Left(id)
           Good == {k \in Nat : k <= id => left[k] = 0 \/ left[k] + k <= id}
<1>1. \A x \in Nat : x \div 64 \in Nat /\ (x # 0 => x \div 64 < x) /\ (x = 0 => x \div 64 = 0)
  OBVIOUS
<1>2. step \in Turns(Nat, id)
  BY <1>1 DEF Turns
<1>3. PICK f : Loops(Nat, id, id, step, f)
  <2> HIDE DEF step
  <2>1. QED
    BY <1>2, Iteration
<1>4. f = Turn(f)
  <2>1. \A i \in 0 .. id : f[i] = Turn(f)[i]
    <3>1. SUFFICES ASSUME NEW i \in 0 .. id PROVE f[i] = Turn(f)[i]
      OBVIOUS
    <3>2. CASE i = 0
      BY <1>3, <3>2 DEF Loops
    <3>3. CASE i # 0
      <4>1. i \in 1 .. id /\ i - 1 \in 0 .. id
        BY <3>3
      <4>2. f[i - 1] \in Nat
        BY <1>3, <4>1 DEF Loops
      <4>3. f[i] = step[i][f[i - 1]] /\ step[i][f[i - 1]] = f[i - 1] \div 64
        BY <1>3, <4>1, <4>2 DEF Loops
      <4>4. QED
        BY <4>1, <4>3
    <3>4. QED
      BY <3>2, <3>3
  <2>2. f \in [0 .. id -> Nat]
    BY <1>3 DEF Loops
  <2>3. QED
    BY <2>1, <2>2
<1>5. left = Turn(left)
  <2>1. left = CHOOSE g : g = Turn(g)
    BY DEF Left
  <2> HIDE DEF Turn, left
  <2>2. QED
    BY <1>4, <2>1
<1>6. left[0] = id /\ \A k \in 1 .. id : left[k] = left[k - 1] \div 64
  <2>1. 0 \in 0 .. id /\ \A i \in 1 .. id : i \in 0 .. id /\ i # 0
    OBVIOUS
  <2>2. \A i \in 0 .. id : Turn(left)[i] = IF i = 0 THEN id ELSE left[i - 1] \div 64
    OBVIOUS
  <2> HIDE DEF left, Turn
  <2>3. QED
    BY <1>5, <2>1, <2>2
<1> HIDE DEF left
<1>7. \A k \in 0 .. id : left[k] \in Nat
  <2>1. \A i \in 1 .. id : left[i - 1] \in Nat => left[i] \in Nat
    BY <1>1, <1>6
  <2>2. QED
    BY <1>6, <2>1, Invariance
<1>8. 0 \in Good
  BY <1>6
<1>9. \A k \in Nat : k \in Good => k + 1 \in Good
  <2>1. SUFFICES ASSUME NEW k \in Nat, k + 1 <= id, left[k] = 0 \/ left[k] + k <= id
                 PROVE  left[k + 1] = 0 \/ left[k + 1] + (k + 1) <= id
    OBVIOUS
  <2>2. k \in 0 .. id /\ k + 1 \in 1 .. id /\ (k + 1) - 1 = k
    BY <2>1
  <2>3. left[k] \in Nat /\ left[k + 1] = left[k] \div 64
    BY <1>6, <1>7, <2>2
  <2>4. QED
    BY <1>1, <2>1, <2>3
<1>10. \A k \in Nat : k \in Good
  <2> HIDE DEF Good
  <2>1. QED
    BY <1>8, <1>9, Induction
<1>11. left[id] = 0
  <2>1. id \in Good /\ id \in 0 .. id
    BY <1>10
  <2>2. left[id] \in Nat
    BY <1>7, <2>1
  <2>3. QED
    BY <2>1, <2>2
<1>12. QED
  BY <1>6, <1>7, <1>11 DEF left

(* The value of digits in base 64, the most significant first.                *)
LEMMA DecodedToIs ==
  ASSUME NEW n \in Nat, NEW digits, Len(digits) = n, \A k \in 1 .. n : digits[k] \in Nat
  PROVE  LET sum == DecodedTo(digits)
         IN  sum[0] = 0 /\ \A k \in 1 .. n : sum[k] = 64 * sum[k - 1] + digits[k]
<1> DEFINE Turn(f) == [k \in 0 .. n |-> IF k = 0 THEN 0 ELSE 64 * f[k - 1] + digits[k]]
           step == [k \in 1 .. n |-> [x \in Nat |-> 64 * x + digits[k]]]
           sum == DecodedTo(digits)
<1>1. \A k \in 1 .. n, x \in Nat : 64 * x + digits[k] \in Nat
  OBVIOUS
<1>2. step \in Turns(Nat, n)
  BY <1>1 DEF Turns
<1>3. PICK f : Loops(Nat, 0, n, step, f)
  <2> DEFINE z == 0
  <2>1. z \in Nat
    OBVIOUS
  <2> HIDE DEF step, z
  <2>2. \E f : Loops(Nat, z, n, step, f)
    BY <1>2, <2>1, Iteration
  <2>3. QED
    BY <2>2 DEF z
<1>4. f = Turn(f)
  <2>1. \A i \in 0 .. n : f[i] = Turn(f)[i]
    <3>1. SUFFICES ASSUME NEW i \in 0 .. n PROVE f[i] = Turn(f)[i]
      OBVIOUS
    <3>2. CASE i = 0
      BY <1>3, <3>2 DEF Loops
    <3>3. CASE i # 0
      <4>1. i \in 1 .. n /\ i - 1 \in 0 .. n
        BY <3>3
      <4>2. f[i - 1] \in Nat
        BY <1>3, <4>1 DEF Loops
      <4>3. f[i] = step[i][f[i - 1]] /\ step[i][f[i - 1]] = 64 * f[i - 1] + digits[i]
        BY <1>3, <4>1, <4>2 DEF Loops
      <4>4. QED
        BY <4>1, <4>3
    <3>4. QED
      BY <3>2, <3>3
  <2>2. f \in [0 .. n -> Nat]
    BY <1>3 DEF Loops
  <2>3. QED
    BY <2>1, <2>2
<1>5. sum = Turn(sum)
  <2>1. sum = CHOOSE g : g = Turn(g)
    BY Zenon DEF DecodedTo
  <2> HIDE DEF Turn, sum
  <2>2. QED
    BY <1>4, <2>1
<1>6. 0 \in 0 .. n /\ \A i \in 1 .. n : i \in 0 .. n /\ i # 0
  OBVIOUS
<1>7. \A i \in 0 .. n : Turn(sum)[i] = IF i = 0 THEN 0 ELSE 64 * sum[i - 1] + digits[i]
  OBVIOUS
<1> HIDE DEF sum, Turn
<1>8. sum[0] = 0 /\ \A k \in 1 .. n : sum[k] = 64 * sum[k - 1] + digits[k]
  BY <1>5, <1>6, <1>7
<1>9. QED
  BY <1>8 DEF sum

(* An id comes back from its digits.                                         *)
LEMMA IdsComeBack ==
  ASSUME NEW id \in Nat
  PROVE  Decoded(EncodeId(id)) = id
<1> DEFINE left == Left(id)
           zeros == {k \in 0 .. id : left[k] = 0}
           n == Min(zeros)
           digits == [k \in 1 .. n |-> left[n - k] % 64]
           e == EncodeId(id)
           sum == DecodedTo(e)
<1>1. CASE id = 0
  <2>1. e = <<0>>
    BY <1>1, Zenon DEF EncodeId
  <2> DEFINE one == 1
  <2>2. Len(e) = one /\ e[1] = 0 /\ one \in Nat /\ \A k \in 1 .. one : e[k] \in Nat
    BY <2>1
  <2> HIDE DEF e, one
  <2>3. sum[0] = 0 /\ \A k \in 1 .. one : sum[k] = 64 * sum[k - 1] + e[k]
    BY <2>2, DecodedToIs
  <2> HIDE DEF sum
  <2>4. sum[1] = 0
    BY <2>2, <2>3 DEF one
  <2>5. QED
    BY <1>1, <2>2, <2>4 DEF Decoded, sum, e, one
<1>2. CASE id # 0
  <2>1. /\ left[0] = id /\ \A k \in 1 .. id : left[k] = left[k - 1] \div 64
        /\ \A k \in 0 .. id : left[k] \in Nat
        /\ left[id] = 0
    BY LeftIs
  <2>2. e = digits
    BY <1>2, Zenon DEF EncodeId
  <2> HIDE DEF left
  <2>3. zeros \in SUBSET Nat /\ zeros # {}
    BY <2>1
  <2>4. n \in zeros
    BY <2>3, MinIs
  <2>5. n \in 0 .. id /\ left[n] = 0
    BY <2>4
  <2> HIDE DEF n, zeros
  <2>6. \A k \in 1 .. n : digits[k] = left[n - k] % 64 /\ n - k \in 0 .. id /\ digits[k] \in Nat
    <3>1. TAKE k \in 1 .. n
    <3>2. n - k \in 0 .. id
      BY <2>5
    <3>3. left[n - k] \in Nat
      BY <2>1, <3>2
    <3>4. QED
      BY <3>2, <3>3
  <2>7. Len(digits) = n
    BY <2>5
  <2> HIDE DEF digits
  <2>8. DecodedTo(digits)[0] = 0 /\ \A k \in 1 .. n : DecodedTo(digits)[k] = 64 * DecodedTo(digits)[k - 1] + digits[k]
    <3>1. n \in Nat /\ \A k \in 1 .. n : digits[k] \in Nat
      BY <2>5, <2>6
    <3>2. QED
      BY <2>7, <3>1, DecodedToIs, ZenonT(40)
  <2> DEFINE s == DecodedTo(digits)
             Good == {k \in Nat : k <= n => s[k] = left[n - k]}
  <2> HIDE DEF s
  <2>9. s[0] = 0 /\ \A k \in 1 .. n : s[k] = 64 * s[k - 1] + digits[k]
    BY <2>8 DEF s
  <2>10. 0 \in Good
    BY <2>5, <2>9
  <2>11. \A k \in Nat : k \in Good => k + 1 \in Good
    <3>1. SUFFICES ASSUME NEW k \in Nat, k + 1 <= n, s[k] = left[n - k] PROVE s[k + 1] = left[n - (k + 1)]
      BY <2>5
    <3> DEFINE j == n - (k + 1)
    <3>2. k + 1 \in 1 .. n /\ (k + 1) - 1 = k /\ j \in 0 .. id /\ n - k \in 1 .. id /\ (n - k) - 1 = j
      BY <2>5, <3>1
    <3>3. left[j] \in Nat /\ left[n - k] = left[j] \div 64
      BY <2>1, <3>2
    <3>4. s[k + 1] = 64 * s[k] + digits[k + 1] /\ digits[k + 1] = left[j] % 64
      BY <2>6, <2>9, <3>2
    <3> HIDE DEF j
    <3> DEFINE x == left[j]
               q == s[k]
               r == digits[k + 1]
    <3>5. x \in Nat /\ q = x \div 64 /\ r = x % 64 /\ s[k + 1] = 64 * q + r
      BY <3>1, <3>3, <3>4
    <3> HIDE DEF x, q, r
    <3>8. 64 * q + r = x
      BY <3>5
    <3>6. s[k + 1] = left[j]
      BY <3>5, <3>8 DEF x
    <3>7. QED
      BY <3>6 DEF j
  <2>12. \A k \in Nat : k \in Good
    <3> HIDE DEF Good
    <3>1. QED
      BY <2>10, <2>11, Induction
  <2>13. s[n] = id
    <3>1. n \in Good /\ n - n = 0
      BY <2>5, <2>12
    <3>2. QED
      BY <2>1, <2>5, <3>1
  <2>14. QED
    BY <2>2, <2>7, <2>13, Zenon DEF Decoded, s, e
<1>3. QED
  BY <1>1, <1>2

-----------------------------------------------------------------------------
(* Where a title's bytes go: its boundaries, in memory and in the file.        *)

PlanOf(image, modules, imports) ==
  LET r == Regions(image)
      t == TablesOf(image, modules, imports, r)
      version == VersionOf(image, modules, imports, r)
  IN  [text |-> r.textEnd, ro |-> r.roStart, roEnd |-> r.roEnd, relro |-> r.relroStart, contents |-> r.relroContentEnd,
       process |-> ProcessAddress(r), relroEnd |-> RelroEnd(r), data |-> r.dataStart, stored |-> r.dataStoredEnd,
       dataEnd |-> r.dataEnd, base |-> BaseOf(r), top |-> t[7].at + t[7].size, copied |-> CopiedFileEnd(image),
       file |-> FileOf(image, r), comment |-> CommentOf(image, modules, imports, r), version |-> version.offset,
       versions |-> version.size, tail |-> TailOf(image, modules, imports, r)]

PlanNumbers(v) ==
  /\ v.text \in Nat /\ v.ro \in Nat /\ v.roEnd \in Nat /\ v.relro \in Nat /\ v.contents \in Nat /\ v.process \in Nat
  /\ v.relroEnd \in Nat /\ v.data \in Nat /\ v.stored \in Nat /\ v.dataEnd \in Nat /\ v.base \in Nat /\ v.top \in Nat
  /\ v.copied \in Nat /\ v.file \in Nat /\ v.comment \in Nat /\ v.version \in Nat /\ v.versions \in Nat /\ v.tail \in Nat

PlanInMemory(v) ==
  /\ 0 < v.text /\ v.text <= v.ro /\ v.ro < v.roEnd /\ v.roEnd <= v.relro /\ v.relro < v.contents /\ v.contents <= v.process
  /\ v.process + ProcessSize + BlocksSize = v.relroEnd /\ v.relroEnd <= v.data
  /\ v.data + 8 <= v.stored /\ v.stored <= v.dataEnd /\ v.dataEnd <= v.base /\ v.base <= v.top

PlanInFile(v) ==
  /\ v.data + Page <= v.copied /\ v.copied <= v.file /\ v.file + (v.top - v.base) <= v.comment
  /\ v.comment + CommentSize <= v.version /\ v.version + v.versions <= v.tail /\ v.file % Page = v.base % Page

(* The boundaries follow one another.                                        *)
LEMMA PlanHolds ==
  ASSUME NEW sizes, Buildable(sizes), NEW image, image.sections = LinkedPie(sizes),
         NEW modules, NEW imports, Countable(image, modules, imports),
         ~(RelroEnd(Regions(image)) > Regions(image).dataStart)
  PROVE  LET v == PlanOf(image, modules, imports)
         IN  PlanNumbers(v) /\ PlanInMemory(v) /\ PlanInFile(v)
<1> DEFINE r == Regions(image)
           R == RelroEnd(r)
           p == ProcessAddress(r)
           base == BaseOf(r)
           file == FileOf(image, r)
           t == TablesOf(image, modules, imports, r)
           comment == CommentOf(image, modules, imports, r)
           version == VersionOf(image, modules, imports, r)
           tail == TailOf(image, modules, imports, r)
           c == CopiedFileEnd(image)
           v == PlanOf(image, modules, imports)
<1>1. /\ base \in Nat /\ r.dataEnd <= base
      /\ t[1].at = base
      /\ \A i \in 1 .. 7 : t[i].name = TableNames[i] /\ t[i].at \in Nat /\ t[i].size \in Nat
      /\ \A i \in 1 .. 6 : t[i].at + t[i].size <= t[i + 1].at
      /\ file \in Nat /\ c <= file /\ file % Page = base % Page
      /\ comment \in Nat /\ file + (t[7].at + t[7].size - base) <= comment
      /\ version.offset \in Nat /\ version.size \in Nat /\ comment + CommentSize <= version.offset
      /\ tail \in Nat /\ version.offset + version.size <= tail
  BY BehindIs
<1>2. /\ r.textEnd \in Nat /\ r.roStart \in Nat /\ r.roEnd \in Nat /\ r.relroStart \in Nat /\ r.relroContentEnd \in Nat
      /\ r.dataStart \in Nat /\ r.dataEnd \in Nat /\ r.dataStoredEnd \in Nat
      /\ 0 < r.textEnd /\ r.textEnd <= r.roStart /\ r.roStart < r.roEnd /\ r.roEnd <= r.relroStart
      /\ r.relroStart < r.relroContentEnd
      /\ r.dataStart + 8 <= r.dataStoredEnd /\ r.dataStoredEnd <= r.dataEnd
  BY RegionsOrdered
<1>3. p \in Nat /\ r.relroContentEnd <= p /\ R = p + ProcessSize + BlocksSize
  BY ParametersAre
<1>4. R \in Nat /\ R <= r.dataStart /\ r.dataStart + Page <= c
  BY TitleNumbers
<1>5. c \in Nat
  BY CopiedEnd
<1>6. v = [text |-> r.textEnd, ro |-> r.roStart, roEnd |-> r.roEnd, relro |-> r.relroStart, contents |-> r.relroContentEnd,
           process |-> p, relroEnd |-> R, data |-> r.dataStart, stored |-> r.dataStoredEnd,
           dataEnd |-> r.dataEnd, base |-> base, top |-> t[7].at + t[7].size, copied |-> c,
           file |-> file, comment |-> comment, version |-> version.offset,
           versions |-> version.size, tail |-> tail]
  BY Zenon DEF PlanOf
<1> HIDE DEF r, R, p, base, file, t, comment, version, tail, c, v
<1> DEFINE a == t[7].at
           b == t[7].size
<1>7. a \in Nat /\ b \in Nat /\ base <= a + b
  <2>1. 1 \in 1 .. 6 /\ 2 \in 1 .. 6 /\ 3 \in 1 .. 6 /\ 4 \in 1 .. 6 /\ 5 \in 1 .. 6 /\ 6 \in 1 .. 6
    OBVIOUS
  <2>2. 1 + 1 = 2 /\ 2 + 1 = 3 /\ 3 + 1 = 4 /\ 4 + 1 = 5 /\ 5 + 1 = 6 /\ 6 + 1 = 7
    OBVIOUS
  <2>3. /\ t[1].at + t[1].size <= t[2].at /\ t[2].at + t[2].size <= t[3].at /\ t[3].at + t[3].size <= t[4].at
        /\ t[4].at + t[4].size <= t[5].at /\ t[5].at + t[5].size <= t[6].at /\ t[6].at + t[6].size <= t[7].at
    BY <1>1, <2>1, <2>2
  <2>4. 1 \in 1 .. 7 /\ 2 \in 1 .. 7 /\ 3 \in 1 .. 7 /\ 4 \in 1 .. 7 /\ 5 \in 1 .. 7 /\ 6 \in 1 .. 7 /\ 7 \in 1 .. 7
    OBVIOUS
  <2>5. /\ t[1].at \in Nat /\ t[2].at \in Nat /\ t[3].at \in Nat /\ t[4].at \in Nat /\ t[5].at \in Nat /\ t[6].at \in Nat /\ t[7].at \in Nat
        /\ t[1].size \in Nat /\ t[2].size \in Nat /\ t[3].size \in Nat /\ t[4].size \in Nat /\ t[5].size \in Nat /\ t[6].size \in Nat
        /\ t[7].size \in Nat
    BY <1>1, <2>4
  <2>6. t[1].at = base
    BY <1>1
  <2>7. QED
    BY <2>3, <2>5, <2>6
<1>8. /\ v.text = r.textEnd /\ v.ro = r.roStart /\ v.roEnd = r.roEnd /\ v.relro = r.relroStart /\ v.contents = r.relroContentEnd
      /\ v.process = p /\ v.relroEnd = R /\ v.data = r.dataStart /\ v.stored = r.dataStoredEnd
      /\ v.dataEnd = r.dataEnd /\ v.base = base /\ v.top = a + b /\ v.copied = c
      /\ v.file = file /\ v.comment = comment /\ v.version = version.offset
      /\ v.versions = version.size /\ v.tail = tail
  BY <1>6
<1>9. file + (a + b - base) <= comment
  BY <1>1
<1> HIDE DEF a, b
<1>10. PlanNumbers(v)
  BY <1>1, <1>2, <1>3, <1>4, <1>5, <1>7, <1>8 DEF PlanNumbers
<1>11. PlanInMemory(v)
  BY <1>1, <1>2, <1>3, <1>4, <1>7, <1>8 DEF PlanInMemory
<1>12. PlanInFile(v)
  <2>1. file + ((a + b) - base) <= comment
    BY <1>1, <1>7, <1>9
  <2>2. /\ v.data + Page <= v.copied /\ v.copied <= v.file /\ v.file + (v.top - v.base) <= v.comment
    BY <1>1, <1>4, <1>8, <2>1
  <2>3. QED
    BY <1>1, <1>8, <2>2, Zenon DEF PlanInFile
<1>13. QED
  BY <1>10, <1>11, <1>12, Zenon DEF v

LoadSpans(h, v) ==
  /\ Spans(h[1], "LOAD", Page, 0, v.text, v.text)
  /\ Spans(h[2], "LOAD", v.ro + Page, v.ro, v.roEnd - v.ro, v.roEnd - v.ro)
  /\ Spans(h[3], "LOAD", v.relro + Page, v.relro, v.relroEnd - v.relro, v.relroEnd - v.relro)
  /\ Spans(h[5], "LOAD", v.data + Page, v.data, v.stored - v.data, v.dataEnd - v.data)
  /\ Spans(h[10], "LOAD", v.file, v.base, v.top - v.base, v.top - v.base)

TailSpans(h, v) ==
  /\ Spans(h[11], "COMMENT", v.comment, 0, CommentSize, 0)
  /\ Spans(h[12], "VERSION", v.version, 0, v.versions, v.versions)
  /\ Spans(h[14], "NOTE", v.tail, 0, TailSize, 0)

(* The headers the loader maps, by the boundaries, and those behind them.     *)
LEMMA PlanLoads ==
  ASSUME NEW sizes, Buildable(sizes), NEW image, image.sections = LinkedPie(sizes),
         NEW modules, NEW imports, Countable(image, modules, imports), NEW hash,
         ~(RelroEnd(Regions(image)) > Regions(image).dataStart),
         elf = Emit(image, hash, modules, imports, Regions(image))
  PROVE  LET v == PlanOf(image, modules, imports)
             h == elf.headers
         IN  LoadSpans(h, v) /\ TailSpans(h, v) /\ Loads = {h[i] : i \in {1, 2, 3, 5, 10}}
<1> DEFINE r == Regions(image)
           R == RelroEnd(r)
           p == ProcessAddress(r)
           u == UnwindOf(image, r)
           base == BaseOf(r)
           file == FileOf(image, r)
           t == TablesOf(image, modules, imports, r)
           comment == CommentOf(image, modules, imports, r)
           version == VersionOf(image, modules, imports, r)
           tail == TailOf(image, modules, imports, r)
           c == CopiedFileEnd(image)
           v == PlanOf(image, modules, imports)
           o == Emit(image, hash, modules, imports, r)
           h == elf.headers
<1>1. /\ DOMAIN o.headers = 1 .. 14 /\ \A i \in 1 .. 14 : o.headers[i] \in HeaderRecord
      /\ TitleSpans(o.headers, r, R, p, u, base, file, t, comment, version, tail)
  BY TitleHeaders
<1>2. v = [text |-> r.textEnd, ro |-> r.roStart, roEnd |-> r.roEnd, relro |-> r.relroStart, contents |-> r.relroContentEnd,
           process |-> p, relroEnd |-> R, data |-> r.dataStart, stored |-> r.dataStoredEnd,
           dataEnd |-> r.dataEnd, base |-> base, top |-> t[7].at + t[7].size, copied |-> c,
           file |-> file, comment |-> comment, version |-> version.offset,
           versions |-> version.size, tail |-> tail]
  BY Zenon DEF PlanOf
<1>3. h = o.headers
  BY DEF o, r
<1> HIDE DEF r, R, p, u, base, file, t, comment, version, tail, c, v, o, h
<1>4. /\ v.text = r.textEnd /\ v.ro = r.roStart /\ v.roEnd = r.roEnd /\ v.relro = r.relroStart
      /\ v.relroEnd = R /\ v.data = r.dataStart /\ v.stored = r.dataStoredEnd
      /\ v.dataEnd = r.dataEnd /\ v.base = base /\ v.top = t[7].at + t[7].size
      /\ v.file = file /\ v.comment = comment /\ v.version = version.offset
      /\ v.versions = version.size /\ v.tail = tail
  BY <1>2
<1>5. TitleSpans(h, r, R, p, u, base, file, t, comment, version, tail)
  BY <1>1, <1>3
<1>6. LoadSpans(h, v)
  BY <1>4, <1>5, Zenon DEF TitleSpans, LoadSpans
<1>7. TailSpans(h, v)
  BY <1>4, <1>5, Zenon DEF TitleSpans, TailSpans
<1> DEFINE ty(i) == h[i].type
<1>8. /\ ty(1) = "LOAD" /\ ty(2) = "LOAD" /\ ty(3) = "LOAD" /\ ty(4) = "GNU_RELRO" /\ ty(5) = "LOAD" /\ ty(6) = "PROCPARAM"
      /\ ty(7) = "DYNAMIC" /\ ty(8) = "TLS" /\ ty(9) = "EH_FRAME" /\ ty(10) = "LOAD" /\ ty(11) = "COMMENT" /\ ty(12) = "VERSION"
      /\ ty(13) = "NOTE" /\ ty(14) = "NOTE"
  BY <1>5, Zenon DEF TitleSpans, Spans
<1> HIDE DEF ty
<1>9. \A i \in 1 .. 14 : i = 1 \/ i = 2 \/ i = 3 \/ i = 4 \/ i = 5 \/ i = 6 \/ i = 7 \/ i = 8 \/ i = 9 \/ i = 10
                         \/ i = 11 \/ i = 12 \/ i = 13 \/ i = 14
  OBVIOUS
<1>10. \A i \in 1 .. 14 : ty(i) = "LOAD" <=> i \in {1, 2, 3, 5, 10}
  BY <1>8, <1>9
<1>11. {1, 2, 3, 5, 10} \subseteq 1 .. 14 /\ DOMAIN h = 1 .. 14
  BY <1>1, <1>3
<1>12. Loads = {x \in {h[i] : i \in 1 .. 14} : x.type = "LOAD"}
  BY <1>11, Zenon DEF Loads, ToSet, h
<1>13. Loads = {h[i] : i \in {1, 2, 3, 5, 10}}
  BY <1>10, <1>11, <1>12 DEF ty
<1>14. QED
  BY <1>6, <1>7, <1>13, Zenon DEF v, h

(* The loaded segments do not overlap in memory.                              *)
LEMMA LoadsApart ==
  ASSUME NEW v, PlanNumbers(v), PlanInMemory(v), NEW h, LoadSpans(h, v), Loads = {h[i] : i \in {1, 2, 3, 5, 10}}
  PROVE  \A a, b \in Loads : a = b \/ Disjoint(InMemory(a), InMemory(b))
<1> DEFINE low(i) == h[i].at
           high(i) == h[i].at + h[i].memory
<1>1. ProcessSize = \h60 /\ BlocksSize = \h270
  BY BlocksAre DEF ProcessSize
<1>2. /\ low(1) = 0 /\ high(1) = v.text /\ low(2) = v.ro /\ high(2) = v.roEnd /\ low(3) = v.relro /\ high(3) = v.relroEnd
      /\ low(5) = v.data /\ high(5) = v.dataEnd /\ low(10) = v.base /\ high(10) = v.top
  <2> DEFINE m(i) == h[i].memory
  <2>1. /\ low(1) = 0 /\ m(1) = v.text /\ low(2) = v.ro /\ m(2) = v.roEnd - v.ro /\ low(3) = v.relro /\ m(3) = v.relroEnd - v.relro
        /\ low(5) = v.data /\ m(5) = v.dataEnd - v.data /\ low(10) = v.base /\ m(10) = v.top - v.base
    BY Zenon DEF LoadSpans, Spans
  <2>2. \A i \in 1 .. 14 : high(i) = low(i) + m(i)
    OBVIOUS
  <2> HIDE DEF low, high, m
  <2>3. \A a, b \in Nat : a + (b - a) = b
    OBVIOUS
  <2>4. /\ v.text \in Nat /\ v.ro \in Nat /\ v.roEnd \in Nat /\ v.relro \in Nat /\ v.relroEnd \in Nat /\ v.data \in Nat /\ v.dataEnd \in Nat
        /\ v.base \in Nat /\ v.top \in Nat
    BY DEF PlanNumbers
  <2>5. QED
    BY <2>1, <2>2, <2>4
<1> HIDE DEF low, high
<1>3. \A i, j \in {1, 2, 3, 5, 10} : i < j => high(i) <= low(j)
  <2>1. /\ 0 < v.text /\ v.text <= v.ro /\ v.ro < v.roEnd /\ v.roEnd <= v.relro /\ v.relro < v.relroEnd
        /\ v.relroEnd <= v.data /\ v.data < v.dataEnd /\ v.dataEnd <= v.base /\ v.base <= v.top
    BY <1>1 DEF PlanNumbers, PlanInMemory
  <2>2. QED
    BY <1>2, <2>1 DEF PlanNumbers
<1>4. \A i, j \in {1, 2, 3, 5, 10} : i = j \/ high(i) <= low(j) \/ high(j) <= low(i)
  <2>1. TAKE i, j \in {1, 2, 3, 5, 10}
  <2>2. i < j \/ j < i \/ i = j
    OBVIOUS
  <2>3. QED
    BY <1>3, <2>2
<1>5. \A i, j : high(i) <= low(j) => Disjoint(InMemory(h[i]), InMemory(h[j])) /\ Disjoint(InMemory(h[j]), InMemory(h[i]))
  BY DEF low, high, Disjoint, InMemory, End
<1>6. QED
  BY <1>4, <1>5

CopiedRows(sizes) == Present(sizes) \ {8, 9, 10, 11, 14, 15}
Lies(q, name, at, offset, size) == q.name = name /\ q.at = at /\ q.offset = offset /\ q.size = size
SectionPiece(sizes, q) ==
  \E i \in CopiedRows(sizes) : Lies(q, Script[i].name, StartAt(sizes, i), StartAt(sizes, i) + Page, Sec(sizes, i).size)
ParameterPiece(v, q) == Lies(q, "parameters", v.process, v.process + Page, ProcessSize)
BlockPiece(v, q) == Lies(q, "blocks", v.process + ProcessSize, (v.process + ProcessSize) + Page, BlocksSize)
TablePiece(v, t, q) == \E j \in 1 .. 7 : Lies(q, TableNames[j], t[j].at, v.file + (t[j].at - v.base), t[j].size)
TablesInOrder(v, t) ==
  /\ \A j \in 1 .. 7 : t[j].at \in Nat /\ t[j].size \in Nat /\ v.base <= t[j].at /\ t[j].at + t[j].size <= v.top
  /\ \A i, j \in 1 .. 7 : i < j => t[i].at + t[i].size <= t[j].at

(* A title's pieces: sections, the parameters with their blocks, and tables.   *)
LEMMA PlanPieces ==
  ASSUME NEW sizes, Buildable(sizes), NEW image, image.sections = LinkedPie(sizes),
         NEW modules, NEW imports, Countable(image, modules, imports), NEW hash,
         elf = Emit(image, hash, modules, imports, Regions(image))
  PROVE  LET v == PlanOf(image, modules, imports)
             t == TablesOf(image, modules, imports, Regions(image))
         IN  /\ TablesInOrder(v, t)
             /\ \A q \in elf.pieces : SectionPiece(sizes, q) \/ ParameterPiece(v, q) \/ BlockPiece(v, q) \/ TablePiece(v, t, q)
             /\ (\E q \in elf.pieces : ParameterPiece(v, q)) /\ \E q \in elf.pieces : BlockPiece(v, q)
<1> DEFINE r == Regions(image)
           p == ProcessAddress(r)
           b == BlocksAddress(r)
           relro == RelroFile(image)
           base == BaseOf(r)
           file == FileOf(image, r)
           t == TablesOf(image, modules, imports, r)
           v == PlanOf(image, modules, imports)
           o == Emit(image, hash, modules, imports, r)
<1>1. /\ base \in Nat /\ t[1].at = base /\ file \in Nat /\ DOMAIN t = 1 .. 7
      /\ \A i \in 1 .. 7 : t[i].name = TableNames[i] /\ t[i].at \in Nat /\ t[i].size \in Nat
      /\ \A i \in 1 .. 6 : t[i].at + t[i].size <= t[i + 1].at
  BY BehindIs
<1>2. v.process = p /\ v.file = file /\ v.base = base /\ v.top = t[7].at + t[7].size
  BY DEF PlanOf
<1>3. p \in Nat /\ b = p + ProcessSize /\ r.relroStart \in Nat /\ relro = r.relroStart + Page
  BY ParametersAre, RegionsOrdered, FilePlaces
<1>4. o.pieces = {Piece(s.name, s.at, s.offset, s.size) : s \in Copied(image)}
                    \cup {Piece("parameters", p, relro + p - r.relroStart, ProcessSize),
                          Piece("blocks", b, relro + b - r.relroStart, BlocksSize)}
                    \cup {Piece(x.name, x.at, file + (x.at - base), x.size) : x \in ToSet(t)}
  BY EmitIs
<1>5. elf.pieces = o.pieces
  BY DEF o, r
<1>6. \A name, at, offset, size : Lies(Piece(name, at, offset, size), name, at, offset, size)
  BY DEF Lies, Piece
<1>7. Stored(ToSet(image.sections)) = SecsOf(sizes, Present(sizes) \ {14, 15})
  BY CopiedEnd
<1> HIDE DEF r, p, b, relro, base, file, t, v, o
<1>8. TablesInOrder(v, t)
  <2>1. 1 \in 1 .. 6 /\ 2 \in 1 .. 6 /\ 3 \in 1 .. 6 /\ 4 \in 1 .. 6 /\ 5 \in 1 .. 6 /\ 6 \in 1 .. 6
    OBVIOUS
  <2>2. 1 + 1 = 2 /\ 2 + 1 = 3 /\ 3 + 1 = 4 /\ 4 + 1 = 5 /\ 5 + 1 = 6 /\ 6 + 1 = 7
    OBVIOUS
  <2> DEFINE a(j) == t[j].at
             z(j) == t[j].at + t[j].size
  <2>3. /\ z(1) <= a(2) /\ z(2) <= a(3) /\ z(3) <= a(4) /\ z(4) <= a(5) /\ z(5) <= a(6) /\ z(6) <= a(7)
    BY <1>1, <2>1, <2>2
  <2>4. \A j \in 1 .. 7 : a(j) \in Nat /\ z(j) \in Nat /\ a(j) <= z(j)
    BY <1>1
  <2>5. a(1) = v.base /\ z(7) = v.top
    BY <1>1, <1>2
  <2> HIDE DEF a, z
  <2>6. \A j \in 1 .. 7 : j = 1 \/ j = 2 \/ j = 3 \/ j = 4 \/ j = 5 \/ j = 6 \/ j = 7
    OBVIOUS
  <2>7. /\ a(1) \in Nat /\ a(2) \in Nat /\ a(3) \in Nat /\ a(4) \in Nat /\ a(5) \in Nat /\ a(6) \in Nat /\ a(7) \in Nat
        /\ z(1) \in Nat /\ z(2) \in Nat /\ z(3) \in Nat /\ z(4) \in Nat /\ z(5) \in Nat /\ z(6) \in Nat /\ z(7) \in Nat
        /\ a(1) <= z(1) /\ a(2) <= z(2) /\ a(3) <= z(3) /\ a(4) <= z(4) /\ a(5) <= z(5) /\ a(6) <= z(6) /\ a(7) <= z(7)
    BY <2>4
  <2>8. \A i, j \in 1 .. 7 : i < j => z(i) <= a(j)
    <3>1. TAKE i, j \in 1 .. 7
    <3>2. HAVE i < j
    <3>3. CASE i \in {1, 2, 3}
      BY <2>3, <2>6, <2>7, <3>2, <3>3
    <3>4. CASE i \in {4, 5, 6, 7}
      BY <2>3, <2>6, <2>7, <3>2, <3>4
    <3>5. QED
      BY <2>6, <3>3, <3>4
  <2>9. \A j \in 1 .. 7 : v.base <= a(j) /\ z(j) <= v.top
    BY <2>3, <2>5, <2>6, <2>7
  <2>10. QED
    BY <1>1, <2>8, <2>9, Zenon DEF TablesInOrder, a, z
<1>9. ASSUME NEW s \in Copied(image) PROVE SectionPiece(sizes, Piece(s.name, s.at, s.offset, s.size))
  <2>1. s \in SecsOf(sizes, Present(sizes) \ {14, 15}) /\ ~Metadata(s)
    BY <1>7 DEF Copied
  <2>2. PICK i \in Present(sizes) \ {14, 15} : s = Sec(sizes, i)
    BY <2>1 DEF SecsOf
  <2>3. sizes \in Sizing
    BY DEF Buildable
  <2>4. s.name = Script[i].name /\ s.offset = s.at + Page
    BY <2>2, <2>3, SecIs
  <2>5. i \notin 8 .. 11
    BY <2>1, <2>2, <2>3, RowKinds
  <2>6. i \in CopiedRows(sizes)
    BY <2>2, <2>5 DEF CopiedRows
  <2> DEFINE q == Piece(s.name, s.at, s.offset, s.size)
  <2>7. Lies(q, s.name, s.at, s.offset, s.size)
    BY <1>6
  <2> HIDE DEF q
  <2>8. Lies(q, Script[i].name, StartAt(sizes, i), StartAt(sizes, i) + Page, Sec(sizes, i).size)
    BY <2>2, <2>4, <2>7 DEF Lies, StartAt
  <2>9. QED
    BY <2>6, <2>8, Zenon DEF SectionPiece, q
<1>10. relro + p - r.relroStart = p + Page /\ relro + b - r.relroStart = b + Page
  BY <1>3, BlocksAre DEF Page, ProcessSize
<1>11. ParameterPiece(v, Piece("parameters", p, relro + p - r.relroStart, ProcessSize))
  BY <1>2, <1>6, <1>10 DEF ParameterPiece
<1>12. BlockPiece(v, Piece("blocks", b, relro + b - r.relroStart, BlocksSize))
  BY <1>2, <1>3, <1>6, <1>10 DEF BlockPiece
<1>13. ASSUME NEW x \in ToSet(t) PROVE TablePiece(v, t, Piece(x.name, x.at, file + (x.at - base), x.size))
  <2>1. PICK j \in 1 .. 7 : x = t[j]
    BY <1>1 DEF ToSet
  <2> DEFINE q == Piece(x.name, x.at, file + (x.at - base), x.size)
  <2>2. Lies(q, x.name, x.at, file + (x.at - base), x.size)
    BY <1>6
  <2> HIDE DEF q
  <2>3. Lies(q, TableNames[j], t[j].at, v.file + (t[j].at - v.base), t[j].size)
    BY <1>1, <1>2, <2>1, <2>2
  <2>4. QED
    BY <2>3, Zenon DEF TablePiece, q
<1> DEFINE q1 == Piece("parameters", p, relro + p - r.relroStart, ProcessSize)
           q2 == Piece("blocks", b, relro + b - r.relroStart, BlocksSize)
           PA == {Piece(s.name, s.at, s.offset, s.size) : s \in Copied(image)}
           PC == {Piece(x.name, x.at, file + (x.at - base), x.size) : x \in ToSet(t)}
<1>14. elf.pieces = PA \cup {q1, q2} \cup PC
  BY <1>4, <1>5
<1>15. /\ \A q \in PA : SectionPiece(sizes, q)
       /\ \A q \in PC : TablePiece(v, t, q)
  BY <1>9, <1>13
<1>16. ParameterPiece(v, q1) /\ BlockPiece(v, q2)
  BY <1>11, <1>12
<1> HIDE DEF q1, q2, PA, PC
<1>17. /\ \A q \in elf.pieces : SectionPiece(sizes, q) \/ ParameterPiece(v, q) \/ BlockPiece(v, q) \/ TablePiece(v, t, q)
       /\ (\E q \in elf.pieces : ParameterPiece(v, q)) /\ \E q \in elf.pieces : BlockPiece(v, q)
  BY <1>14, <1>15, <1>16
<1>18. QED
  BY <1>8, <1>17, Zenon DEF v, t, r

RowBounds(sizes, v) ==
  /\ \A i \in Present(sizes) : StartAt(sizes, i) \in Nat /\ EndAt(sizes, i) \in Nat /\ StartAt(sizes, i) < EndAt(sizes, i)
  /\ StartAt(sizes, 1) = 0 /\ EndAt(sizes, 1) = v.text
  /\ \A i \in Present(sizes) \cap 2 .. 4 : v.ro <= StartAt(sizes, i) /\ EndAt(sizes, i) <= v.roEnd
  /\ \A i \in Present(sizes) \cap 5 .. 7 : v.relro <= StartAt(sizes, i) /\ EndAt(sizes, i) <= v.contents
  /\ \A i \in Present(sizes) \cap 12 .. 15 : v.data <= StartAt(sizes, i)
  /\ 12 \in Present(sizes) => EndAt(sizes, 12) <= v.stored
  /\ 15 \in Present(sizes) => EndAt(sizes, 15) <= v.dataEnd
  /\ \A i \in Present(sizes) \ {14, 15} : EndAt(sizes, i) + Page <= v.copied
  /\ \A i, j \in Present(sizes) : i < j /\ i # 14 => EndAt(sizes, i) <= StartAt(sizes, j)

(* The sections lie within the boundaries of their kind.                      *)
LEMMA PlanRows ==
  ASSUME NEW sizes, Buildable(sizes), NEW image, image.sections = LinkedPie(sizes), NEW modules, NEW imports
  PROVE  RowBounds(sizes, PlanOf(image, modules, imports))
<1> DEFINE r == Regions(image)
           P == Present(sizes)
           v == PlanOf(image, modules, imports)
           s(i) == StartAt(sizes, i)
           e(i) == EndAt(sizes, i)
<1>1. /\ r.textEnd = e(1)
      /\ \A i \in P \cap 2 .. 4 : r.roStart <= s(i) /\ e(i) <= r.roEnd
      /\ \A i \in P \cap 5 .. 7 : r.relroStart <= s(i) /\ e(i) <= r.relroContentEnd
      /\ r.dataStart = s(11)
      /\ \A i \in P \cap {12, 15} : e(i) <= r.dataEnd
      /\ 12 \in P => e(12) <= r.dataStoredEnd
  BY RegionsAre
<1>2. /\ v.text = r.textEnd /\ v.ro = r.roStart /\ v.roEnd = r.roEnd /\ v.relro = r.relroStart /\ v.contents = r.relroContentEnd
      /\ v.data = r.dataStart /\ v.stored = r.dataStoredEnd /\ v.dataEnd = r.dataEnd /\ v.copied = CopiedFileEnd(image)
  BY DEF PlanOf
<1>3. s(1) = 0
  BY TextFirst
<1>4. \A i \in P \ {14, 15} : e(i) + Page <= v.copied
  BY <1>2, CopiedEnd
<1>5. /\ \A i \in P : s(i) \in Nat /\ e(i) \in Nat /\ s(i) < e(i)
      /\ \A i, j \in P : i < j /\ i # 14 => e(i) <= s(j)
      /\ \A i, j \in P : i <= j => s(i) <= s(j)
  BY RowNumbers
<1>6. 11 \in P
  BY DEF Buildable
<1> HIDE DEF r, P, v, s, e
<1>7. \A i \in P \cap 12 .. 15 : v.data <= s(i)
  <2>1. TAKE i \in P \cap 12 .. 15
  <2>2. i \in P /\ 11 <= i
    OBVIOUS
  <2>3. QED
    BY <1>1, <1>2, <1>5, <1>6, <2>2
<1>8. 15 \in P => e(15) <= v.dataEnd
  BY <1>1, <1>2
<1>9. \A i \in P \cap 2 .. 4 : v.ro <= s(i) /\ e(i) <= v.roEnd
  BY <1>1, <1>2
<1>10. \A i \in P \cap 5 .. 7 : v.relro <= s(i) /\ e(i) <= v.contents
  BY <1>1, <1>2
<1>11. 12 \in P => e(12) <= v.stored
  BY <1>1, <1>2
<1>12. e(1) = v.text
  BY <1>1, <1>2
<1>13. QED
  BY <1>3, <1>4, <1>5, <1>7, <1>8, <1>9, <1>10, <1>11, <1>12, Zenon DEF RowBounds, P, s, e, v

(* What a load header spans in the file is mapped.                            *)
LEMMA MappedBy ==
  ASSUME NEW h \in Loads, NEW q, q.at \in Nat, q.size \in Nat, h.at \in Nat, h.size \in Nat,
         h.at <= q.at, q.at + q.size <= h.at + h.size, h.offset + (q.at - h.at) = q.offset
  PROVE  Mapped(q)
<1>1. Within([at |-> q.at, size |-> q.size], [at |-> h.at, size |-> h.size])
  BY DEF Within, End
<1>2. QED
  BY <1>1 DEF Mapped

(* Every piece but the thread-local one is mapped where it belongs.           *)
LEMMA PiecesMapped ==
  ASSUME NEW v, PlanNumbers(v), PlanInMemory(v), NEW h, LoadSpans(h, v), Loads = {h[i] : i \in {1, 2, 3, 5, 10}},
         NEW sizes, Buildable(sizes), RowBounds(sizes, v), NEW t, TablesInOrder(v, t),
         NEW q, SectionPiece(sizes, q) \/ ParameterPiece(v, q) \/ BlockPiece(v, q) \/ TablePiece(v, t, q)
  PROVE  q.name = ".tdata" \/ Mapped(q)
<1>1. ProcessSize = \h60 /\ BlocksSize = \h270 /\ Page = \h4000
  BY BlocksAre DEF ProcessSize, Page
<1>2. h[1] \in Loads /\ h[2] \in Loads /\ h[3] \in Loads /\ h[5] \in Loads /\ h[10] \in Loads
  OBVIOUS
<1>3. /\ Spans(h[1], "LOAD", Page, 0, v.text, v.text)
      /\ Spans(h[2], "LOAD", v.ro + Page, v.ro, v.roEnd - v.ro, v.roEnd - v.ro)
      /\ Spans(h[3], "LOAD", v.relro + Page, v.relro, v.relroEnd - v.relro, v.relroEnd - v.relro)
      /\ Spans(h[5], "LOAD", v.data + Page, v.data, v.stored - v.data, v.dataEnd - v.data)
      /\ Spans(h[10], "LOAD", v.file, v.base, v.top - v.base, v.top - v.base)
  BY DEF LoadSpans
<1>4. /\ v.roEnd - v.ro \in Nat /\ v.relroEnd - v.relro \in Nat /\ v.stored - v.data \in Nat /\ v.dataEnd - v.data \in Nat /\ v.top - v.base \in Nat
      /\ v.ro + Page \in Nat /\ v.relro + Page \in Nat /\ v.data + Page \in Nat /\ Page \in Nat
  BY <1>1 DEF PlanNumbers, PlanInMemory
<1>5. /\ v.text \in Nat /\ v.ro \in Nat /\ v.roEnd \in Nat /\ v.relro \in Nat /\ v.relroEnd \in Nat /\ v.data \in Nat /\ v.stored \in Nat
      /\ v.base \in Nat /\ v.top \in Nat /\ v.file \in Nat /\ v.process \in Nat /\ v.contents \in Nat
      /\ v.relro <= v.process /\ v.contents <= v.process /\ v.process + \h60 + \h270 = v.relroEnd
  BY <1>1 DEF PlanNumbers, PlanInMemory
<1> DEFINE ss == v.roEnd - v.ro
           sr == v.relroEnd - v.relro
           sd == v.stored - v.data
           md == v.dataEnd - v.data
           st == v.top - v.base
           zero == 0
<1>6. /\ v.ro + ss = v.roEnd /\ v.relro + sr = v.relroEnd /\ v.data + sd = v.stored /\ v.base + st = v.top /\ zero = 0 /\ zero \in Nat
      /\ ss \in Nat /\ sr \in Nat /\ sd \in Nat /\ md \in Nat /\ st \in Nat
  BY <1>4, <1>5
<1>7. /\ h[1].at = zero /\ h[1].size = v.text /\ h[1].offset = Page
      /\ h[2].at = v.ro /\ h[2].size = ss /\ h[2].offset = v.ro + Page
      /\ h[3].at = v.relro /\ h[3].size = sr /\ h[3].offset = v.relro + Page
      /\ h[5].at = v.data /\ h[5].size = sd /\ h[5].offset = v.data + Page
      /\ h[10].at = v.base /\ h[10].size = st /\ h[10].offset = v.file
  BY <1>3 DEF Spans
<1> HIDE DEF ss, sr, sd, md, st, zero
<1> DEFINE h1 == h[1]
           h2 == h[2]
           h3 == h[3]
           h5 == h[5]
           h10 == h[10]
<1>13. /\ h1 \in Loads /\ h1.at \in Nat /\ h1.size \in Nat /\ h1.at = zero /\ h1.size = v.text /\ h1.offset = Page
       /\ h2 \in Loads /\ h2.at \in Nat /\ h2.size \in Nat /\ h2.at = v.ro /\ h2.size = ss /\ h2.offset = v.ro + Page
       /\ h3 \in Loads /\ h3.at \in Nat /\ h3.size \in Nat /\ h3.at = v.relro /\ h3.size = sr /\ h3.offset = v.relro + Page
       /\ h5 \in Loads /\ h5.at \in Nat /\ h5.size \in Nat /\ h5.at = v.data /\ h5.size = sd /\ h5.offset = v.data + Page
       /\ h10 \in Loads /\ h10.at \in Nat /\ h10.size \in Nat /\ h10.at = v.base /\ h10.size = st /\ h10.offset = v.file
  BY <1>2, <1>5, <1>6, <1>7
<1> HIDE DEF h1, h2, h3, h5, h10
<1>8. CASE SectionPiece(sizes, q)
  <2>1. PICK i \in CopiedRows(sizes) : Lies(q, Script[i].name, StartAt(sizes, i), StartAt(sizes, i) + Page, Sec(sizes, i).size)
    BY <1>8 DEF SectionPiece
  <2>2. i \in Present(sizes) /\ sizes \in Sizing /\ i \in 1 .. 15 /\ i \notin {8, 9, 10, 11, 14, 15}
    BY DEF CopiedRows, Present, Buildable
  <2> DEFINE s == StartAt(sizes, i)
             e == EndAt(sizes, i)
             z == Sec(sizes, i).size
  <2>3. s \in Nat /\ e \in Nat /\ z \in Nat /\ e = s + z
    <3>1. z \in Nat
      BY <2>2, SecIs
    <3>2. s \in Nat /\ e \in Nat
      BY <2>2 DEF RowBounds
    <3>3. QED
      BY <3>1, <3>2 DEF EndAt, StartAt
  <2>4. q.name = Script[i].name /\ q.at = s /\ q.offset = s + Page /\ q.size = z
    BY <2>1 DEF Lies
  <2> HIDE DEF s, e, z
  <2>5. q.at \in Nat /\ q.size \in Nat /\ q.at + q.size = e
    BY <2>3, <2>4
  <2>6. CASE i = 1
    <3>1. s = 0 /\ e = v.text
      BY <2>6 DEF RowBounds, s, e
    <3>2. h1.at <= q.at /\ q.at + q.size <= h1.at + h1.size /\ h1.offset + (q.at - h1.at) = q.offset
      BY <1>4, <1>5, <1>6, <1>13, <2>4, <2>5, <3>1
    <3>3. QED
      BY <1>13, <2>5, <3>2, MappedBy
  <2>7. CASE i \in 2 .. 4
    <3>1. v.ro <= s /\ e <= v.roEnd
      BY <2>2, <2>7 DEF RowBounds, s, e
    <3>2. h2.at <= q.at /\ q.at + q.size <= h2.at + h2.size /\ h2.offset + (q.at - h2.at) = q.offset
      BY <1>4, <1>5, <1>6, <1>13, <2>3, <2>4, <2>5, <3>1
    <3>3. QED
      BY <1>13, <2>5, <3>2, MappedBy
  <2>8. CASE i \in 5 .. 7
    <3>1. v.relro <= s /\ e <= v.contents
      BY <2>2, <2>8 DEF RowBounds, s, e
    <3>2. v.contents <= v.relroEnd
      BY <1>5
    <3>3. h3.at <= q.at /\ q.at + q.size <= h3.at + h3.size /\ h3.offset + (q.at - h3.at) = q.offset
      <4>1. q.at + q.size <= v.relroEnd
        BY <1>5, <2>3, <2>5, <3>1, <3>2
      <4>2. h3.at + h3.size = v.relroEnd
        BY <1>6, <1>13
      <4>3. v.relro <= q.at /\ q.offset = q.at + Page
        BY <2>4, <3>1
      <4>4. h3.offset + (q.at - h3.at) = q.offset
        BY <1>4, <1>5, <1>13, <2>5, <4>3
      <4>5. QED
        BY <1>13, <4>1, <4>2, <4>3, <4>4
<3>4. QED
      BY <1>13, <2>5, <3>3, MappedBy
  <2>9. CASE i = 12
    <3>1. v.data <= s /\ e <= v.stored
      BY <2>2, <2>9 DEF RowBounds, s, e
    <3>2. h5.at <= q.at /\ q.at + q.size <= h5.at + h5.size /\ h5.offset + (q.at - h5.at) = q.offset
      BY <1>4, <1>5, <1>6, <1>13, <2>3, <2>4, <2>5, <3>1
    <3>3. QED
      BY <1>13, <2>5, <3>2, MappedBy
  <2>10. CASE i = 13
    BY <2>4, <2>10, ScriptIs
  <2>11. QED
    BY <2>2, <2>6, <2>7, <2>8, <2>9, <2>10
<1>9. CASE ParameterPiece(v, q)
  <2>1. q.at = v.process /\ q.offset = v.process + Page /\ q.size = ProcessSize
    BY <1>9 DEF ParameterPiece, Lies
  <2>2. q.at \in Nat /\ q.size \in Nat /\ h3.at <= q.at /\ q.at + q.size <= h3.at + h3.size /\ h3.offset + (q.at - h3.at) = q.offset
    BY <1>1, <1>4, <1>5, <1>6, <1>13, <2>1
  <2>3. QED
    BY <1>13, <2>2, MappedBy
<1>10. CASE BlockPiece(v, q)
  <2>1. q.at = v.process + ProcessSize /\ q.offset = (v.process + ProcessSize) + Page /\ q.size = BlocksSize
    BY <1>10 DEF BlockPiece, Lies
  <2>2. q.at \in Nat /\ q.size \in Nat /\ h3.at <= q.at /\ q.at + q.size <= h3.at + h3.size /\ h3.offset + (q.at - h3.at) = q.offset
    BY <1>1, <1>4, <1>5, <1>6, <1>13, <2>1
  <2>3. QED
    BY <1>13, <2>2, MappedBy
<1>11. CASE TablePiece(v, t, q)
  <2>1. PICK j \in 1 .. 7 : Lies(q, TableNames[j], t[j].at, v.file + (t[j].at - v.base), t[j].size)
    BY <1>11 DEF TablePiece
  <2>2. t[j].at \in Nat /\ t[j].size \in Nat /\ v.base <= t[j].at /\ t[j].at + t[j].size <= v.top
    BY DEF TablesInOrder
  <2>3. q.at \in Nat /\ q.size \in Nat /\ h10.at <= q.at /\ q.at + q.size <= h10.at + h10.size /\ h10.offset + (q.at - h10.at) = q.offset
    BY <1>4, <1>5, <1>6, <1>13, <2>1, <2>2 DEF Lies
  <2>4. QED
    BY <1>13, <2>3, MappedBy
<1>12. QED
  BY <1>8, <1>9, <1>10, <1>11

(* What a load header spans in memory is loaded.                              *)
LEMMA LoadedBy ==
  ASSUME NEW h \in Loads, NEW s, s.at \in Nat, s.size \in Nat, h.at \in Nat, h.memory \in Nat,
         h.at <= s.at, s.at + s.size <= h.at + h.memory
  PROVE  \E x \in Loads : Within([at |-> s.at, size |-> s.size], InMemory(x))
<1>1. Within([at |-> s.at, size |-> s.size], InMemory(h))
  BY DEF Within, End, InMemory
<1>2. QED
  BY <1>1

(* Every section but thread-local ones and metadata is loaded.                *)
LEMMA SectionsLoaded ==
  ASSUME NEW v, PlanNumbers(v), PlanInMemory(v), NEW h, LoadSpans(h, v), Loads = {h[i] : i \in {1, 2, 3, 5, 10}},
         NEW sizes, Buildable(sizes), RowBounds(sizes, v), NEW s \in ToSet(LinkedPie(sizes))
  PROVE  Tls(s) \/ Metadata(s) \/ \E x \in Loads : Within([at |-> s.at, size |-> s.size], InMemory(x))
<1>1. ProcessSize = \h60 /\ BlocksSize = \h270 /\ Page = \h4000
  BY BlocksAre DEF ProcessSize, Page
<1>2. sizes \in Sizing
  BY DEF Buildable
<1>3. PICK i \in Present(sizes) : s = Sec(sizes, i)
  BY <1>2, PieIs
<1>4. i \in 1 .. 15
  BY DEF Present
<1>5. (Metadata(s) <=> i \in 8 .. 11) /\ (Tls(s) <=> i \in {13, 14})
  BY <1>2, <1>3, RowKinds
<1> DEFINE h1 == h[1]
           h2 == h[2]
           h3 == h[3]
           h5 == h[5]
<1>6. /\ h1.at = 0 /\ h1.memory = v.text /\ h2.at = v.ro /\ h2.memory = v.roEnd - v.ro
      /\ h3.at = v.relro /\ h3.memory = v.relroEnd - v.relro /\ h5.at = v.data /\ h5.memory = v.dataEnd - v.data
  BY DEF LoadSpans, Spans
<1>7. h1 \in Loads /\ h2 \in Loads /\ h3 \in Loads /\ h5 \in Loads
  OBVIOUS
<1> HIDE DEF h1, h2, h3, h5
<1>8. /\ v.text \in Nat /\ v.ro \in Nat /\ v.roEnd \in Nat /\ v.relro \in Nat /\ v.contents \in Nat /\ v.relroEnd \in Nat
      /\ v.data \in Nat /\ v.stored \in Nat /\ v.dataEnd \in Nat
      /\ v.ro < v.roEnd /\ v.relro < v.contents /\ v.contents <= v.relroEnd /\ v.stored <= v.dataEnd /\ v.data < v.stored
  BY <1>1 DEF PlanNumbers, PlanInMemory
<1>9. /\ h1.at \in Nat /\ h1.memory \in Nat /\ h1.at + h1.memory = v.text
      /\ h2.at \in Nat /\ h2.memory \in Nat /\ h2.at + h2.memory = v.roEnd
      /\ h3.at \in Nat /\ h3.memory \in Nat /\ h3.at + h3.memory = v.relroEnd
      /\ h5.at \in Nat /\ h5.memory \in Nat /\ h5.at + h5.memory = v.dataEnd
  BY <1>6, <1>8
<1> DEFINE e == EndAt(sizes, i)
           d == StartAt(sizes, i)
<1>10. s.at \in Nat /\ s.size \in Nat
  BY <1>2, <1>3, SecIs
<1>11. s.at = d /\ s.at + s.size = e
  BY <1>3 DEF StartAt, EndAt
<1>12. /\ i = 1 => d = 0 /\ e = v.text
       /\ i \in 2 .. 4 => v.ro <= d /\ e <= v.roEnd
       /\ i \in 5 .. 7 => v.relro <= d /\ e <= v.contents
       /\ i \in 12 .. 15 => v.data <= d
       /\ (i = 12 => e <= v.stored) /\ (i = 15 => e <= v.dataEnd)
  BY <1>3 DEF RowBounds
<1> HIDE DEF d, e
<1>13. CASE i = 1
  <2>1. h1.at <= s.at /\ s.at + s.size <= h1.at + h1.memory
    BY <1>6, <1>8, <1>9, <1>10, <1>11, <1>12, <1>13
  <2>2. QED
    BY <1>7, <1>9, <1>10, <2>1, LoadedBy
<1>14. CASE i \in 2 .. 4
  <2>1. h2.at <= s.at /\ s.at + s.size <= h2.at + h2.memory
    BY <1>6, <1>8, <1>9, <1>10, <1>11, <1>12, <1>14
  <2>2. QED
    BY <1>7, <1>9, <1>10, <2>1, LoadedBy
<1>15. CASE i \in 5 .. 7
  <2>1. h3.at <= s.at
    BY <1>6, <1>11, <1>12, <1>15
  <2>2. s.at + s.size <= v.contents
    BY <1>11, <1>12, <1>15
  <2>3. s.at + s.size <= h3.at + h3.memory
    BY <1>8, <1>9, <1>10, <2>2
  <2>4. QED
    BY <1>7, <1>9, <1>10, <2>1, <2>3, LoadedBy
<1>16. CASE i = 12 \/ i = 15
  <2>1. h5.at <= s.at /\ s.at + s.size <= v.dataEnd
    <3>1. v.data <= d
      BY <1>12, <1>16
    <3>2. e <= v.stored \/ e <= v.dataEnd
      BY <1>12, <1>16
    <3>3. QED
      BY <1>6, <1>8, <1>10, <1>11, <3>1, <3>2
  <2>2. s.at + s.size <= h5.at + h5.memory
    BY <1>9, <2>1
  <2>3. QED
    BY <1>7, <1>9, <1>10, <2>1, <2>2, LoadedBy
<1>17. QED
  BY <1>4, <1>5, <1>13, <1>14, <1>15, <1>16

(* The file in eight slots, one behind another: low sections, parameters,      *)
(* blocks, high sections, tables, and what lies behind them.                   *)
Borders(v) == << Page, v.process + Page, v.process + ProcessSize + Page, v.relroEnd + Page, v.copied,
               v.comment, v.version, v.tail, v.tail + TailSize >>
FileSlot(v, a, k) ==
  /\ a.at \in Nat /\ a.size \in Nat
  /\ k \in 1 .. 8 /\ Borders(v)[k] <= a.at /\ a.at + a.size <= Borders(v)[k + 1]

(* The slots follow one another.                                              *)
LEMMA BordersRise ==
  ASSUME NEW v, PlanNumbers(v), PlanInMemory(v), PlanInFile(v)
  PROVE  /\ \A k \in 1 .. 9 : Borders(v)[k] \in Nat /\ Page <= Borders(v)[k] /\ Borders(v)[k] <= v.tail + TailSize
         /\ \A i, j \in 1 .. 9 : i <= j => Borders(v)[i] <= Borders(v)[j]
<1>1. ProcessSize = \h60 /\ BlocksSize = \h270 /\ Page = \h4000 /\ TailSize = \h18
  BY BlocksAre DEF ProcessSize, Page, TailSize
<1>2. CommentSize \in Nat
  BY SMT DEF CommentSize, AlignUp
<1> DEFINE x1 == Page
           x2 == v.process + Page
           x3 == v.process + ProcessSize + Page
           x4 == v.relroEnd + Page
           x5 == v.copied
           x6 == v.comment
           x7 == v.version
           x8 == v.tail
           x9 == v.tail + TailSize
<1>3. /\ x1 \in Nat /\ x2 \in Nat /\ x3 \in Nat /\ x4 \in Nat /\ x5 \in Nat /\ x6 \in Nat /\ x7 \in Nat /\ x8 \in Nat /\ x9 \in Nat
      /\ x1 <= x2 /\ x2 <= x3 /\ x3 <= x4 /\ x8 <= x9
  BY <1>1 DEF PlanNumbers, PlanInMemory
<1>4. x4 <= x5
  BY <1>1 DEF PlanNumbers, PlanInMemory, PlanInFile
<1>5. x5 <= x6 /\ x6 <= x7 /\ x7 <= x8
  <2>1. v.base <= v.top /\ v.base \in Nat /\ v.top \in Nat /\ v.copied \in Nat /\ v.file \in Nat /\ v.comment \in Nat
        /\ v.copied <= v.file /\ v.file + (v.top - v.base) <= v.comment
    BY DEF PlanNumbers, PlanInMemory, PlanInFile
  <2>2. v.comment + CommentSize <= v.version /\ v.version + v.versions <= v.tail /\ v.versions \in Nat /\ v.version \in Nat /\ v.tail \in Nat
    BY DEF PlanNumbers, PlanInFile
  <2>3. QED
    BY <1>2, <2>1, <2>2
<1>6. Borders(v) = << x1, x2, x3, x4, x5, x6, x7, x8, x9 >>
  BY DEF Borders
<1> HIDE DEF x1, x2, x3, x4, x5, x6, x7, x8, x9
<1>7. /\ Borders(v)[1] = x1 /\ Borders(v)[2] = x2 /\ Borders(v)[3] = x3 /\ Borders(v)[4] = x4 /\ Borders(v)[5] = x5
      /\ Borders(v)[6] = x6 /\ Borders(v)[7] = x7 /\ Borders(v)[8] = x8 /\ Borders(v)[9] = x9
  BY <1>6
<1>8. x1 = Page /\ x9 = v.tail + TailSize
  BY DEF x1, x9
<1> DEFINE g(k) == Borders(v)[k]
<1>9. /\ \A k \in 1 .. 9 : g(k) \in Nat
      /\ \A k \in 1 .. 8 : g(k) <= g(k + 1)
      /\ g(1) = Page /\ g(9) = v.tail + TailSize
  <2>1. \A k \in 1 .. 9 : k = 1 \/ k = 2 \/ k = 3 \/ k = 4 \/ k = 5 \/ k = 6 \/ k = 7 \/ k = 8 \/ k = 9
    OBVIOUS
  <2>2. \A k \in 1 .. 9 : g(k) \in Nat
    BY <1>3, <1>7, <2>1
  <2>3. \A k \in 1 .. 8 : k = 1 \/ k = 2 \/ k = 3 \/ k = 4 \/ k = 5 \/ k = 6 \/ k = 7 \/ k = 8
    OBVIOUS
  <2>4. \A k \in 1 .. 8 : g(k) <= g(k + 1)
    BY <1>3, <1>4, <1>5, <1>7, <2>3
  <2>5. QED
    BY <1>7, <1>8, <2>2, <2>4
<1> HIDE DEF g
<1>10. \A i, j \in 1 .. 9 : i <= j => g(i) <= g(j)
  <2>1. g(1) <= g(2) /\ g(2) <= g(3) /\ g(3) <= g(4) /\ g(4) <= g(5) /\ g(5) <= g(6) /\ g(6) <= g(7) /\ g(7) <= g(8) /\ g(8) <= g(9)
    BY <1>9
  <2>2. g(1) \in Nat /\ g(2) \in Nat /\ g(3) \in Nat /\ g(4) \in Nat /\ g(5) \in Nat /\ g(6) \in Nat /\ g(7) \in Nat /\ g(8) \in Nat /\ g(9) \in Nat
    BY <1>9
  <2>3. TAKE i, j \in 1 .. 9
  <2>4. (i = 1 \/ i = 2 \/ i = 3 \/ i = 4 \/ i = 5 \/ i = 6 \/ i = 7 \/ i = 8 \/ i = 9)
    OBVIOUS
  <2>5. (j = 1 \/ j = 2 \/ j = 3 \/ j = 4 \/ j = 5 \/ j = 6 \/ j = 7 \/ j = 8 \/ j = 9)
    OBVIOUS
  <2>6. QED
    BY <2>1, <2>2, <2>4, <2>5
<1>11. \A k \in 1 .. 9 : g(k) \in Nat /\ Page <= g(k) /\ g(k) <= v.tail + TailSize
  <2>1. TAKE k \in 1 .. 9
  <2>2. 1 <= k /\ k <= 9 /\ 1 \in 1 .. 9 /\ 9 \in 1 .. 9
    OBVIOUS
  <2>3. g(1) <= g(k) /\ g(k) <= g(9)
    BY <1>10, <2>2
  <2>4. QED
    BY <1>9, <2>3
<1>12. QED
  BY <1>10, <1>11 DEF g

(* What lies in two slots does not overlap.                                   *)
LEMMA SlotsApart ==
  ASSUME NEW v, PlanNumbers(v), PlanInMemory(v), PlanInFile(v), NEW a, NEW b, NEW i, NEW j, i # j,
         FileSlot(v, a, i), FileSlot(v, b, j)
  PROVE  Disjoint(a, b)
<1> DEFINE g(k) == Borders(v)[k]
<1>1. /\ a.at \in Nat /\ a.size \in Nat /\ i \in 1 .. 8 /\ g(i) <= a.at /\ a.at + a.size <= g(i + 1)
      /\ b.at \in Nat /\ b.size \in Nat /\ j \in 1 .. 8 /\ g(j) <= b.at /\ b.at + b.size <= g(j + 1)
  BY DEF FileSlot
<1>2. (\A k \in 1 .. 9 : g(k) \in Nat) /\ \A m, n \in 1 .. 9 : m <= n => g(m) <= g(n)
  BY BordersRise
<1> HIDE DEF g
<1>3. g(i) \in Nat /\ g(j) \in Nat /\ g(i + 1) \in Nat /\ g(j + 1) \in Nat
  BY <1>1, <1>2
<1>4. CASE i < j
  <2>1. i + 1 \in 1 .. 9 /\ j \in 1 .. 9 /\ i + 1 <= j
    BY <1>1, <1>4
  <2>2. g(i + 1) <= g(j)
    BY <1>2, <2>1
  <2>3. a.at + a.size <= b.at
    BY <1>1, <1>3, <2>2
  <2>4. QED
    BY <2>3 DEF Disjoint, End
<1>5. CASE j < i
  <2>1. j + 1 \in 1 .. 9 /\ i \in 1 .. 9 /\ j + 1 <= i
    BY <1>1, <1>5
  <2>2. g(j + 1) <= g(i)
    BY <1>2, <2>1
  <2>3. b.at + b.size <= a.at
    BY <1>1, <1>3, <2>2
  <2>4. QED
    BY <2>3 DEF Disjoint, End
<1>6. QED
  BY <1>1, <1>4, <1>5

RowRange(sizes, a) == \E i \in CopiedRows(sizes) : a = [at |-> StartAt(sizes, i) + Page, size |-> Sec(sizes, i).size]
TableRange(v, t, a) == \E j \in 1 .. 7 : a = [at |-> v.file + (t[j].at - v.base), size |-> t[j].size]
InSlot(v, sizes, t, a, k) ==
  /\ FileSlot(v, a, k)
  /\ \/ k \in {1, 4} /\ RowRange(sizes, a)
     \/ k = 2 /\ a = [at |-> v.process + Page, size |-> ProcessSize]
     \/ k = 3 /\ a = [at |-> (v.process + ProcessSize) + Page, size |-> BlocksSize]
     \/ k = 5 /\ TableRange(v, t, a)
     \/ k = 6 /\ a = [at |-> v.comment, size |-> CommentSize]
     \/ k = 7 /\ a = [at |-> v.version, size |-> v.versions]
     \/ k = 8 /\ a = [at |-> v.tail, size |-> TailSize]

(* Sections that are copied do not overlap in the file.                       *)
LEMMA RowsApart ==
  ASSUME NEW sizes, Buildable(sizes), NEW v, RowBounds(sizes, v), NEW a, RowRange(sizes, a), NEW b, RowRange(sizes, b)
  PROVE  a = b \/ Disjoint(a, b)
<1>1. PICK i \in CopiedRows(sizes) : a = [at |-> StartAt(sizes, i) + Page, size |-> Sec(sizes, i).size]
  BY DEF RowRange
<1>2. PICK j \in CopiedRows(sizes) : b = [at |-> StartAt(sizes, j) + Page, size |-> Sec(sizes, j).size]
  BY DEF RowRange
<1>3. i \in Present(sizes) /\ j \in Present(sizes) /\ i # 14 /\ j # 14 /\ i \in 1 .. 15 /\ j \in 1 .. 15 /\ sizes \in Sizing
  BY DEF CopiedRows, Present, Buildable
<1> DEFINE s(m) == StartAt(sizes, m)
           e(m) == EndAt(sizes, m)
           z(m) == Sec(sizes, m).size
<1>4. z(i) \in Nat /\ z(j) \in Nat
  BY <1>3, SecIs
<1>5. s(i) \in Nat /\ e(i) \in Nat /\ s(j) \in Nat /\ e(j) \in Nat
  BY <1>3 DEF RowBounds
<1>6. e(i) = s(i) + z(i) /\ e(j) = s(j) + z(j)
  BY DEF StartAt, EndAt
<1>7. (i < j => e(i) <= s(j)) /\ (j < i => e(j) <= s(i))
  BY <1>3 DEF RowBounds
<1>8. a.at = s(i) + Page /\ a.size = z(i) /\ b.at = s(j) + Page /\ b.size = z(j)
  BY <1>1, <1>2
<1>9. Page \in Nat
  BY DEF Page
<1> HIDE DEF s, e, z
<1>10. CASE i = j
  BY <1>1, <1>2, <1>10
<1>11. CASE i < j
  <2>1. a.at + a.size <= b.at
    BY <1>4, <1>5, <1>6, <1>7, <1>8, <1>9, <1>11
  <2>2. QED
    BY <2>1 DEF Disjoint, End
<1>12. CASE j < i
  <2>1. b.at + b.size <= a.at
    BY <1>4, <1>5, <1>6, <1>7, <1>8, <1>9, <1>12
  <2>2. QED
    BY <2>1 DEF Disjoint, End
<1>13. QED
  BY <1>3, <1>10, <1>11, <1>12

(* Tables do not overlap in the file.                                         *)
LEMMA RangesOfTables ==
  ASSUME NEW v, PlanNumbers(v), NEW t, TablesInOrder(v, t), NEW a, TableRange(v, t, a), NEW b, TableRange(v, t, b)
  PROVE  a = b \/ Disjoint(a, b)
<1>1. PICK i \in 1 .. 7 : a = [at |-> v.file + (t[i].at - v.base), size |-> t[i].size]
  BY DEF TableRange
<1>2. PICK j \in 1 .. 7 : b = [at |-> v.file + (t[j].at - v.base), size |-> t[j].size]
  BY DEF TableRange
<1> DEFINE s(m) == t[m].at
           z(m) == t[m].size
<1>3. s(i) \in Nat /\ z(i) \in Nat /\ s(j) \in Nat /\ z(j) \in Nat /\ v.base <= s(i) /\ v.base <= s(j)
  BY DEF TablesInOrder
<1>4. (i < j => s(i) + z(i) <= s(j)) /\ (j < i => s(j) + z(j) <= s(i))
  BY DEF TablesInOrder
<1>5. v.file \in Nat /\ v.base \in Nat
  BY DEF PlanNumbers
<1>6. a.at = v.file + (s(i) - v.base) /\ a.size = z(i) /\ b.at = v.file + (s(j) - v.base) /\ b.size = z(j)
  BY <1>1, <1>2
<1> HIDE DEF s, z
<1>7. CASE i = j
  BY <1>1, <1>2, <1>7
<1>8. CASE i < j
  <2>1. a.at + a.size <= b.at
    BY <1>3, <1>4, <1>5, <1>6, <1>8
  <2>2. QED
    BY <2>1 DEF Disjoint, End
<1>9. CASE j < i
  <2>1. b.at + b.size <= a.at
    BY <1>3, <1>4, <1>5, <1>6, <1>9
  <2>2. QED
    BY <2>1 DEF Disjoint, End
<1>10. QED
  BY <1>7, <1>8, <1>9

(* Two ranges in slots are the same or do not overlap.                        *)
LEMMA SlottedApart ==
  ASSUME NEW v, PlanNumbers(v), PlanInMemory(v), PlanInFile(v), NEW sizes, Buildable(sizes), RowBounds(sizes, v),
         NEW t, TablesInOrder(v, t), NEW a, NEW b, NEW i, NEW j, InSlot(v, sizes, t, a, i), InSlot(v, sizes, t, b, j)
  PROVE  a = b \/ Disjoint(a, b)
<1>1. CASE i # j
  <2>1. FileSlot(v, a, i) /\ FileSlot(v, b, j)
    BY DEF InSlot
  <2>2. QED
    BY <1>1, <2>1, SlotsApart
<1>2. CASE i = j
  <2>1. \/ RowRange(sizes, a) /\ RowRange(sizes, b)
        \/ TableRange(v, t, a) /\ TableRange(v, t, b)
        \/ a = b
    BY <1>2, SMT DEF InSlot
  <2>2. QED
    BY <2>1, RowsApart, RangesOfTables
<1>3. QED
  BY <1>1, <1>2

(* What lies in a slot lies in the file, behind its headers.                  *)
LEMMA SlottedWithin ==
  ASSUME NEW v, PlanNumbers(v), PlanInMemory(v), PlanInFile(v), NEW sizes, NEW t, NEW a, NEW k, InSlot(v, sizes, t, a, k)
  PROVE  a.at >= Page /\ End(a) <= v.tail + TailSize
<1> DEFINE g(m) == Borders(v)[m]
<1>1. a.at \in Nat /\ a.size \in Nat /\ k \in 1 .. 8 /\ g(k) <= a.at /\ a.at + a.size <= g(k + 1)
  BY DEF InSlot, FileSlot
<1>2. \A m \in 1 .. 9 : g(m) \in Nat /\ Page <= g(m) /\ g(m) <= v.tail + TailSize
  BY BordersRise
<1> HIDE DEF g
<1>3. k \in 1 .. 9 /\ k + 1 \in 1 .. 9
  BY <1>1
<1>4. g(k) \in Nat /\ Page <= g(k) /\ g(k + 1) \in Nat /\ g(k + 1) <= v.tail + TailSize
  BY <1>2, <1>3
<1>5. Page \in Nat /\ v.tail + TailSize \in Nat
  BY DEF Page, TailSize, PlanNumbers
<1>6. QED
  BY <1>1, <1>4, <1>5 DEF End

(* A copied section lies in one of the two slots for sections.                *)
LEMMA RowSlot ==
  ASSUME NEW v, PlanNumbers(v), PlanInMemory(v), PlanInFile(v), NEW sizes, Buildable(sizes), RowBounds(sizes, v),
         NEW t, NEW a, RowRange(sizes, a)
  PROVE  \E k \in 1 .. 8 : InSlot(v, sizes, t, a, k)
<1>1. PICK i \in CopiedRows(sizes) : a = [at |-> StartAt(sizes, i) + Page, size |-> Sec(sizes, i).size]
  BY DEF RowRange
<1>2. i \in Present(sizes) /\ i \in 1 .. 15 /\ i \notin {8, 9, 10, 11, 14, 15} /\ sizes \in Sizing
  BY DEF CopiedRows, Present, Buildable
<1> DEFINE s == StartAt(sizes, i)
           e == EndAt(sizes, i)
           z == Sec(sizes, i).size
<1>3. z \in Nat /\ s \in Nat /\ e \in Nat /\ e = s + z
  <2>1. z \in Nat
    BY <1>2, SecIs
  <2>2. s \in Nat /\ e \in Nat
    BY <1>2 DEF RowBounds
  <2>3. QED
    BY <2>1, <2>2 DEF StartAt, EndAt
<1>4. a.at = s + Page /\ a.size = z
  BY <1>1
<1>5. /\ i = 1 => s = 0 /\ e = v.text
      /\ i \in 2 .. 4 => v.ro <= s /\ e <= v.roEnd
      /\ i \in 5 .. 7 => v.relro <= s /\ e <= v.contents
      /\ i \in 12 .. 15 => v.data <= s
      /\ e + Page <= v.copied
  BY <1>2 DEF RowBounds
<1>6. ProcessSize = \h60 /\ BlocksSize = \h270 /\ Page = \h4000
  BY BlocksAre DEF ProcessSize, Page
<1>7. /\ v.text \in Nat /\ v.ro \in Nat /\ v.roEnd \in Nat /\ v.relro \in Nat /\ v.contents \in Nat /\ v.process \in Nat
      /\ v.relroEnd \in Nat /\ v.data \in Nat /\ v.copied \in Nat
      /\ v.text <= v.process /\ v.roEnd <= v.process /\ v.contents <= v.process /\ v.relroEnd <= v.data
  BY <1>6 DEF PlanNumbers, PlanInMemory
<1>8. Borders(v)[1] = Page /\ Borders(v)[2] = v.process + Page /\ Borders(v)[4] = v.relroEnd + Page /\ Borders(v)[5] = v.copied
  BY DEF Borders
<1> HIDE DEF s, e, z
<1>9. a.at \in Nat /\ a.size \in Nat /\ a.at + a.size = e + Page
  BY <1>3, <1>4, <1>6
<1>10. CASE i <= 7
  <2>1. e <= v.process
    <3>1. i = 1 \/ i \in 2 .. 4 \/ i \in 5 .. 7
      BY <1>2, <1>10
    <3>2. e <= v.text \/ e <= v.roEnd \/ e <= v.contents
      BY <1>3, <1>5, <1>7, <3>1
    <3>3. QED
      BY <1>3, <1>7, <3>2
  <2>2. Page <= a.at /\ a.at + a.size <= v.process + Page
    BY <1>3, <1>4, <1>6, <1>7, <1>9, <2>1
  <2>3. FileSlot(v, a, 1)
    BY <1>8, <1>9, <2>2 DEF FileSlot
  <2>4. InSlot(v, sizes, t, a, 1)
    BY <2>3 DEF InSlot
  <2>5. QED
    BY <2>4
<1>11. CASE 12 <= i
  <2>1. v.data <= s
    BY <1>2, <1>5, <1>11
  <2>2. v.relroEnd + Page <= a.at /\ a.at + a.size <= v.copied
    BY <1>3, <1>4, <1>5, <1>6, <1>7, <1>9, <2>1
  <2>3. FileSlot(v, a, 4)
    BY <1>8, <1>9, <2>2 DEF FileSlot
  <2>4. InSlot(v, sizes, t, a, 4)
    BY <2>3 DEF InSlot
  <2>5. QED
    BY <2>4
<1>12. QED
  BY <1>2, <1>10, <1>11

(* Every piece lies in a slot of the file.                                    *)
LEMMA PieceSlot ==
  ASSUME NEW v, PlanNumbers(v), PlanInMemory(v), PlanInFile(v), NEW sizes, Buildable(sizes), RowBounds(sizes, v),
         NEW t, TablesInOrder(v, t), NEW q,
         SectionPiece(sizes, q) \/ ParameterPiece(v, q) \/ BlockPiece(v, q) \/ TablePiece(v, t, q)
  PROVE  \E k \in 1 .. 8 : InSlot(v, sizes, t, InFile(q), k)
<1> DEFINE a == InFile(q)
<1>1. a = [at |-> q.offset, size |-> q.size]
  BY DEF InFile
<1> HIDE DEF a
<1>2. ProcessSize = \h60 /\ BlocksSize = \h270 /\ Page = \h4000
  BY BlocksAre DEF ProcessSize, Page
<1>3. /\ Borders(v)[2] = v.process + Page /\ Borders(v)[3] = v.process + ProcessSize + Page
      /\ Borders(v)[4] = v.relroEnd + Page /\ Borders(v)[5] = v.copied /\ Borders(v)[6] = v.comment
  BY DEF Borders
<1>4. v.process \in Nat /\ v.relroEnd \in Nat /\ v.process + ProcessSize + BlocksSize = v.relroEnd
  BY DEF PlanNumbers, PlanInMemory
<1>5. CASE SectionPiece(sizes, q)
  <2>1. RowRange(sizes, a)
    BY <1>1, <1>5 DEF SectionPiece, Lies, RowRange
  <2>2. QED
    BY <2>1, RowSlot DEF a
<1>6. CASE ParameterPiece(v, q)
  <2>1. a = [at |-> v.process + Page, size |-> ProcessSize]
    BY <1>1, <1>6 DEF ParameterPiece, Lies
  <2>2. FileSlot(v, a, 2)
    <3>1. a.at = v.process + Page /\ a.size = ProcessSize
      BY <2>1
    <3>2. a.at \in Nat /\ a.size \in Nat /\ Borders(v)[2] <= a.at /\ a.at + a.size <= Borders(v)[3]
      BY <1>2, <1>3, <1>4, <3>1
    <3>3. QED
      BY <3>2 DEF FileSlot
  <2>3. InSlot(v, sizes, t, a, 2)
    BY <2>1, <2>2 DEF InSlot
  <2>4. QED
    BY <2>3 DEF a
<1>7. CASE BlockPiece(v, q)
  <2>1. a = [at |-> (v.process + ProcessSize) + Page, size |-> BlocksSize]
    BY <1>1, <1>7 DEF BlockPiece, Lies
  <2>2. FileSlot(v, a, 3)
    <3>1. a.at = (v.process + ProcessSize) + Page /\ a.size = BlocksSize
      BY <2>1
    <3>2. a.at \in Nat /\ a.size \in Nat /\ Borders(v)[3] <= a.at /\ a.at + a.size <= Borders(v)[4]
      BY <1>2, <1>3, <1>4, <3>1
    <3>3. QED
      BY <3>2 DEF FileSlot
  <2>3. InSlot(v, sizes, t, a, 3)
    BY <2>1, <2>2 DEF InSlot
  <2>4. QED
    BY <2>3 DEF a
<1>8. CASE TablePiece(v, t, q)
  <2>1. PICK j \in 1 .. 7 : Lies(q, TableNames[j], t[j].at, v.file + (t[j].at - v.base), t[j].size)
    BY <1>8 DEF TablePiece
  <2>2. a = [at |-> v.file + (t[j].at - v.base), size |-> t[j].size]
    BY <1>1, <2>1 DEF Lies
  <2>3. TableRange(v, t, a)
    BY <2>2 DEF TableRange
  <2>4. FileSlot(v, a, 5)
    <3> DEFINE s == t[j].at
               z == t[j].size
    <3>1. s \in Nat /\ z \in Nat /\ v.base <= s /\ s + z <= v.top
      BY DEF TablesInOrder
    <3>2. a.at = v.file + (s - v.base) /\ a.size = z
      BY <2>2
    <3> HIDE DEF s, z
    <3>3. /\ v.copied <= v.file /\ v.file + (v.top - v.base) <= v.comment /\ v.base <= v.top
          /\ v.copied \in Nat /\ v.file \in Nat /\ v.base \in Nat /\ v.top \in Nat /\ v.comment \in Nat
      BY DEF PlanNumbers, PlanInMemory, PlanInFile
    <3>4. a.at \in Nat /\ a.size \in Nat /\ v.copied <= a.at /\ a.at + a.size <= v.comment
      BY <3>1, <3>2, <3>3
    <3>5. QED
      BY <1>3, <3>4 DEF FileSlot
  <2>5. InSlot(v, sizes, t, a, 5)
    BY <2>3, <2>4 DEF InSlot
  <2>6. QED
    BY <2>5 DEF a
<1>9. QED
  BY <1>5, <1>6, <1>7, <1>8

(* So do the comment, the version records and the tail.                       *)
LEMMA TailSlot ==
  ASSUME NEW v, PlanNumbers(v), PlanInMemory(v), PlanInFile(v), NEW sizes, NEW t, NEW h, TailSpans(h, v), NEW i \in {11, 12, 14}
  PROVE  \E k \in 1 .. 8 : InSlot(v, sizes, t, InFile(h[i]), k)
<1> DEFINE a == InFile(h[i])
<1>1. a = [at |-> h[i].offset, size |-> h[i].size]
  BY DEF InFile
<1> HIDE DEF a
<1>2. CommentSize \in Nat /\ TailSize \in Nat
  BY SMT DEF CommentSize, AlignUp, TailSize
<1>3. /\ Borders(v)[6] = v.comment /\ Borders(v)[7] = v.version /\ Borders(v)[8] = v.tail /\ Borders(v)[9] = v.tail + TailSize
  BY DEF Borders
<1>4. /\ v.comment \in Nat /\ v.version \in Nat /\ v.versions \in Nat /\ v.tail \in Nat
      /\ v.comment + CommentSize <= v.version /\ v.version + v.versions <= v.tail
  BY DEF PlanNumbers, PlanInFile
<1>5. CASE i = 11
  <2>1. a = [at |-> v.comment, size |-> CommentSize]
    BY <1>1, <1>5 DEF TailSpans, Spans
  <2>2. InSlot(v, sizes, t, a, 6)
    BY <1>2, <1>3, <1>4, <2>1 DEF InSlot, FileSlot
  <2>3. QED
    BY <2>2 DEF a
<1>6. CASE i = 12
  <2>1. a = [at |-> v.version, size |-> v.versions]
    BY <1>1, <1>6 DEF TailSpans, Spans
  <2>2. InSlot(v, sizes, t, a, 7)
    BY <1>2, <1>3, <1>4, <2>1 DEF InSlot, FileSlot
  <2>3. QED
    BY <2>2 DEF a
<1>7. CASE i = 14
  <2>1. a = [at |-> v.tail, size |-> TailSize]
    BY <1>1, <1>7 DEF TailSpans, Spans
  <2>2. InSlot(v, sizes, t, a, 8)
    BY <1>2, <1>3, <1>4, <2>1 DEF InSlot, FileSlot
  <2>3. QED
    BY <2>2 DEF a
<1>8. QED
  BY <1>5, <1>6, <1>7

(* What lies in the file of a title: nothing over anything else.              *)
LEMMA PlacedSound ==
  ASSUME NEW v, PlanNumbers(v), PlanInMemory(v), PlanInFile(v), NEW sizes, Buildable(sizes), RowBounds(sizes, v),
         NEW t, TablesInOrder(v, t), TailSpans(elf.headers, v), elf.size = v.tail + TailSize,
         \A q \in elf.pieces : SectionPiece(sizes, q) \/ ParameterPiece(v, q) \/ BlockPiece(v, q) \/ TablePiece(v, t, q)
  PROVE  /\ \A a, b \in Placed : a = b \/ Disjoint(a, b)
         /\ \A range \in Placed : range.at >= Page /\ End(range) <= elf.size
<1>1. \A a \in Placed : \E k \in 1 .. 8 : InSlot(v, sizes, t, a, k)
  <2>1. TAKE a \in Placed
  <2>2. CASE a \in {InFile(p) : p \in elf.pieces}
    <3>1. PICK q \in elf.pieces : a = InFile(q)
      BY <2>2
    <3>2. QED
      BY <3>1, PieceSlot
  <2>3. CASE a \in Behind
    <3>1. PICK i \in {11, 12, 14} : a = InFile(elf.headers[i])
      BY <2>3 DEF Behind
    <3>2. QED
      BY <3>1, TailSlot
  <2>4. QED
    BY <2>2, <2>3 DEF Placed
<1>2. \A a, b \in Placed : a = b \/ Disjoint(a, b)
  <2>1. TAKE a, b \in Placed
  <2>2. PICK i \in 1 .. 8 : InSlot(v, sizes, t, a, i)
    BY <1>1
  <2>3. PICK j \in 1 .. 8 : InSlot(v, sizes, t, b, j)
    BY <1>1
  <2>4. QED
    BY <2>2, <2>3, SlottedApart
<1>3. \A range \in Placed : range.at >= Page /\ End(range) <= elf.size
  <2>1. TAKE a \in Placed
  <2>2. PICK i \in 1 .. 8 : InSlot(v, sizes, t, a, i)
    BY <1>1
  <2>3. QED
    BY <2>2, SlottedWithin
<1>4. QED
  BY <1>2, <1>3

(* A title the writer made is loaded as it should be.                         *)
LEMMA EmitLoads ==
  ASSUME NEW sizes, Buildable(sizes), NEW image, image.sections = LinkedPie(sizes), input.file.sections = LinkedPie(sizes),
         NEW modules, NEW imports, Countable(image, modules, imports), NEW hash,
         ~(RelroEnd(Regions(image)) > Regions(image).dataStart),
         elf = Emit(image, hash, modules, imports, Regions(image))
  PROVE  EverythingIsLoaded
<1> DEFINE v == PlanOf(image, modules, imports)
           t == TablesOf(image, modules, imports, Regions(image))
           h == elf.headers
<1>1. PlanNumbers(v) /\ PlanInMemory(v) /\ PlanInFile(v)
  BY PlanHolds
<1>2. LoadSpans(h, v) /\ TailSpans(h, v) /\ Loads = {h[i] : i \in {1, 2, 3, 5, 10}}
  BY PlanLoads
<1>3. /\ TablesInOrder(v, t)
      /\ \A q \in elf.pieces : SectionPiece(sizes, q) \/ ParameterPiece(v, q) \/ BlockPiece(v, q) \/ TablePiece(v, t, q)
  BY PlanPieces
<1>4. RowBounds(sizes, v)
  BY PlanRows
<1>5. elf.size = v.tail + TailSize
  BY EmitIs DEF PlanOf
<1> HIDE DEF v, t, h
<1>6. \A a, b \in Loads : a = b \/ Disjoint(InMemory(a), InMemory(b))
  BY <1>1, <1>2, LoadsApart
<1>7. /\ \A a, b \in Placed : a = b \/ Disjoint(a, b)
      /\ \A range \in Placed : range.at >= Page /\ End(range) <= elf.size
  BY <1>1, <1>2, <1>3, <1>4, <1>5, PlacedSound DEF h
<1>8. \A piece \in elf.pieces : piece.name = ".tdata" \/ Mapped(piece)
  BY <1>1, <1>2, <1>3, <1>4, PiecesMapped
<1>9. \A s \in ToSet(input.file.sections) :
          Tls(s) \/ Metadata(s) \/ \E x \in Loads : Within([at |-> s.at, size |-> s.size], InMemory(x))
  BY <1>1, <1>2, <1>4, SectionsLoaded
<1>10. QED
  BY <1>6, <1>7, <1>8, <1>9, Zenon DEF EverythingIsLoaded

(* Which piece holds an address behind the RELRO contents: the parameters or   *)
(* their blocks.                                                             *)
LEMMA PieceAtIs ==
  ASSUME NEW v, PlanNumbers(v), PlanInMemory(v), NEW sizes, Buildable(sizes), RowBounds(sizes, v), NEW t, TablesInOrder(v, t),
         \A q \in elf.pieces : SectionPiece(sizes, q) \/ ParameterPiece(v, q) \/ BlockPiece(v, q) \/ TablePiece(v, t, q),
         \E q \in elf.pieces : ParameterPiece(v, q), \E q \in elf.pieces : BlockPiece(v, q),
         NEW x \in Nat, v.process <= x, x < v.relroEnd
  PROVE  /\ x < v.process + ProcessSize => PieceAt(x).name = "parameters"
         /\ v.process + ProcessSize <= x => PieceAt(x).name = "blocks"
<1>1. ProcessSize = \h60 /\ BlocksSize = \h270
  BY BlocksAre DEF ProcessSize
<1>2. /\ v.text \in Nat /\ v.roEnd \in Nat /\ v.contents \in Nat /\ v.process \in Nat /\ v.relroEnd \in Nat /\ v.data \in Nat /\ v.base \in Nat
      /\ v.text <= v.process /\ v.roEnd <= v.process /\ v.contents <= v.process /\ v.relroEnd <= v.data /\ v.data <= v.base
      /\ v.process + ProcessSize + BlocksSize = v.relroEnd
  BY <1>1 DEF PlanNumbers, PlanInMemory
<1> DEFINE holds(q) == q.at <= x /\ x < End(q)
<1>3. \E q \in elf.pieces : holds(q)
  <2>1. PICK p \in elf.pieces : ParameterPiece(v, p)
    OBVIOUS
  <2>2. PICK b \in elf.pieces : BlockPiece(v, b)
    OBVIOUS
  <2>3. /\ p.at = v.process /\ p.size = ProcessSize
        /\ b.at = v.process + ProcessSize /\ b.size = BlocksSize
    BY <2>1, <2>2 DEF ParameterPiece, BlockPiece, Lies
  <2>4. holds(p) \/ holds(b)
    BY <1>1, <1>2, <2>3 DEF End
  <2> HIDE DEF holds
  <2>5. QED
    BY <2>4
<1>4. PieceAt(x) \in elf.pieces /\ holds(PieceAt(x))
  BY <1>3 DEF PieceAt
<1> DEFINE q == PieceAt(x)
<1> HIDE DEF q
<1>5. q \in elf.pieces /\ q.at <= x /\ x < q.at + q.size
  BY <1>4 DEF q, End
<1>6. ~SectionPiece(sizes, q)
  <2> SUFFICES ASSUME SectionPiece(sizes, q) PROVE FALSE
    OBVIOUS
  <2>1. PICK i \in CopiedRows(sizes) : Lies(q, Script[i].name, StartAt(sizes, i), StartAt(sizes, i) + Page, Sec(sizes, i).size)
    BY DEF SectionPiece
  <2>2. i \in Present(sizes) /\ i \in 1 .. 15 /\ i \notin {8, 9, 10, 11, 14, 15} /\ sizes \in Sizing
    BY DEF CopiedRows, Present, Buildable
  <2> DEFINE s == StartAt(sizes, i)
             e == EndAt(sizes, i)
             z == Sec(sizes, i).size
  <2>3. z \in Nat /\ s \in Nat /\ e \in Nat /\ e = s + z
    <3>1. z \in Nat
      BY <2>2, SecIs
    <3>2. s \in Nat /\ e \in Nat
      BY <2>2 DEF RowBounds
    <3>3. QED
      BY <3>1, <3>2 DEF EndAt, StartAt
  <2>4. q.at = s /\ q.size = z
    BY <2>1 DEF Lies
  <2>5. /\ i = 1 => e = v.text
        /\ i \in 2 .. 4 => e <= v.roEnd
        /\ i \in 5 .. 7 => e <= v.contents
        /\ i \in 12 .. 15 => v.data <= s
    BY <2>2 DEF RowBounds
  <2> HIDE DEF s, e, z
  <2>6. i = 1 \/ i \in 2 .. 4 \/ i \in 5 .. 7 \/ i \in 12 .. 15
    BY <2>2
  <2>7. e = v.text \/ e <= v.roEnd \/ e <= v.contents \/ v.data <= s
    BY <2>5, <2>6
  <2>8. QED
    BY <1>2, <1>5, <2>3, <2>4, <2>7
<1>7. ~TablePiece(v, t, q)
  <2> SUFFICES ASSUME TablePiece(v, t, q) PROVE FALSE
    OBVIOUS
  <2>1. PICK j \in 1 .. 7 : Lies(q, TableNames[j], t[j].at, v.file + (t[j].at - v.base), t[j].size)
    BY DEF TablePiece
  <2>2. t[j].at \in Nat /\ v.base <= t[j].at /\ q.at = t[j].at
    BY <2>1 DEF TablesInOrder, Lies
  <2>3. QED
    BY <1>2, <1>5, <2>2
<1>8. CASE ParameterPiece(v, q)
  <2>1. q.name = "parameters" /\ q.at = v.process /\ q.size = ProcessSize
    BY <1>8 DEF ParameterPiece, Lies
  <2>2. x < v.process + ProcessSize
    BY <1>1, <1>2, <1>5, <2>1
  <2>3. QED
    BY <1>1, <1>2, <2>1, <2>2 DEF q
<1>9. CASE BlockPiece(v, q)
  <2>1. q.name = "blocks" /\ q.at = v.process + ProcessSize
    BY <1>9 DEF BlockPiece, Lies
  <2>2. v.process + ProcessSize <= x
    BY <1>1, <1>2, <1>5, <2>1
  <2>3. QED
    BY <1>1, <1>2, <2>1, <2>2 DEF q
<1>10. QED
  BY <1>5, <1>6, <1>7, <1>8, <1>9

(* The parameters' pointers, by their distances from the parameters.          *)
PointerFrom == << \h38, \h40, \h48, \h90, \h98, \hc0, \h70, \h80 >>
PointerTo == << \h60, \h108, \h140, \h150, \h1c8, \h288, \h2c0, \h2c8 >>

(* The eight pointers among the parameters.                                  *)
LEMMA PointersAre ==
  ASSUME NEW p \in Nat
  PROVE  LET o == ParameterPointers(p, p + ProcessSize)
         IN  DOMAIN o = 1 .. 8 /\ Len(o) = 8 /\ \A i \in 1 .. 8 : o[i].at = p + PointerFrom[i] /\ o[i].to = p + PointerTo[i]
<1> DEFINE o == ParameterPointers(p, p + ProcessSize)
           b == p + ProcessSize
           b1 == BlockOffset(1)
           b2 == BlockOffset(2)
           b3 == BlockOffset(3)
           b4 == BlockOffset(4)
           b5 == BlockOffset(5)
           b6 == BlockOffset(6)
<1>1. o = << [at |-> p + \h38, to |-> b + b1], [at |-> p + \h40, to |-> b + b2], [at |-> p + \h48, to |-> b + b3],
             [at |-> b + \h30, to |-> b + b4], [at |-> b + \h38, to |-> b + b5], [at |-> b + \h60, to |-> b + b6],
             [at |-> b + \h10, to |-> b + HeapSize], [at |-> b + \h20, to |-> b + HeapExtended] >>
  BY DEF ParameterPointers
<1>2. b1 = 0 /\ b2 = \ha8 /\ b3 = \he0 /\ b4 = \hf0 /\ b5 = \h168 /\ b6 = \h228 /\ HeapSize = \h260 /\ HeapExtended = \h268
  BY BlocksAre
<1>3. b \in Nat /\ b = p + \h60
  BY DEF ProcessSize
<1> HIDE DEF o, b, b1, b2, b3, b4, b5, b6
<1>4. DOMAIN o = 1 .. 8 /\ Len(o) = 8
  BY <1>1
<1>5. /\ o[1].at = p + \h38 /\ o[1].to = b + b1 /\ o[2].at = p + \h40 /\ o[2].to = b + b2 /\ o[3].at = p + \h48 /\ o[3].to = b + b3
      /\ o[4].at = b + \h30 /\ o[4].to = b + b4 /\ o[5].at = b + \h38 /\ o[5].to = b + b5 /\ o[6].at = b + \h60 /\ o[6].to = b + b6
      /\ o[7].at = b + \h10 /\ o[7].to = b + HeapSize /\ o[8].at = b + \h20 /\ o[8].to = b + HeapExtended
  BY <1>1
<1>6. ASSUME NEW i \in 1 .. 8 PROVE o[i].at = p + PointerFrom[i] /\ o[i].to = p + PointerTo[i]
  <2>1. i = 1 \/ i = 2 \/ i = 3 \/ i = 4 \/ i = 5 \/ i = 6 \/ i = 7 \/ i = 8
    OBVIOUS
  <2>2. QED
    BY <1>2, <1>3, <1>5, <2>1 DEF PointerFrom, PointerTo
<1>7. QED
  BY <1>4, <1>6 DEF o

RelocationsTell(all, n, p, o, c) ==
  /\ Len(o) = 8 + n /\ DOMAIN o = 1 .. 8 + n
  /\ \A i \in 1 .. 8 : o[i].at = p + PointerFrom[i] /\ o[i].to = p + PointerTo[i]
  /\ c \in Nat /\ 8 <= c
  /\ \A i \in 1 .. 8 + n : i <= c => o[i].relative
  /\ \A i \in 1 .. 8 + n : i > c => ~o[i].relative
  /\ c + Cardinality({i \in DOMAIN all : ~all[i].relative}) = 8 + n

(* The relocations of a title: the eight of the parameters, the relative ones   *)
(* of the image, and the others.                                             *)
LEMMA RelocationsAre ==
  ASSUME NEW image, NEW n \in Nat, image.relocations \in Seq(ToSet(image.relocations)), Len(image.relocations) = n,
         NEW p \in Nat
  PROVE  RelocationsTell(image.relocations, n, p, Relocations(image, p, p + ProcessSize), RelativeCount(image))
<1> DEFINE all == image.relocations
           q == ParameterPointers(p, p + ProcessSize)
           own == [i \in DOMAIN q |-> [at |-> q[i].at, relative |-> TRUE, to |-> q[i].to]]
           S == {i \in DOMAIN all : all[i].relative}
           T == {i \in DOMAIN all : ~all[i].relative}
           s == Picked(all, S)
           t == Picked(all, T)
           o == Relocations(image, p, p + ProcessSize)
           c == RelativeCount(image)
           cs == Cardinality(S)
           ct == Cardinality(T)
<1>1. DOMAIN all = 1 .. n
  OBVIOUS
<1>2. DOMAIN q = 1 .. 8 /\ Len(q) = 8 /\ \A i \in 1 .. 8 : q[i].at = p + PointerFrom[i] /\ q[i].to = p + PointerTo[i]
  BY PointersAre
<1>3. o = own \o s \o t
  BY Zenon DEF Relocations
<1>4. c = Len(ParameterPointers(0, 0)) + cs
  BY DEF RelativeCount
<1>5. Len(ParameterPointers(0, 0)) = 8
  BY DEF ParameterPointers
<1>6. S \in SUBSET (1 .. n) /\ T \in SUBSET (1 .. n)
  BY <1>1
<1> HIDE DEF all, q, S, T, o, c
<1>7. /\ DOMAIN s = 1 .. cs /\ Len(s) = cs /\ cs \in Nat
      /\ \A k \in 1 .. cs : s[k] = all[InOrder(S)[k]] /\ InOrder(S)[k] \in S
  BY <1>6, PickedIs
<1>8. /\ DOMAIN t = 1 .. ct /\ Len(t) = ct /\ ct \in Nat
      /\ \A k \in 1 .. ct : t[k] = all[InOrder(T)[k]] /\ InOrder(T)[k] \in T
  BY <1>6, PickedIs
<1>9. cs + ct = n
  <2>1. S \cup T = 1 .. n /\ \A x \in S : x \notin T
    BY <1>1 DEF S, T
  <2>2. IsFiniteSet(S) /\ IsFiniteSet(T)
    BY <1>6, InOrderIs
  <2>3. Cardinality(S \cup T) = cs + ct
    BY <2>1, <2>2, Apart
  <2>4. Cardinality(1 .. n) = n
    BY FS_Interval
  <2>5. QED
    BY <2>1, <2>3, <2>4
<1>10. \A k \in 1 .. cs : s[k].relative
  BY <1>7 DEF S
<1>11. \A k \in 1 .. ct : ~t[k].relative
  BY <1>8 DEF T
<1>12. /\ DOMAIN own = 1 .. 8 /\ \A i \in 1 .. 8 : own[i].at = p + PointerFrom[i] /\ own[i].to = p + PointerTo[i] /\ own[i].relative
  BY <1>2
<1> DEFINE U == {own[i] : i \in 1 .. 8} \cup {s[i] : i \in 1 .. cs} \cup {t[i] : i \in 1 .. ct}
<1>13. own \in Seq(U) /\ s \in Seq(U) /\ t \in Seq(U) /\ Len(own) = 8
  <2>1. own = [i \in 1 .. 8 |-> own[i]] /\ \A i \in 1 .. 8 : own[i] \in U
    BY <1>12, Zenon
  <2>2. \A i \in 1 .. cs : s[i] \in U
    BY Zenon
  <2>3. \A i \in 1 .. ct : t[i] \in U
    BY Zenon
  <2>4. s = [i \in 1 .. cs |-> s[i]] /\ t = [i \in 1 .. ct |-> t[i]]
    BY <1>7, <1>8, Zenon DEF Picked
  <2> HIDE DEF own, s, t, U, cs, ct
  <2>5. own \in Seq(U) /\ Len(own) = 8
    <3> DEFINE m == 8
    <3>1. m \in Nat /\ own = [i \in 1 .. m |-> own[i]] /\ DOMAIN own = 1 .. m /\ \A i \in 1 .. m : own[i] \in U
      BY <1>12, <2>1
    <3> HIDE DEF m
    <3>2. own \in Seq(U) /\ Len(own) = m
      BY <3>1, Sequence
    <3>3. QED
      BY <3>2 DEF m
  <2>6. s \in Seq(U)
    BY <1>7, <2>2, <2>4, Sequence
  <2>7. t \in Seq(U)
    BY <1>8, <2>3, <2>4, Sequence
  <2>8. QED
    BY <2>5, <2>6, <2>7
<1> HIDE DEF own, s, t, U, cs, ct
<1> DEFINE a == own \o s
<1>14. /\ a \in Seq(U) /\ Len(a) = 8 + cs
       /\ \A i \in 1 .. 8 : a[i] = own[i]
       /\ \A i \in 1 .. 8 + cs : i > 8 => a[i] = s[i - 8]
  <2>1. a \in Seq(U) /\ Len(a) = Len(own) + Len(s)
        /\ \A i \in 1 .. Len(own) + Len(s) : a[i] = IF i <= Len(own) THEN own[i] ELSE s[i - Len(own)]
    BY <1>13, ConcatProperties
  <2>2. Len(own) = 8 /\ Len(s) = cs
    BY <1>7, <1>13
  <2> HIDE DEF a
  <2>3. QED
    BY <1>7, <2>1, <2>2
<1> HIDE DEF a
<1>15. /\ Len(a \o t) = 8 + n /\ DOMAIN (a \o t) = 1 .. 8 + n
       /\ \A i \in 1 .. 8 + cs : (a \o t)[i] = a[i]
       /\ \A i \in 1 .. 8 + n : i > 8 + cs => (a \o t)[i] = t[i - (8 + cs)]
  <2> DEFINE b == a \o t
  <2>1. b \in Seq(U) /\ Len(b) = Len(a) + Len(t)
        /\ \A i \in 1 .. Len(a) + Len(t) : b[i] = IF i <= Len(a) THEN a[i] ELSE t[i - Len(a)]
    BY <1>13, <1>14, ConcatProperties
  <2> HIDE DEF b
  <2>2. Len(a) = 8 + cs /\ Len(t) = ct
    BY <1>8, <1>14
  <2>3. (8 + cs) + ct = 8 + n
    BY <1>7, <1>8, <1>9
  <2>4. Len(b) = 8 + n /\ DOMAIN b = 1 .. 8 + n
    BY <2>1, <2>2, <2>3
  <2>5. \A i \in 1 .. 8 + n : b[i] = IF i <= 8 + cs THEN a[i] ELSE t[i - (8 + cs)]
    BY <2>1, <2>2, <2>3
  <2>6. ASSUME NEW i \in 1 .. 8 + cs PROVE b[i] = a[i]
    <3>1. i \in 1 .. 8 + n /\ i <= 8 + cs
      BY <1>7, <1>8, <1>9
    <3>2. QED
      BY <2>5, <3>1
  <2>7. ASSUME NEW i \in 1 .. 8 + n, i > 8 + cs PROVE b[i] = t[i - (8 + cs)]
    <3>1. ~(i <= 8 + cs)
      BY <1>7, <2>7
    <3>2. QED
      BY <2>5, <3>1
  <2>8. QED
    BY <2>4, <2>6, <2>7 DEF b
<1>16. o = a \o t
  BY <1>3 DEF a
<1>17. c = 8 + cs
  BY <1>4, <1>5
<1>18. /\ Len(o) = 8 + n /\ DOMAIN o = 1 .. 8 + n
       /\ \A i \in 1 .. 8 + cs : o[i] = a[i]
       /\ \A i \in 1 .. 8 + n : i > 8 + cs => o[i] = t[i - (8 + cs)]
  BY <1>15, <1>16
<1>19. \A i \in 1 .. 8 : o[i].at = p + PointerFrom[i] /\ o[i].to = p + PointerTo[i]
  <2>1. \A i \in 1 .. 8 : i \in 1 .. 8 + cs
    BY <1>7
  <2>2. \A i \in 1 .. 8 : o[i] = own[i]
    BY <1>14, <1>18, <2>1
  <2>3. QED
    BY <1>12, <2>2
<1>20. ASSUME NEW i \in 1 .. 8 + n, i <= c PROVE o[i].relative
  <2>1. i \in 1 .. 8 + cs
    BY <1>7, <1>17, <1>20
  <2>2. o[i] = a[i]
    BY <1>18, <2>1
  <2>3. CASE i <= 8
    <3>1. i \in 1 .. 8
      BY <2>1, <2>3
    <3>2. o[i] = own[i]
      BY <1>14, <2>2, <3>1
    <3>3. QED
      BY <1>12, <3>1, <3>2
  <2>4. CASE i > 8
    <3>1. i - 8 \in 1 .. cs
      BY <1>7, <2>1, <2>4
    <3>2. o[i] = s[i - 8]
      BY <1>14, <2>1, <2>2, <2>4
    <3>3. QED
      BY <1>10, <3>1, <3>2
  <2>5. QED
    BY <2>1, <2>3, <2>4
<1>21. ASSUME NEW i \in 1 .. 8 + n, i > c PROVE ~o[i].relative
  <2>1. i > 8 + cs /\ i - (8 + cs) \in 1 .. ct
    BY <1>7, <1>8, <1>9, <1>17, <1>21
  <2>2. o[i] = t[i - (8 + cs)]
    BY <1>18, <2>1
  <2>3. QED
    BY <1>11, <2>1, <2>2
<1>22. c \in Nat /\ 8 <= c /\ c + ct = 8 + n
  BY <1>7, <1>8, <1>9, <1>17
<1>23. QED
  BY <1>18, <1>19, <1>20, <1>21, <1>22, Zenon DEF RelocationsTell, o, c, ct, T, all

PointerWords(o) == Cardinality({r.at : r \in {o[i] : i \in 1 .. 8}})

(* The pointers of a title's parameters: no two in one word, all into blocks.  *)
LEMMA PointersApart ==
  ASSUME NEW p \in Nat, NEW o, \A i \in 1 .. 8 : o[i].at = p + PointerFrom[i]
  PROVE  PointerWords(o) = 8
<1> DEFINE f == [i \in 1 .. 8 |-> o[i].at]
           W == {r.at : r \in {o[i] : i \in 1 .. 8}}
<1>1. W = {o[i].at : i \in 1 .. 8}
  OBVIOUS
<1>2. f \in Bijection(1 .. 8, W)
  <2>1. f \in [1 .. 8 -> W]
    BY <1>1
  <2>2. \A w \in W : \E i \in 1 .. 8 : f[i] = w
    BY <1>1
  <2>3. ASSUME NEW i \in 1 .. 8, NEW j \in 1 .. 8, f[i] = f[j] PROVE i = j
    <3>1. p + PointerFrom[i] = p + PointerFrom[j]
      BY <2>3
    <3>2. PointerFrom[i] = PointerFrom[j]
      <4>1. \A k \in 1 .. 8 : PointerFrom[k] \in Nat
        BY DEF PointerFrom
      <4>2. QED
        BY <3>1, <4>1
    <3>3. i = 1 \/ i = 2 \/ i = 3 \/ i = 4 \/ i = 5 \/ i = 6 \/ i = 7 \/ i = 8
      OBVIOUS
    <3>4. j = 1 \/ j = 2 \/ j = 3 \/ j = 4 \/ j = 5 \/ j = 6 \/ j = 7 \/ j = 8
      OBVIOUS
    <3>5. QED
      BY <3>2, <3>3, <3>4 DEF PointerFrom
  <2> HIDE DEF f, W
  <2>4. QED
    BY <2>1, <2>2, <2>3 DEF Bijection, Injection, Surjection, IsInjective
<1> HIDE DEF f, W
<1>3. ExistsBijection(1 .. 8, W)
  BY <1>2 DEF ExistsBijection
<1>4. IsFiniteSet(1 .. 8) /\ Cardinality(1 .. 8) = 8
  <2> DEFINE one == 1
             eight == 8
  <2>1. one \in Int /\ eight \in Int /\ one = 1 /\ eight = 8
    OBVIOUS
  <2> HIDE DEF one, eight
  <2>2. /\ IsFiniteSet(one .. eight)
        /\ Cardinality(one .. eight) = IF one > eight THEN 0 ELSE eight - one + 1
    BY <2>1, FS_Interval
  <2>3. QED
    BY <2>1, <2>2
<1>5. QED
  BY <1>3, <1>4, FS_Bijection DEF W, PointerWords

(* The distances of the pointers and of what they point to.                   *)
LEMMA Offsets ==
  ASSUME NEW i \in 1 .. 8
  PROVE  /\ PointerFrom[i] \in Nat /\ PointerFrom[i] < \h2d0
         /\ PointerTo[i] \in Nat /\ PointerTo[i] < \h2d0 /\ \h60 <= PointerTo[i]
<1>1. i = 1 \/ i = 2 \/ i = 3 \/ i = 4 \/ i = 5 \/ i = 6 \/ i = 7 \/ i = 8
  OBVIOUS
<1>2. PointerFrom[i] \in Nat /\ PointerFrom[i] < \h2d0
  BY <1>1 DEF PointerFrom
<1>3. PointerTo[i] \in Nat /\ PointerTo[i] < \h2d0 /\ \h60 <= PointerTo[i]
  BY <1>1 DEF PointerTo
<1>4. QED
  BY <1>2, <1>3

(* The relocations of a title the writer made lead where they should.         *)
LEMMA EmitPoints ==
  ASSUME NEW sizes, Buildable(sizes), NEW image, image.sections = LinkedPie(sizes), input.file.relocations = image.relocations,
         image.relocations \in Seq(ToSet(image.relocations)),
         NEW modules, NEW imports, Countable(image, modules, imports), NEW hash,
         ~(RelroEnd(Regions(image)) > Regions(image).dataStart),
         elf = Emit(image, hash, modules, imports, Regions(image))
  PROVE  PointersArePlaced
<1> DEFINE r == Regions(image)
           v == PlanOf(image, modules, imports)
           t == TablesOf(image, modules, imports, r)
           p == ProcessAddress(r)
           o == elf.relocations
           c == elf.relativeCount
           n == Len(image.relocations)
<1>1. PlanNumbers(v) /\ PlanInMemory(v)
  BY PlanHolds
<1>2. /\ TablesInOrder(v, t)
      /\ \A q \in elf.pieces : SectionPiece(sizes, q) \/ ParameterPiece(v, q) \/ BlockPiece(v, q) \/ TablePiece(v, t, q)
      /\ (\E q \in elf.pieces : ParameterPiece(v, q)) /\ \E q \in elf.pieces : BlockPiece(v, q)
  BY PlanPieces
<1>3. RowBounds(sizes, v)
  BY PlanRows
<1>4. v.process = p /\ v.relroEnd = BlocksAddress(r) + BlocksSize
  BY DEF PlanOf, RelroEnd
<1>5. o = Relocations(image, p, BlocksAddress(r)) /\ c = RelativeCount(image)
  BY EmitIs
<1>6. n \in Nat
  BY DEF Countable
<1> HIDE DEF v, t, p, o, c, n
<1>7. ProcessSize = \h60 /\ BlocksSize = \h270
  BY BlocksAre DEF ProcessSize
<1>8. p \in Nat /\ v.relroEnd \in Nat /\ v.process + ProcessSize + BlocksSize = v.relroEnd /\ v.relroEnd = p + \h60 + \h270
  BY <1>1, <1>4, <1>7 DEF PlanNumbers, PlanInMemory
<1>9. BlocksAddress(r) = p + ProcessSize
  <2>1. BlocksAddress(r) \in Int
    <3>1. BlocksAddress(r) = AlignUp(p + ProcessSize, 8)
      BY DEF BlocksAddress, p
    <3>2. p + ProcessSize \in Nat
      BY <1>7, <1>8
    <3>3. QED
      BY <3>1, <3>2, AlignUpIs
  <2>2. QED
    BY <1>4, <1>7, <1>8, <2>1
<1> DEFINE all == image.relocations
<1>tell. RelocationsTell(all, n, p, o, c)
  BY <1>5, <1>6, <1>8, <1>9, RelocationsAre DEF n
<1>10. /\ Len(o) = 8 + n /\ DOMAIN o = 1 .. 8 + n
       /\ \A i \in 1 .. 8 : o[i].at = p + PointerFrom[i] /\ o[i].to = p + PointerTo[i]
       /\ c \in Nat /\ 8 <= c
       /\ \A i \in 1 .. 8 + n : i <= c => o[i].relative
       /\ \A i \in 1 .. 8 + n : i > c => ~o[i].relative
       /\ c + Cardinality({i \in DOMAIN image.relocations : ~image.relocations[i].relative}) = 8 + n
  BY <1>tell, Zenon DEF RelocationsTell
<1>11. \A i \in DOMAIN o : o[i].relative <=> i <= c
  BY <1>6, <1>10
<1>12. Cardinality({x.at : x \in {o[i] : i \in 1 .. 8}}) = 8
  <2>1. p \in Nat /\ \A i \in 1 .. 8 : o[i].at = p + PointerFrom[i]
    BY <1>8, <1>10
  <2>2. PointerWords(o) = 8
    BY <2>1, PointersApart
  <2>3. QED
    BY <2>2, Zenon DEF PointerWords
<1>13. ASSUME NEW x \in Nat, v.process <= x, x < v.relroEnd
       PROVE  /\ x < v.process + ProcessSize => PieceAt(x).name = "parameters"
              /\ v.process + ProcessSize <= x => PieceAt(x).name = "blocks"
  BY <1>1, <1>2, <1>3, <1>13, PieceAtIs
<1>14. ASSUME NEW i \in 1 .. 8 PROVE PieceAt(o[i].at).name \in {"parameters", "blocks"} /\ PieceAt(o[i].to).name = "blocks"
  <2>1. i = 1 \/ i = 2 \/ i = 3 \/ i = 4 \/ i = 5 \/ i = 6 \/ i = 7 \/ i = 8
    OBVIOUS
  <2>2. /\ PointerFrom[i] \in Nat /\ PointerFrom[i] < \h2d0
        /\ PointerTo[i] \in Nat /\ PointerTo[i] < \h2d0 /\ \h60 <= PointerTo[i]
    BY Offsets
  <2> DEFINE x == o[i].at
             y == o[i].to
  <2>3. x = p + PointerFrom[i] /\ y = p + PointerTo[i]
    BY <1>10
  <2> HIDE DEF x, y
  <2>4. x \in Nat /\ v.process <= x /\ x < v.relroEnd /\ (x < v.process + ProcessSize \/ v.process + ProcessSize <= x)
    BY <1>4, <1>7, <1>8, <2>2, <2>3, SMTT(30)
  <2>5. y \in Nat /\ v.process <= y /\ y < v.relroEnd /\ v.process + ProcessSize <= y
    BY <1>4, <1>7, <1>8, <2>2, <2>3, SMTT(30)
  <2>6. PieceAt(x).name \in {"parameters", "blocks"}
    BY <1>13, <2>4
  <2>7. PieceAt(y).name = "blocks"
    BY <1>13, <2>5
  <2>8. QED
    BY <2>6, <2>7 DEF x, y
<1>15. \A x \in {o[i] : i \in 1 .. 8} : PieceAt(x.at).name \in {"parameters", "blocks"} /\ PieceAt(x.to).name = "blocks"
  BY <1>14
<1>16. c + Cardinality({i \in DOMAIN image.relocations : ~image.relocations[i].relative}) = Len(o)
  BY <1>10
<1>17. QED
  BY <1>11, <1>12, <1>15, <1>16, Zenon DEF PointersArePlaced, o, c

(* The writer finds no room only where a RELRO section ends too near to the    *)
(* dynamic table for the parameters and their blocks.                         *)
LEMMA RoomWanting ==
  ASSUME NEW sizes, Buildable(sizes), NEW image, image.sections = LinkedPie(sizes), Cramped(image)
  PROVE  \E s \in ToSet(image.sections) : s.name = ".dynamic"
            /\ \E got \in ToSet(image.sections) : Relro(got) /\ End(got) + ProcessSize + BlocksSize > s.at
<1> DEFINE r == Regions(image)
           P == Present(sizes)
<1>1. sizes \in Sizing /\ 11 \in P
  BY DEF Buildable
<1>2. PICK i \in P \cap 5 .. 7 : r.relroContentEnd = EndAt(sizes, i)
  BY RegionsAre
<1>3. r.dataStart = StartAt(sizes, 11)
  BY RegionsAre
<1>4. /\ r.relroContentEnd \in Nat /\ r.dataStart \in Nat /\ r.roEnd \in Nat /\ r.relroStart \in Nat
      /\ r.roEnd <= r.relroStart /\ r.relroStart < r.relroContentEnd
  BY RegionsOrdered
<1>5. ToSet(image.sections) = {Sec(sizes, k) : k \in P}
  BY <1>1, PieIs
<1> DEFINE s == Sec(sizes, 11)
           got == Sec(sizes, i)
<1>6. s \in ToSet(image.sections) /\ got \in ToSet(image.sections)
  BY <1>1, <1>2, <1>5
<1>7. s.name = ".dynamic" /\ s.at % Page = 0 /\ s.at % 8 = 0
  <2>1. 11 \in Present(sizes) /\ s.name = Script[11].name /\ s.at % 8 = 0
    BY <1>1, SecIs
  <2>2. Script[11].name = ".dynamic"
    BY ScriptIs
  <2>3. s.at % Page = 0
    <3>1. 11 \in 1 .. 15 /\ 11 \in {1, 2, 5, 11}
      OBVIOUS
    <3>2. Script[11].paged
      BY <3>1, ScriptIs, Zenon
    <3>3. QED
      BY <1>1, <3>2, SecIs
  <2>4. QED
    BY <2>1, <2>2, <2>3
<1>8. Relro(got)
  BY <1>1, <1>2, RowKinds
<1> DEFINE x == r.relroContentEnd
           D == r.dataStart
           p == ProcessAddress(r)
           b == BlocksAddress(r)
<1>9. End(got) = x /\ s.at = D
  BY <1>2, <1>3 DEF End, EndAt, StartAt
<1>10. ProcessSize = \h60 /\ BlocksSize = \h270
  BY BlocksAre DEF ProcessSize
<1>11. /\ p \in Nat /\ p % 8 = 0 /\ p < x + 8 /\ b = p + ProcessSize
  BY ParametersAre
<1>12. p \in Nat /\ p % 8 = 0 /\ p < x + 8 /\ b = p + \h60
  BY <1>10, <1>11
<1>13. b + BlocksSize > D
  BY DEF Cramped, RelroEnd
<1>14. x \in Nat /\ D \in Nat /\ D % 8 = 0
  BY <1>4, <1>7, <1>9
<1> HIDE DEF x, D, p, b
<1>15. x + ProcessSize + BlocksSize > D
  <2> SUFFICES ASSUME x + ProcessSize + BlocksSize <= D PROVE FALSE
    BY <1>10, <1>14
  <2>1. D - \h2d0 \in Nat /\ x <= D - \h2d0 /\ (D - \h2d0) % 8 = 0
    BY <1>10, <1>14
  <2>2. p > D - \h2d0
    BY <1>10, <1>12, <1>13, <1>14
  <2>3. p < (D - \h2d0) + 8
    BY <1>12, <1>14, <2>1
  <2> DEFINE m == D - \h2d0
  <2>4. m \in Nat /\ m % 8 = 0 /\ m < p /\ p < m + 8 /\ p \in Nat /\ p % 8 = 0
    BY <1>12, <2>1, <2>2, <2>3
  <2> HIDE DEF m
  <2>5. QED
    BY <2>4
<1>16. QED
  BY <1>6, <1>7, <1>8, <1>9, <1>15

(* Every segment the writer lists can be mapped.                              *)
LEMMA EmitCongruent ==
  ASSUME NEW sizes, Buildable(sizes), NEW image, image.sections = LinkedPie(sizes),
         NEW modules, NEW imports, Countable(image, modules, imports), NEW hash,
         ~(RelroEnd(Regions(image)) > Regions(image).dataStart)
  PROVE  \A header \in ToSet(Emit(image, hash, modules, imports, Regions(image)).headers) : Congruent(header)
<1> DEFINE r == Regions(image)
           v == PlanOf(image, modules, imports)
           o == Emit(image, hash, modules, imports, r)
           h == o.headers
           u == UnwindOf(image, r)
           t == TablesOf(image, modules, imports, r)
           file == FileOf(image, r)
           base == BaseOf(r)
<1>1. /\ DOMAIN h = 1 .. 14
      /\ TitleSpans(h, r, RelroEnd(r), ProcessAddress(r), u, base, file, t, CommentOf(image, modules, imports, r),
                    VersionOf(image, modules, imports, r), TailOf(image, modules, imports, r))
  BY TitleHeaders
<1>2. /\ v.ro \in Nat /\ v.relro \in Nat /\ v.data \in Nat
      /\ v.file % Page = v.base % Page
  BY PlanHolds DEF PlanNumbers, PlanInFile
<1>3. v.ro = r.roStart /\ v.relro = r.relroStart /\ v.data = r.dataStart /\ v.file = file /\ v.base = base
  BY DEF PlanOf
<1> HIDE DEF r, v, o, h, u, t, file, base
<1>4. /\ h[1].at = 0 /\ h[1].offset = Page
      /\ h[2].at = r.roStart /\ h[2].offset = r.roStart + Page
      /\ h[3].at = r.relroStart /\ h[3].offset = r.relroStart + Page
      /\ h[5].at = r.dataStart /\ h[5].offset = r.dataStart + Page
      /\ h[10].at = base /\ h[10].offset = file
  BY <1>1 DEF TitleSpans, Spans
<1>5. /\ h[4].type = "GNU_RELRO" /\ h[6].type = "PROCPARAM" /\ h[7].type = "DYNAMIC" /\ h[8].type = "TLS" /\ h[9].type = "EH_FRAME"
      /\ h[11].type = "COMMENT" /\ h[12].type = "VERSION" /\ h[13].type = "NOTE" /\ h[14].type = "NOTE"
  BY <1>1 DEF TitleSpans, Spans
<1>6. /\ (r.roStart + Page) % Page = r.roStart % Page /\ (r.relroStart + Page) % Page = r.relroStart % Page
      /\ (r.dataStart + Page) % Page = r.dataStart % Page /\ Page % Page = 0 % Page
  BY <1>2, <1>3 DEF Page
<1>7. ASSUME NEW i \in 1 .. 14 PROVE Congruent(h[i])
  <2>1. CASE i \in {1, 2, 3, 5, 10}
    BY <1>2, <1>3, <1>4, <1>6, <2>1 DEF Congruent
  <2>2. CASE i \notin {1, 2, 3, 5, 10}
    <3>1. i = 4 \/ i = 6 \/ i = 7 \/ i = 8 \/ i = 9 \/ i = 11 \/ i = 12 \/ i = 13 \/ i = 14
      BY <2>2
    <3>2. h[i].type # "LOAD"
      BY <1>5, <3>1
    <3>3. QED
      BY <3>2 DEF Congruent
  <2>3. QED
    BY <2>1, <2>2
<1>8. QED
  BY <1>1, <1>7 DEF ToSet, h, o, r

-----------------------------------------------------------------------------
(* What the tools leave at each stage.                                      *)

(* The results of the tools, as the actions compute them.                    *)
Linked ==
  LET image == ReadImage(input.file)
  IN  IF image.error # "none" THEN image
      ELSE IF \E i \in DOMAIN StubsRead : StubsRead[i].error # "none" THEN [error |-> "stub without SONAME"]
      ELSE IF StubsRead = <<>> THEN [error |-> "no stub"]
      ELSE WriteExecutable(image, input.hash, StubsRead)

Converted == IF input.kind = "title" THEN Linked ELSE Built(input.manifest)
Signed(options) == Sign([size |-> elf.size, headers |-> elf.headers], options)
Extracted(strip) ==
  LET again == Extract(container)
  IN  IF again.error = "none" /\ strip THEN StripSections(again) ELSE again
Inspected ==
  LET again == Extract(container)
  IN  IF again.error = "none" /\ Digest(container, again) = container.digest THEN "valid" ELSE "INVALID"

Inputs ==
  \/ \E program \in Program, stubs \in StubList :
        input = [kind |-> "title", file |-> PieFile(program), hash |-> program.hash, stubs |-> stubs]
  \/ \E manifest \in Manifest : input = [kind |-> "runtime", manifest |-> manifest]

Unread == container = Nothing /\ rebuilt = Nothing /\ verdict = "none"
AtInput == stage = "input" /\ elf = Nothing /\ Unread
AtModule == elf = Converted /\ Unread /\ stage = IF elf.error = "none" THEN "module" ELSE "refused"
AtContainer ==
  /\ elf = Converted /\ elf.error = "none"
  /\ \E options \in SignOption : container = Signed(options)
  /\ \/ container.error # "none" /\ stage = "refused" /\ rebuilt = Nothing /\ verdict = "none"
     \/ container.error = "none" /\ stage = "signed" /\ rebuilt = Nothing /\ verdict \in {"none", Inspected}
     \/ /\ container.error = "none" /\ verdict \in {"none", Inspected}
        /\ \E strip \in BOOLEAN : rebuilt = Extracted(strip)
        /\ stage = IF rebuilt.error = "none" THEN "extracted" ELSE "refused"

(* Whatever there is was made by the tools, in their order, from one input.  *)
Stages == Inputs /\ (AtInput \/ AtModule \/ AtContainer)

(* The order in which tools/build.sh uses the tools keeps it.                *)
THEOREM StagesCorrect == Spec => []Stages
<1>1. Init => Stages
  BY Zenon DEF Init, Stages, Inputs, AtInput, Unread
<1>2. Stages /\ [Next]_vars => Stages'
  <2> SUFFICES ASSUME Stages, [Next]_vars PROVE Stages'
    OBVIOUS
  <2>1. CASE UNCHANGED vars
    <3>1. UNCHANGED <<stage, input, elf, container, rebuilt, verdict>>
      BY <2>1 DEF vars
    <3>2. Converted' = Converted /\ (\A options : Signed(options)' = Signed(options))
          /\ (\A strip : Extracted(strip)' = Extracted(strip)) /\ Inspected' = Inspected
      BY <3>1, Zenon DEF Converted, Linked, StubsRead, Signed, Extracted, Inspected
    <3>3. Inputs'
      BY <3>1, Zenon DEF Stages, Inputs
    <3>4. QED
      BY <3>1, <3>2, <3>3, Zenon DEF Stages, AtInput, AtModule, AtContainer, Unread
  <2>2. ASSUME UNCHANGED input PROVE Inputs' /\ Converted' = Converted
    BY <2>2, Zenon DEF Stages, Inputs, Converted, Linked, StubsRead
  <2>3. ASSUME Convert(Converted), input' = input PROVE Stages'
    <3>1. AtInput
      BY <2>3, Zenon DEF Stages, AtModule, AtContainer, Convert
    <3>2. AtModule'
      BY <2>2, <2>3, <3>1, Zenon DEF Convert, AtInput, AtModule, Unread
    <3>3. QED
      BY <2>2, <2>3, <3>2 DEF Stages
  <2>4. CASE LinkCommand
    <3>1. input.kind = "title" /\ Convert(Linked)
      BY <2>4, Zenon DEF LinkCommand, Linked
    <3>2. Convert(Converted) /\ input' = input
      BY <3>1, Zenon DEF Converted, Convert
    <3>3. QED
      BY <2>3, <3>2
  <2>5. CASE BuildLibc
    <3>1. input.kind = "runtime" /\ Convert(Built(input.manifest))
      BY <2>5, Zenon DEF BuildLibc, Built
    <3>2. input.kind # "title"
      BY <3>1
    <3>3. Convert(Converted) /\ input' = input
      BY <3>1, <3>2, Zenon DEF Converted, Convert
    <3>4. QED
      BY <2>3, <3>3
  <2>6. ASSUME NEW options \in SignOption, SelfSign(options) PROVE Stages'
    <3>1. stage = "module" /\ input' = input /\ elf' = elf /\ rebuilt' = rebuilt /\ verdict' = verdict
          /\ container' = Signed(options) /\ stage' = IF Signed(options).error = "none" THEN "signed" ELSE "refused"
      BY <2>6, Zenon DEF SelfSign, Signed
    <3>2. AtModule /\ elf.error = "none"
      BY <3>1 DEF Stages, AtInput, AtModule, AtContainer
    <3>3. container' = Signed(options)'
      BY <3>1, Zenon DEF Signed
    <3>4. AtContainer'
      <4>1. elf' = Converted' /\ elf'.error = "none" /\ rebuilt' = Nothing /\ verdict' = "none"
        BY <2>2, <3>1, <3>2, Zenon DEF AtModule, Unread
      <4>2. stage' = IF container'.error = "none" THEN "signed" ELSE "refused"
        BY <3>1
      <4>3. \E o \in SignOption : container' = Signed(o)'
        BY <3>3
      <4>4. QED
        BY <4>1, <4>2, <4>3, Zenon DEF AtContainer
    <3>5. QED
      BY <2>2, <3>1, <3>4 DEF Stages
  <2>7. CASE SelfInspect
    <3>1. stage = "signed" /\ UNCHANGED <<stage, input, elf, container, rebuilt>> /\ verdict' = Inspected
      BY <2>7, Zenon DEF SelfInspect, Inspected
    <3>2. AtContainer /\ container.error = "none" /\ rebuilt = Nothing
      <4>1. AtContainer
        BY <3>1, Zenon DEF Stages, AtInput, AtModule
      <4>2. QED
        BY <3>1, <4>1 DEF AtContainer
    <3>3. Inspected' = Inspected /\ \A o : Signed(o)' = Signed(o)
      BY <3>1, Zenon DEF Inspected, Signed
    <3>4. AtContainer'
      BY <2>2, <3>1, <3>2, <3>3, Zenon DEF AtContainer
    <3>5. QED
      BY <2>2, <3>1, <3>4 DEF Stages
  <2>8. ASSUME NEW strip \in BOOLEAN, SelfExtract(strip) PROVE Stages'
    <3>1. stage = "signed" /\ UNCHANGED <<input, elf, container, verdict>> /\ rebuilt' = Extracted(strip)
          /\ stage' = IF Extracted(strip).error = "none" THEN "extracted" ELSE "refused"
      BY <2>8, Zenon DEF SelfExtract, Extracted
    <3>2. AtContainer /\ container.error = "none" /\ verdict \in {"none", Inspected}
      <4>1. AtContainer
        BY <3>1, Zenon DEF Stages, AtInput, AtModule
      <4>2. QED
        BY <3>1, <4>1 DEF AtContainer
    <3>3. Inspected' = Inspected /\ (\A o : Signed(o)' = Signed(o)) /\ \A s : Extracted(s)' = Extracted(s)
      BY <3>1, Zenon DEF Inspected, Signed, Extracted
    <3>4. AtContainer'
      <4>1. elf' = Converted' /\ elf'.error = "none" /\ (\E o \in SignOption : container' = Signed(o)')
            /\ container'.error = "none" /\ verdict' \in {"none", Inspected'}
        BY <2>2, <3>1, <3>2, <3>3, Zenon DEF AtContainer
      <4>2. rebuilt' = Extracted(strip)' /\ stage' = IF rebuilt'.error = "none" THEN "extracted" ELSE "refused"
        BY <3>1, <3>3
      <4>3. QED
        BY <4>1, <4>2, Zenon DEF AtContainer
    <3>5. QED
      BY <2>2, <3>1, <3>4 DEF Stages
  <2>9. QED
    BY <2>1, <2>4, <2>5, <2>6, <2>7, <2>8, Zenon DEF Next
<1>3. QED
  BY <1>1, <1>2, PTL DEF Spec

(* RuntimeBound holds of whatever libc_builder makes: every call goes through   *)
(* the word of its own import, the words are all different and relocatable, and  *)
(* tables, objects and segments lie apart.                                   *)
THEOREM RuntimeBoundCorrect == Spec => []RuntimeBound
<1>1. Stages => RuntimeBound
  <2> SUFFICES ASSUME Stages, ~Title, Made PROVE RuntimeBound
    BY Zenon DEF RuntimeBound
  <2>1. PICK manifest \in Manifest : input = [kind |-> "runtime", manifest |-> manifest]
    <3>1. SUFFICES ASSUME NEW file, NEW hash, NEW stubs, input = [kind |-> "title", file |-> file, hash |-> hash, stubs |-> stubs] PROVE FALSE
      BY Zenon DEF Stages, Inputs
    <3>2. input.kind = "title"
      BY <3>1
    <3>3. QED
      BY <3>2 DEF Title
  <2>2. manifest \in RuntimeInput
    BY ManifestAssumption DEF RuntimeInput
  <2>3. elf = Built(manifest)
    <3>1. elf # Nothing
      <4>1. [error |-> "nothing made"].error = "nothing made"
        OBVIOUS
      <4>2. elf.error = "none" /\ Nothing = [error |-> "nothing made"]
        BY DEF Made, Nothing
      <4>3. QED
        BY <4>1, <4>2
    <3>2. elf = Converted
      BY <3>1, Zenon DEF Stages, AtInput, AtModule, AtContainer
    <3>3. input.kind # "title" /\ input.manifest = manifest
      BY <2>1
    <3>4. QED
      BY <3>2, <3>3 DEF Converted
  <2>4. QED
    BY <2>1, <2>2, <2>3, RuntimeSound DEF Made
<1>2. QED
  BY <1>1, StagesCorrect, PTL

(* An ELF that can be signed comes back from its container.                  *)
Bare == [size |-> elf.size, headers |-> elf.headers]
Signables == elf.error = "none" => Signable(Bare)

(* RoundTrip looks at the ends of what comes back; here is every byte of it.    *)
EveryByteReturns ==
  stage = "extracted" =>
      \A range \in Kept : \A p \in range.at .. End(range) - 1 : p < rebuilt.size /\ RebuiltByte(container, rebuilt, p) = p

(* Both hold at each stage of the chain.                                     *)
LEMMA RoundTripHolds ==
  ASSUME Stages, Signables
  PROVE  RoundTrip /\ EveryByteReturns
<1> DEFINE regions == {[at |-> s.offset, size |-> s.size] : s \in ToSet(container.segments)}
           Apartness == /\ \A a, b \in regions : a = b \/ Disjoint(a, b)
                        /\ \A a \in regions : a.at >= container.digests /\ End(a) <= container.declared
                        /\ HeaderSize + EntrySize * Len(container.segments) = container.headersAt
           Return == \A range \in Kept : \A p \in Edges(range) : p < rebuilt.size /\ RebuiltByte(container, rebuilt, p) = p
<1>1. CASE AtInput
  <2>1. stage = "input" /\ verdict = "none"
    BY <1>1, Zenon DEF AtInput, Unread
  <2>2. QED
    BY <2>1, Zenon DEF RoundTrip, EveryByteReturns
<1>2. CASE AtModule
  <2>1. verdict = "none" /\ stage = IF elf.error = "none" THEN "module" ELSE "refused"
    BY <1>2, Zenon DEF AtModule, Unread
  <2>2. stage # "extracted" /\ stage # "signed"
    BY <2>1
  <2>3. QED
    BY <2>1, <2>2, Zenon DEF RoundTrip, EveryByteReturns, Made
<1>3. CASE AtContainer
  <2> DEFINE e == Bare
  <2>1. Signable(e)
    BY <1>3, Zenon DEF AtContainer, Signables
  <2>2. PICK o \in SignOption : container = Sign(e, o)
    BY <1>3, Zenon DEF AtContainer, Signed, Bare
  <2> HIDE DEF e
  <2>3. /\ container.error = "none" /\ container.headers = e.headers /\ container.headersAt = HeadersAt(e, o)
        /\ container.segments = TableOf(e, o) /\ container.declared = Cursed(e, o)[Count(e, o)]
        /\ container.digests = StartOf(e, o) /\ container.copies = CopiesOf(e, o)
        /\ Extract(container) = [error |-> "none", size |-> ExtractedSize(e.headers), headers |-> e.headers, copies |-> Back(e, o)]
        /\ Digest(container, Extract(container)) = container.digest
    BY <2>1, <2>2, SealedIs
  <2> DEFINE again == Extract(container)
  <2>4. again.error = "none" /\ again.copies = Back(e, o) /\ again.size = ExtractedSize(e.headers)
    BY <2>3
  <2>5. Inspected = "valid"
    BY <2>3, <2>4, Zenon DEF Inspected
  <2>6. verdict # "INVALID"
    BY <1>3, <2>5 DEF AtContainer
  <2>7. Apartness
    BY <2>1, <2>3, RegionsApart
  <2>8. ASSUME NEW strip \in BOOLEAN
        PROVE  /\ Extracted(strip).error = "none" /\ Extracted(strip).copies = Back(e, o)
               /\ \A p : Reached(e, p) => p < Extracted(strip).size
    <3>1. CASE strip
      <4>1. Extracted(strip) = StripSections(again)
        BY <2>4, <3>1, Zenon DEF Extracted
      <4> HIDE DEF again
      <4>2. again = [error |-> "none", size |-> ExtractedSize(e.headers), headers |-> e.headers, copies |-> Back(e, o)]
        BY <2>3 DEF again
      <4>3. QED
        BY <2>1, <4>1, <4>2, StripIs
    <3>2. CASE ~strip
      <4>1. Extracted(strip) = again
        BY <3>2, Zenon DEF Extracted
      <4> HIDE DEF again
      <4>2. \A p : Reached(e, p) => p < ExtractedSize(e.headers)
        BY <2>1, Extents
      <4>3. QED
        BY <2>4, <4>1, <4>2
    <3>3. QED
      BY <3>1, <3>2
  <2>9. stage # "refused"
    <3>1. \A strip \in BOOLEAN : Extracted(strip).error = "none"
      BY <2>8
    <3>2. QED
      BY <1>3, <2>3, <3>1 DEF AtContainer
  <2>10. ASSUME stage = "extracted", NEW range \in Kept, NEW p \in range.at .. End(range) - 1
         PROVE  p < rebuilt.size /\ RebuiltByte(container, rebuilt, p) = p
    <3>1. PICK strip \in BOOLEAN : rebuilt = Extracted(strip)
      BY <1>3, <2>3, <2>10 DEF AtContainer
    <3>2. e.headers = elf.headers
      BY DEF e, Bare
    <3>3. Selected(elf, [procparam |-> FALSE]) = Selected(e, [procparam |-> FALSE])
      BY <3>2, Zenon DEF Selected
    <3>4. range \in KeptOf(e)
      BY <3>2, <3>3, Zenon DEF Kept, KeptOf
    <3>6. Reached(e, p) /\ \E c \in Range(Back(e, o)) : Covers(c, p)
      BY <2>1, <2>10, <3>4, ComesBack
    <3>7. p \in Nat
      BY <3>6 DEF Reached
    <3>8. RebuiltByte(container, rebuilt, p) = p
      BY <2>1, <2>3, <2>8, <3>1, <3>6, <3>7, Rebuilds
    <3>9. p < rebuilt.size
      BY <2>8, <3>1, <3>6
    <3>10. QED
      BY <3>8, <3>9
  <2>11. EveryByteReturns
    BY <2>10, Zenon DEF EveryByteReturns
  <2>12. stage = "extracted" => Return
    <3>1. \A range : Edges(range) \subseteq range.at .. End(range) - 1
      BY DEF Edges
    <3>2. QED
      BY <2>11, <3>1, Zenon DEF EveryByteReturns
  <2> HIDE DEF Apartness, Return
  <2>13. RoundTrip
    BY <2>6, <2>7, <2>9, <2>12, Zenon DEF RoundTrip, Apartness, Return
  <2>14. QED
    BY <2>11, <2>13
<1>4. QED
  BY <1>1, <1>2, <1>3 DEF Stages

(* How a title came about, or why there is none.                             *)
LEMMA TitleMade ==
  ASSUME Inputs, Title, elf = Converted
  PROVE  \E program \in Program, stubs \in StubList :
            /\ input.file = PieFile(program) /\ input.hash = program.hash /\ input.stubs = stubs
            /\ \/ elf.error = "unreadable image" /\ ~TablesComplete(PieFile(program))
               \/ elf.error = "stub without SONAME" /\ \E i \in DOMAIN StubsRead : StubsRead[i].error # "none"
               \/ elf.error = "no stub" /\ StubsRead = <<>>
               \/ /\ TablesComplete(PieFile(program))
                  /\ StubsRead # <<>> /\ \A i \in DOMAIN StubsRead : StubsRead[i].error = "none"
                  /\ elf = WriteExecutable(ReadImage(PieFile(program)), program.hash, StubsRead)
<1>1. PICK program \in Program, stubs \in StubList :
         input = [kind |-> "title", file |-> PieFile(program), hash |-> program.hash, stubs |-> stubs]
  <2>1. SUFFICES ASSUME NEW manifest, input = [kind |-> "runtime", manifest |-> manifest] PROVE FALSE
    BY Zenon DEF Inputs
  <2>2. input.kind = "runtime"
    BY <2>1
  <2>3. QED
    BY <2>2 DEF Title
<1> DEFINE file == PieFile(program)
           image == ReadImage(file)
           written == WriteExecutable(image, program.hash, StubsRead)
           broken == \E i \in DOMAIN StubsRead : StubsRead[i].error # "none"
<1> HIDE DEF file
<1>2. input = [kind |-> "title", file |-> file, hash |-> program.hash, stubs |-> stubs]
  BY <1>1 DEF file
<1>3. input.file = file /\ input.hash = program.hash /\ input.stubs = stubs /\ input.kind = "title"
  BY <1>2
<1>4. elf = IF image.error # "none" THEN image
            ELSE IF broken THEN [error |-> "stub without SONAME"]
            ELSE IF StubsRead = <<>> THEN [error |-> "no stub"]
            ELSE written
  BY <1>3, Zenon DEF Converted, Linked
<1>5. /\ ~TablesComplete(file) => image.error = "unreadable image"
      /\ TablesComplete(file) => image.error = "none"
  BY ImageIs, Zenon DEF file
<1>6. \A e : [error |-> e].error = e
  OBVIOUS
<1> HIDE DEF image, written, broken
<1>7. \/ elf.error = "unreadable image" /\ ~TablesComplete(file)
      \/ elf.error = "stub without SONAME" /\ broken
      \/ elf.error = "no stub" /\ StubsRead = <<>>
      \/ TablesComplete(file) /\ StubsRead # <<>> /\ ~broken /\ elf = written
  <2>1. CASE ~TablesComplete(file)
    <3>1. image.error = "unreadable image" /\ image.error # "none"
      BY <1>5, <2>1
    <3>2. QED
      BY <1>4, <2>1, <3>1, Zenon
  <2>2. CASE TablesComplete(file)
    <3>1. image.error = "none"
      BY <1>5, <2>2
    <3>2. QED
      BY <1>4, <1>6, <2>2, <3>1, Zenon
  <2>3. QED
    BY <2>1, <2>2
<1>8. QED
  BY <1>3, <1>7, Zenon DEF file, image, written, broken

(* The pieces of a title that was made.                                      *)
LEMMA TitleWritten ==
  ASSUME NEW program \in Program, NEW stubs, TablesComplete(PieFile(program)),
         WriteExecutable(ReadImage(PieFile(program)), program.hash, stubs).error = "none"
  PROVE  LET image == ReadImage(PieFile(program))
         IN  /\ WriteExecutable(image, program.hash, stubs) = Written(image, program.hash, stubs)
             /\ ~Cramped(image) /\ ~Unprovided(image, stubs) /\ ~Exporting(image) /\ ~Unbound(image, stubs)
<1> DEFINE image == ReadImage(PieFile(program))
           w == WriteExecutable(image, program.hash, stubs)
           made == w = Written(image, program.hash, stubs) /\ ~Cramped(image) /\ ~Unprovided(image, stubs)
                   /\ ~Exporting(image) /\ ~Unbound(image, stubs)
<1> HIDE DEF image
<1>1. \/ w.error \in {"section missing", "text misplaced", "no room for the parameters", "needed module missing",
                      "application exports", "import missing", "segment not page aligned"}
      \/ made
  BY WriterIs, Zenon
<1>2. w.error = "none"
  BY DEF image
<1> HIDE DEF w, made
<1>3. made
  BY <1>1, <1>2
<1>4. QED
  BY <1>3, Zenon DEF made, w, image

(* Whatever the tools make can be signed.                                    *)
LEMMA MadeSignable ==
  ASSUME Inputs, elf = Converted
  PROVE  Signables
<1> SUFFICES ASSUME elf.error = "none" PROVE Signable(Bare)
  BY DEF Signables
<1>1. CASE Title
  <2>1. PICK program \in Program : /\ TablesComplete(PieFile(program))
                                   /\ elf = WriteExecutable(ReadImage(PieFile(program)), program.hash, StubsRead)
    <3> DEFINE unread == elf.error \in {"unreadable image", "stub without SONAME", "no stub"}
    <3>1. ~unread
      OBVIOUS
    <3> HIDE DEF unread
    <3>2. elf.error = "unreadable image" \/ elf.error = "stub without SONAME" \/ elf.error = "no stub" => unread
      BY DEF unread
    <3>3. QED
      BY <1>1, <3>1, <3>2, TitleMade, Zenon
  <2> DEFINE image == ReadImage(PieFile(program))
             sizes == SizesOf(program)
             o == Emit(image, program.hash, ModulesOf(image, StubsRead), ImportsOf(image, StubsRead), Regions(image))
  <2>2. Buildable(sizes)
    BY SizesAre
  <2>3. image.sections = LinkedPie(sizes)
    BY <2>1, ImageIs
  <2>4. Countable(image, ModulesOf(image, StubsRead), ImportsOf(image, StubsRead))
    BY <2>1, TitleCountable
  <2>5. elf = o /\ ~(RelroEnd(Regions(image)) > Regions(image).dataStart)
    BY <2>1, TitleWritten, Zenon DEF Written, Cramped
  <2> HIDE DEF image, sizes
  <2>6. Arranged([size |-> o.size, headers |-> o.headers])
    BY <2>2, <2>3, <2>4, <2>5, TitleArranged
  <2>7. Arranged(Bare)
    BY <2>5, <2>6, Zenon DEF Bare
  <2>8. QED
    BY <2>7, ArrangedSignable
<1>2. CASE ~Title
  <2>1. PICK manifest \in Manifest : input = [kind |-> "runtime", manifest |-> manifest]
    <3>1. SUFFICES ASSUME NEW file, NEW hash, NEW stubs, input = [kind |-> "title", file |-> file, hash |-> hash, stubs |-> stubs] PROVE FALSE
      BY Zenon DEF Inputs
    <3>2. input.kind = "title"
      BY <3>1
    <3>3. QED
      BY <1>2, <3>2 DEF Title
  <2>2. manifest \in RuntimeInput
    BY ManifestAssumption DEF RuntimeInput
  <2>3. elf = Built(manifest)
    <3>1. input.kind # "title" /\ input.manifest = manifest
      BY <2>1
    <3>2. QED
      BY <3>1 DEF Converted
  <2>4. elf.size = RuntimeFileSize /\ elf.headers = RuntimeHeaders
    BY <2>2, <2>3, BuiltFrom
  <2>5. Arranged(Bare)
    BY <2>4, RuntimeArranged, Zenon DEF Bare
  <2>6. QED
    BY <2>5, ArrangedSignable
<1>3. QED
  BY <1>1, <1>2

(* What can be signed is signed, and what was made can be.                    *)
LEMMA StagesReturn ==
  ASSUME Stages
  PROVE  RoundTrip /\ EveryByteReturns
<1>1. CASE AtInput
  <2>1. Nothing.error = "nothing made"
    BY DEF Nothing
  <2>2. elf.error # "none"
    BY <1>1, <2>1 DEF AtInput
  <2>3. QED
    BY <2>2, RoundTripHolds DEF Signables
<1>2. CASE ~AtInput
  <2>1. Inputs /\ elf = Converted
    BY <1>2, Zenon DEF Stages, AtModule, AtContainer
  <2>2. QED
    BY <2>1, MadeSignable, RoundTripHolds
<1>3. QED
  BY <1>1, <1>2

(* RoundTrip holds: whatever the tools make is signed, the regions of its       *)
(* container do not overlap, and what comes back is what went in.               *)
THEOREM RoundTripCorrect == Spec => []RoundTrip
<1>1. Stages => RoundTrip
  BY StagesReturn
<1>2. QED
  BY <1>1, StagesCorrect, PTL

(* Every byte of a segment, of the headers and of the version records that      *)
(* self-extract returns is the byte of the signed ELF at that position.         *)
THEOREM ExtractionWhole == Spec => []EveryByteReturns
<1>1. Stages => EveryByteReturns
  BY StagesReturn
<1>2. QED
  BY <1>1, StagesCorrect, PTL

(* What the two ids in the name of an import say.                             *)
Exporters(name, modules) == {i \in DOMAIN modules : name \in modules[i].exports}
KnownBy(name, modules, first) ==
  /\ modules[first] = modules[Min(Exporters(name, modules))]
  /\ Import(name, modules) = [name |-> name, library |-> EncodeId(first - 1), module |-> EncodeId(first)]

(* The ids in an import's name are those of the first module equal to its    *)
(* provider.                                                                 *)
LEMMA ImportIs ==
  ASSUME NEW n \in Nat, NEW modules, DOMAIN modules = 1 .. n, NEW name, ImportFrom(name, modules) # 0
  PROVE  \E first \in 1 .. n : KnownBy(name, modules, first)
<1> DEFINE exporting == {i \in DOMAIN modules : name \in modules[i].exports}
           p == Min(exporting)
           same == {i \in DOMAIN modules : modules[i] = modules[p]}
           first == Min(same)
<1>1. exporting # {} /\ ImportFrom(name, modules) = p
  BY DEF ImportFrom
<1>2. exporting \in SUBSET Nat
  OBVIOUS
<1> HIDE DEF p
<1>3. p \in exporting
  BY <1>1, <1>2, MinIs DEF p
<1>4. same \in SUBSET Nat /\ p \in same
  BY <1>3
<1>5. first \in same
  BY <1>4, MinIs
<1>6. first \in 1 .. n /\ modules[first] = modules[p]
  BY <1>5
<1>7. Import(name, modules) = [name |-> name, library |-> EncodeId(first - 1), module |-> EncodeId(first)]
  BY <1>1, Zenon DEF Import
<1> HIDE DEF first
<1>8. QED
  BY <1>6, <1>7, Zenon DEF p, exporting, KnownBy, Exporters

(* The records of modules and libraries are told apart by their ids.          *)
RecordsFound(modules, strings, first) ==
  /\ ModuleWith(first).id = first /\ ModuleWith(first).soname = StringOffset(strings, Soname(modules[first]))
  /\ ModuleWith(first).name = StringOffset(strings, Name(modules[first].module))
  /\ LibraryWith(first - 1).module = first
  /\ LibraryWith(first - 1).name = StringOffset(strings, Name(modules[first].library))

(* The records of a module's id name that module and its library.            *)
LEMMA RecordsTell ==
  ASSUME NEW n \in Nat, NEW modules, DOMAIN modules = 1 .. n, NEW strings, NEW first \in 1 .. n,
         elf.modules = ModuleRecords(modules, strings), elf.libraries = LibraryRecords(modules, strings)
  PROVE  RecordsFound(modules, strings, first)
<1> DEFINE ms == elf.modules
           ls == elf.libraries
           a(i) == StringOffset(strings, Soname(modules[i]))
           b(i) == StringOffset(strings, Name(modules[i].module))
           c(i) == StringOffset(strings, Name(modules[i].library))
<1>1. ms = [i \in 1 .. n |-> [id |-> i, soname |-> a(i), name |-> b(i)]]
  BY Zenon DEF ModuleRecords
<1>2. ls = [i \in 1 .. n |-> [id |-> i - 1, module |-> i, name |-> c(i)]]
  BY Zenon DEF LibraryRecords
<1> HIDE DEF ms, ls, a, b, c
<1>3. DOMAIN ms = 1 .. n /\ \A i \in 1 .. n : ms[i].id = i /\ ms[i].soname = a(i) /\ ms[i].name = b(i)
  BY <1>1
<1>4. DOMAIN ls = 1 .. n /\ \A i \in 1 .. n : ls[i].id = i - 1 /\ ls[i].module = i /\ ls[i].name = c(i)
  BY <1>2
<1>5. ModuleWith(first) = ms[first]
  <2>1. \A m \in ToSet(ms) : m.id = first => m = ms[first]
    BY <1>3 DEF ToSet
  <2>2. ms[first] \in ToSet(ms) /\ ms[first].id = first
    BY <1>3 DEF ToSet
  <2>3. ModuleWith(first) = CHOOSE m \in ToSet(ms) : m.id = first
    BY DEF ModuleWith, ms
  <2>4. QED
    BY <2>1, <2>2, <2>3
<1>6. LibraryWith(first - 1) = ls[first]
  <2>1. \A m \in ToSet(ls) : m.id = first - 1 => m = ls[first]
    BY <1>4 DEF ToSet
  <2>2. ls[first] \in ToSet(ls) /\ ls[first].id = first - 1
    BY <1>4 DEF ToSet
  <2>3. LibraryWith(first - 1) = CHOOSE m \in ToSet(ls) : m.id = first - 1
    BY DEF LibraryWith, ls
  <2>4. QED
    BY <2>1, <2>2, <2>3
<1>7. QED
  BY <1>3, <1>4, <1>5, <1>6, Zenon DEF a, b, c, RecordsFound

(* The writer takes for each needed module the stub that bears its name.      *)
LEMMA ModulesNeeded ==
  ASSUME NEW program \in Program, TablesComplete(PieFile(program)), input.file = PieFile(program),
         ~Unprovided(ReadImage(PieFile(program)), StubsRead)
  PROVE  Needed = ModulesOf(ReadImage(PieFile(program)), StubsRead)
<1> DEFINE image == ReadImage(PieFile(program))
           needs == Needs(program.dynamic)
           n == Len(needs)
           S == StubsRead
           found(i) == {k \in DOMAIN S : S[k].soname = Normalized(needs[i].value)}
           providers == ProvidersOf(image, S)
<1>1. image.needed = [i \in 1 .. n |-> Normalized(needs[i].value)] /\ PieFile(program).dynamic = program.dynamic
  BY ImageIs
<1>2. n \in Nat /\ DOMAIN image.needed = 1 .. n /\ DOMAIN providers = 1 .. n
  BY TitleCountable
<1>3. Listed(program.dynamic)
  BY ProgramAssumption, Zenon
<1>4. DOMAIN needs = 1 .. n
  BY <1>3, NeedsAre
<1>5. Needed = [i \in DOMAIN Needs(input.file.dynamic) |->
                  S[Min({k \in DOMAIN S : S[k].soname = Normalized(Needs(input.file.dynamic)[i].value)})]]
  BY Zenon DEF Needed
<1>6. input.file.dynamic = program.dynamic
  BY <1>1
<1>7. Needed = [i \in 1 .. n |-> S[Min(found(i))]]
  BY <1>4, <1>5, <1>6, Zenon
<1>8. providers = [i \in 1 .. n |-> ProviderOf(image.needed[i], S)]
  BY <1>2, Zenon DEF ProvidersOf
<1>9. ASSUME NEW i \in 1 .. n PROVE providers[i] = Min(found(i))
  <2>1. providers[i] # 0
    BY <1>2, Zenon DEF Unprovided
  <2>2. image.needed[i] = Normalized(needs[i].value)
    BY <1>1
  <2>3. providers[i] = IF found(i) = {} THEN 0 ELSE Min(found(i))
    BY <1>8, <2>2, Zenon DEF ProviderOf
  <2>4. QED
    BY <2>1, <2>3, Zenon
<1>10. ModulesOf(image, S) = [i \in 1 .. n |-> S[providers[i]]]
  BY <1>2, Zenon DEF ModulesOf
<1> HIDE DEF image, S, n, found, providers
<1>11. Needed = ModulesOf(image, S)
  BY <1>7, <1>9, <1>10
<1>12. QED
  BY <1>11 DEF image, S

(* The console finds every import of a title that was made.                   *)
LEMMA ImportsHold ==
  ASSUME Inputs, Title, elf = Converted, Made
  PROVE  ImportsBound
<1>1. PICK program \in Program : /\ input.file = PieFile(program) /\ input.hash = program.hash /\ TablesComplete(PieFile(program))
                                 /\ elf = WriteExecutable(ReadImage(PieFile(program)), program.hash, StubsRead)
  <3> DEFINE unread == elf.error \in {"unreadable image", "stub without SONAME", "no stub"}
  <3>1. ~unread
    BY DEF Made
  <3> HIDE DEF unread
  <3>2. elf.error = "unreadable image" \/ elf.error = "stub without SONAME" \/ elf.error = "no stub" => unread
    BY DEF unread
  <3>3. QED
    BY <3>1, <3>2, TitleMade, Zenon
<1> DEFINE image == ReadImage(PieFile(program))
           modules == ModulesOf(image, StubsRead)
           imports == ImportsOf(image, StubsRead)
           symbols == SymbolsOf(image)
           strings == Strings(modules, imports)
           n == Len(Needs(program.dynamic))
           m == Len(program.symbols) - 1
           count == Len(program.symbols)
<1>2. /\ elf = Written(image, program.hash, StubsRead) /\ ~Unprovided(image, StubsRead) /\ ~Unbound(image, StubsRead)
  BY <1>1, TitleWritten, Zenon DEF Made
<1>3. /\ n \in Nat /\ m \in Nat /\ DOMAIN modules = 1 .. n /\ DOMAIN symbols = 1 .. m /\ DOMAIN imports = 1 .. m
      /\ program.symbols \in Seq(ToSet(program.symbols))
  BY <1>1, TitleCountable
<1>4. image.symbols = program.symbols /\ PieFile(program).symbols = program.symbols
  BY <1>1, ImageIs
<1>5. Needed = modules
  BY <1>1, <1>2, ModulesNeeded
<1>6. /\ elf.strings = strings /\ elf.modules = ModuleRecords(modules, strings) /\ elf.libraries = LibraryRecords(modules, strings)
      /\ elf.imports = imports /\ elf.hash = BuildHash(count, program.hash)
  <2> DEFINE o == Emit(image, program.hash, modules, imports, Regions(image))
  <2>1. /\ o.strings = strings /\ o.modules = ModuleRecords(modules, strings) /\ o.libraries = LibraryRecords(modules, strings)
        /\ o.imports = imports /\ o.hash = BuildHash(Len(image.symbols), program.hash)
    <3> DEFINE r == Regions(image)
    <3> HIDE DEF image, modules, imports, r
    <3>1. QED
      BY EmitIs
  <2>2. elf = o
    BY <1>2, Zenon DEF Written
  <2> HIDE DEF o, strings, modules, imports
  <2>3. QED
    BY <1>4, <2>1, <2>2
<1>7. count \in Nat \ {0} /\ m = count - 1 /\ program.hash \in [1 .. count - 1 -> Nat] /\ input.file.symbols = program.symbols
  <2>1. count \in Nat
    BY <1>3
  <2>2. program.hash \in [1 .. count - 1 -> Nat]
    BY ProgramAssumption, Zenon
  <2>3. input.file.symbols = program.symbols
    BY <1>1, <1>4
  <2>4. QED
    BY <1>3, <2>1, <2>2, <2>3
<1>8. /\ \A i \in 1 .. m : symbols[i] = program.symbols[i + 1] /\ imports[i] = Import(symbols[i].name, modules)
      /\ \A i \in 1 .. m : ImportFrom(symbols[i].name, modules) # 0
  <2>1. symbols = [i \in 1 .. m |-> program.symbols[i + 1]]
    BY <1>4, Zenon DEF SymbolsOf
  <2>2. imports = [i \in 1 .. m |-> Import(symbols[i].name, modules)]
    BY <1>3, Zenon DEF ImportsOf
  <2>3. \A i \in 1 .. m : ImportFrom(symbols[i].name, modules) # 0
    BY <1>2, <1>3, Zenon DEF Unbound
  <2> HIDE DEF symbols, imports, modules, m
  <2>4. QED
    BY <2>1, <2>2, <2>3
<1> HIDE DEF image, modules, imports, symbols, strings, n, m, count
<1> SUFFICES ASSUME NEW i \in DOMAIN elf.imports
             PROVE  LET import == elf.imports[i]
                        all == Len(input.file.symbols)
                        chain == ChainOf(elf.hash, all, input.hash[i])
                        exporting == {k \in DOMAIN Needed : import.name \in Needed[k].exports}
                        provider == Needed[Min(exporting)]
                        module == ModuleWith(Decoded(import.module))
                        library == LibraryWith(Decoded(import.library))
                    IN  /\ (\E k \in 0 .. all : chain[k] = i) /\ chain[all] = 0
                        /\ import.name = input.file.symbols[i + 1].name
                        /\ module.soname = StringOffset(elf.strings, Soname(provider))
                        /\ module.name = StringOffset(elf.strings, Name(provider.module))
                        /\ library.module = module.id /\ library.name = StringOffset(elf.strings, Name(provider.library))
  BY Zenon DEF ImportsBound
<1> DEFINE import == elf.imports[i]
           all == Len(input.file.symbols)
           name == symbols[i].name
           exporting == {k \in DOMAIN modules : name \in modules[k].exports}
           sought == {k \in DOMAIN Needed : import.name \in Needed[k].exports}
           chain == ChainOf(elf.hash, all, input.hash[i])
<1>9. i \in 1 .. m /\ import = Import(name, modules) /\ all = count /\ name = input.file.symbols[i + 1].name
      /\ ImportFrom(name, modules) # 0
  BY <1>3, <1>6, <1>7, <1>8 DEF count
<1>10. (\E k \in 0 .. all : chain[k] = i) /\ chain[all] = 0
  <2> DEFINE walk == ChainOf(BuildHash(count, program.hash), count, program.hash[i])
  <2>1. i \in 1 .. count - 1
    BY <1>7, <1>9
  <2>2. (\E k \in 0 .. count : walk[k] = i) /\ walk[count] = 0
    BY <1>7, <2>1, ChainFinds
  <2>3. chain = walk
    BY <1>1, <1>6, <1>9
  <2> HIDE DEF walk, chain, all
  <2>4. QED
    BY <1>9, <2>2, <2>3
<1> HIDE DEF name, import, all, chain
<1>11. PICK first \in 1 .. n : KnownBy(name, modules, first)
  BY <1>3, <1>9, ImportIs
<1>12. import.name = name /\ import.library = EncodeId(first - 1) /\ import.module = EncodeId(first)
  BY <1>9, <1>11 DEF KnownBy
<1>13. Decoded(import.library) = first - 1 /\ Decoded(import.module) = first
  <2>1. first \in Nat /\ first - 1 \in Nat
    BY <1>3
  <2>2. QED
    BY <1>12, <2>1, IdsComeBack
<1>14. /\ ModuleWith(first).id = first /\ ModuleWith(first).soname = StringOffset(strings, Soname(modules[first]))
       /\ ModuleWith(first).name = StringOffset(strings, Name(modules[first].module))
       /\ LibraryWith(first - 1).module = first
       /\ LibraryWith(first - 1).name = StringOffset(strings, Name(modules[first].library))
  <2>1. RecordsFound(modules, strings, first)
    BY <1>3, <1>6, RecordsTell
  <2>2. QED
    BY <2>1, Zenon DEF RecordsFound
<1>15. sought = exporting
  BY <1>5, <1>12
<1>16. Needed[Min(sought)] = modules[first]
  BY <1>5, <1>11, <1>15, Zenon DEF KnownBy, Exporters
<1> HIDE DEF sought, exporting
<1>17. /\ (\E k \in 0 .. all : chain[k] = i) /\ chain[all] = 0
       /\ import.name = input.file.symbols[i + 1].name
       /\ ModuleWith(Decoded(import.module)).soname = StringOffset(elf.strings, Soname(Needed[Min(sought)]))
       /\ ModuleWith(Decoded(import.module)).name = StringOffset(elf.strings, Name(Needed[Min(sought)].module))
       /\ LibraryWith(Decoded(import.library)).module = ModuleWith(Decoded(import.module)).id
       /\ LibraryWith(Decoded(import.library)).name = StringOffset(elf.strings, Name(Needed[Min(sought)].library))
  BY <1>6, <1>9, <1>10, <1>12, <1>13, <1>14, <1>16
<1>18. QED
  BY <1>17, Zenon DEF import, all, chain, sought

(* ImportsBound holds: the console finds every import of a title by its hash    *)
(* value, and its ids lead to the first needed module that exports it.          *)
THEOREM ImportsBoundCorrect == Spec => []ImportsBound
<1>1. Stages => ImportsBound
  <2> SUFFICES ASSUME Stages, Title, Made PROVE ImportsBound
    BY Zenon DEF ImportsBound
  <2>1. CASE AtInput
    <3>1. Nothing.error = "nothing made"
      BY DEF Nothing
    <3>2. elf.error # "none"
      BY <2>1, <3>1 DEF AtInput
    <3>3. QED
      BY <3>2 DEF Made
  <2>2. CASE ~AtInput
    <3>1. Inputs /\ elf = Converted
      BY <2>2, Zenon DEF Stages, AtModule, AtContainer
    <3>2. QED
      BY <3>1, ImportsHold
  <2>3. QED
    BY <2>1, <2>2
<1>2. QED
  BY <1>1, StagesCorrect, PTL

(* What is wrong with a title that the writer refuses.                        *)
Exports == UNION {StubsRead[i].exports : i \in DOMAIN StubsRead}
Sonames == {StubsRead[i].soname : i \in DOMAIN StubsRead}
CutOff == \E s \in ToSet(input.file.sections) : ~NoBits(s) /\ s.offset + s.size > input.file.size
Nameless == \E stub \in ToSet(input.stubs) : \A e \in ToSet(Entries(stub.dynamic)) : e.tag # 14
Narrow ==
  \E s \in ToSet(input.file.sections) : s.name = ".dynamic"
      /\ \E got \in ToSet(input.file.sections) : Relro(got) /\ End(got) + ProcessSize + BlocksSize > s.at
Lacking == \E e \in ToSet(Entries(input.file.dynamic)) : e.tag = 1 /\ Normalized(e.value) \notin Sonames
Unneeded(i) == \A e \in ToSet(Entries(input.file.dynamic)) : e.tag = 1 => ProviderOf(Normalized(e.value), StubsRead) # i
Foreign == ~({s.name : s \in ToSet(Tail(input.file.symbols))} \subseteq Exports) \/ \E i \in DOMAIN StubsRead : Unneeded(i)
Defining == \E s \in ToSet(Tail(input.file.symbols)) : s.defined

(* A refusal is justified when the fault it reports is there.                *)
LEMMA JustifiedBy ==
  ASSUME \/ elf.error = "unreadable image" /\ CutOff
         \/ elf.error = "no stub" /\ input.stubs = <<>>
         \/ elf.error = "stub without SONAME" /\ Nameless
         \/ elf.error = "no room for the parameters" /\ Narrow
         \/ elf.error = "needed module missing" /\ Lacking
         \/ elf.error = "import missing" /\ Foreign
         \/ elf.error = "application exports" /\ Defining
  PROVE  Justified
<1> DEFINE e == elf.error
           none == input.stubs = <<>>
<1>1. Justified = CASE e = "unreadable image" -> CutOff
                    [] e = "no stub" -> none
                    [] e = "stub without SONAME" -> Nameless
                    [] e = "no room for the parameters" -> Narrow
                    [] e = "needed module missing" -> Lacking
                    [] e = "import missing" -> Foreign
                    [] e = "application exports" -> Defining
                    [] OTHER -> FALSE
  BY Zenon DEF Justified, CutOff, Nameless, Narrow, Lacking, Foreign, Unneeded, Defining, Exports, Sonames
<1> HIDE DEF e, none
<1>2. QED
  BY <1>1 DEF e, none

(* A file that its tables do not fit into ends before one of its sections.     *)
LEMMA CutOffIs ==
  ASSUME NEW program \in Program, input.file = PieFile(program), ~TablesComplete(PieFile(program))
  PROVE  CutOff
<1> DEFINE sizes == SizesOf(program)
           image == [sections |-> LinkedPie(sizes)]
           stored == Stored(ToSet(image.sections))
           ends == {s.offset + s.size : s \in stored}
           P == Present(sizes)
<1>1. Buildable(sizes)
  BY SizesAre
<1> HIDE DEF sizes
<1>2. image.sections = LinkedPie(sizes)
  OBVIOUS
<1>3. sizes \in Sizing /\ 1 \in P
  BY <1>1 DEF Buildable
<1> HIDE DEF image
<1>4. /\ CopiedFileEnd(image) \in Nat
      /\ \A i \in P \ {14, 15} : EndAt(sizes, i) + Page <= CopiedFileEnd(image)
      /\ stored = SecsOf(sizes, P \ {14, 15})
  BY <1>1, <1>2, CopiedEnd
<1>5. \A s \in ToSet(LinkedPie(sizes)) : s.offset \in Nat /\ s.size \in Nat
  <2>1. TAKE s \in ToSet(LinkedPie(sizes))
  <2>2. PICK i \in P : s = Sec(sizes, i)
    BY <1>3, PieIs
  <2>3. QED
    BY <1>3, <2>2, SecIs
<1>6. \A x \in ends : x \in Int /\ x <= CopiedFileEnd(image)
  <2>1. TAKE x \in ends
  <2>2. PICK s \in stored : x = s.offset + s.size
    OBVIOUS
  <2>3. PICK i \in P \ {14, 15} : s = Sec(sizes, i)
    BY <1>4, <2>2 DEF SecsOf
  <2>4. s.offset = s.at + Page /\ s.at \in Nat /\ s.size \in Nat
    BY <1>3, <2>3, SecIs
  <2>5. EndAt(sizes, i) = s.at + s.size
    BY <2>3 DEF EndAt
  <2>6. QED
    BY <1>4, <2>2, <2>3, <2>4, <2>5 DEF Page
<1>7. ends # {}
  <2>1. 1 \in P \ {14, 15}
    BY <1>3
  <2>2. Sec(sizes, 1) \in stored
    BY <1>4, <2>1 DEF SecsOf
  <2> HIDE DEF stored
  <2>3. QED
    BY <2>2
<1>8. Max(ends) \in Int
  <2> DEFINE b == CopiedFileEnd(image)
  <2> HIDE DEF ends
  <2>1. ends \in SUBSET Int /\ ends # {} /\ b \in Int /\ \A x \in ends : x <= b
    BY <1>4, <1>6, <1>7
  <2> HIDE DEF b
  <2>2. QED
    BY <2>1, MaxIs
<1>9. /\ PieFile(program).size = Max(ends) - program.cut /\ PieFile(program).sections = LinkedPie(sizes)
  BY <1>2 DEF PieFile, Stored, sizes
<1>10. program.cut \in Nat
  BY ProgramAssumption, Zenon
<1> DEFINE z == PieFile(program).size
<1> HIDE DEF ends
<1>11. z \in Int
  BY <1>8, <1>9, <1>10
<1>12. PICK s \in ToSet(LinkedPie(sizes)) : ~(NoBits(s) \/ s.offset + s.size <= z)
  BY <1>9, Zenon DEF TablesComplete
<1> HIDE DEF z
<1>13. ~NoBits(s) /\ s.offset + s.size > z
  BY <1>5, <1>11, <1>12
<1>14. QED
  BY <1>9, <1>13 DEF CutOff, z

(* The stubs as they were read.                                              *)
LEMMA StubsAre ==
  ASSUME Listed(input.stubs)
  PROVE  /\ Len(input.stubs) \in Nat /\ DOMAIN StubsRead = 1 .. Len(input.stubs)
         /\ \A i \in DOMAIN StubsRead : StubsRead[i] = ReadStub(input.stubs[i]) /\ input.stubs[i] \in ToSet(input.stubs)
         /\ StubsRead = <<>> => input.stubs = <<>>
<1>1. Len(input.stubs) \in Nat /\ DOMAIN input.stubs = 1 .. Len(input.stubs) /\ input.stubs \in Seq(ToSet(input.stubs))
  BY DEF Listed
<1>2. DOMAIN StubsRead = 1 .. Len(input.stubs)
  BY <1>1 DEF StubsRead
<1>3. \A i \in DOMAIN StubsRead : StubsRead[i] = ReadStub(input.stubs[i]) /\ input.stubs[i] \in ToSet(input.stubs)
  BY <1>1 DEF StubsRead, ToSet
<1>4. StubsRead = <<>> => input.stubs = <<>>
  <2> SUFFICES ASSUME StubsRead = <<>> PROVE input.stubs = <<>>
    OBVIOUS
  <2>1. DOMAIN StubsRead = {}
    OBVIOUS
  <2> DEFINE n == Len(input.stubs)
  <2>2. n \in Nat /\ 1 .. n = {}
    BY <1>1, <1>2, <2>1
  <2> HIDE DEF n
  <2>3. n = 0
    <3>1. n # 0 => 1 \in 1 .. n
      BY <2>2
    <3>2. QED
      BY <2>2, <3>1
  <2>4. QED
    BY <1>1, <2>3, EmptySeq DEF n
<1>5. QED
  BY <1>1, <1>2, <1>3, <1>4

(* A stub that is refused says no name.                                      *)
LEMMA NamelessIs ==
  ASSUME Listed(input.stubs), NEW i \in DOMAIN StubsRead, StubsRead[i].error # "none"
  PROVE  Nameless
<1> DEFINE stub == input.stubs[i]
           entries == Entries(stub.dynamic)
           sonames == {k \in DOMAIN entries : entries[k].tag = 14}
<1>1. StubsRead[i] = ReadStub(stub) /\ stub \in ToSet(input.stubs)
  BY StubsAre
<1> HIDE DEF stub
<1>2. sonames = {}
  <2> SUFFICES ASSUME sonames # {} PROVE FALSE
    OBVIOUS
  <2> DEFINE soname == Normalized(entries[Max(sonames)].value)
             exported(s) == s.defined /\ s.binding \in {"global", "weak"} /\ s.name # "unnamed"
             record == [error |-> "none", soname |-> soname, module |-> soname.base, library |-> soname.base,
                        exports |-> {s.name : s \in {s \in ToSet(stub.symbols) : exported(s)}}]
  <2>1. ReadStub(stub) = record
    BY Zenon DEF ReadStub
  <2>2. record.error = "none"
    OBVIOUS
  <2> HIDE DEF record
  <2>3. QED
    BY <1>1, <2>1, <2>2
<1>3. \A e \in ToSet(entries) : e.tag # 14
  BY <1>2 DEF ToSet
<1>4. QED
  BY <1>1, <1>3 DEF Nameless

(* No provider is found only where no stub has the name.                      *)
LEMMA NoProvider ==
  ASSUME NEW n \in Nat, NEW stubs, DOMAIN stubs = 1 .. n, NEW soname, ProviderOf(soname, stubs) = 0
  PROVE  \A i \in 1 .. n : stubs[i].soname # soname
<1> DEFINE found == {i \in DOMAIN stubs : stubs[i].soname = soname}
<1>1. found \in SUBSET Nat /\ 0 \notin found
  OBVIOUS
<1>2. found = {}
  <2> SUFFICES ASSUME found # {} PROVE FALSE
    OBVIOUS
  <2>1. Min(found) = 0
    BY DEF ProviderOf
  <2> HIDE DEF found
  <2>2. Min(found) \in found
    BY <1>1, MinIs
  <2>3. QED
    BY <1>1, <2>1, <2>2
<1>3. QED
  BY <1>2

(* No module is found for a name only where none exports it.                  *)
LEMMA NoExporter ==
  ASSUME NEW n \in Nat, NEW modules, DOMAIN modules = 1 .. n, NEW name, ImportFrom(name, modules) = 0
  PROVE  \A i \in 1 .. n : name \notin modules[i].exports
<1> DEFINE found == {i \in DOMAIN modules : name \in modules[i].exports}
<1>1. found \in SUBSET Nat /\ 0 \notin found
  OBVIOUS
<1>2. found = {}
  <2> SUFFICES ASSUME found # {} PROVE FALSE
    OBVIOUS
  <2>1. Min(found) = 0
    BY DEF ImportFrom
  <2> HIDE DEF found
  <2>2. Min(found) \in found
    BY <1>1, MinIs
  <2>3. QED
    BY <1>1, <2>1, <2>2
<1>3. QED
  BY <1>2

(* A needed module that no stub stands for.                                   *)
LEMMA LackingIs ==
  ASSUME NEW program \in Program, TablesComplete(PieFile(program)), input.file = PieFile(program),
         Listed(input.stubs), Unprovided(ReadImage(PieFile(program)), StubsRead)
  PROVE  Lacking
<1> DEFINE image == ReadImage(PieFile(program))
           needs == Needs(program.dynamic)
           n == Len(needs)
           k == Len(input.stubs)
<1>1. image.needed = [i \in 1 .. n |-> Normalized(needs[i].value)] /\ input.file.dynamic = program.dynamic
  <2>1. image.needed = [i \in 1 .. n |-> Normalized(needs[i].value)] /\ PieFile(program).dynamic = program.dynamic
    BY ImageIs
  <2> HIDE DEF image, needs, n
  <2>2. QED
    BY <2>1
<1>2. k \in Nat /\ DOMAIN StubsRead = 1 .. k
  BY StubsAre
<1>3. Listed(program.dynamic)
  BY ProgramAssumption, Zenon
<1>4. PICK i \in DOMAIN image.needed : ProviderOf(image.needed[i], StubsRead) = 0
  BY DEF Unprovided, ProvidersOf
<1> HIDE DEF image, n
<1>5. i \in 1 .. n /\ image.needed[i] = Normalized(needs[i].value)
  BY <1>1, <1>4
<1> HIDE DEF needs, k
<1>6. PICK j \in DOMAIN Entries(program.dynamic) : needs[i] = Entries(program.dynamic)[j] /\ Entries(program.dynamic)[j].tag = 1
  BY <1>3, <1>5, NeedsAre DEF needs, n
<1>7. \A m \in 1 .. k : StubsRead[m].soname # Normalized(needs[i].value)
  BY <1>2, <1>4, <1>5, NoProvider
<1>8. Normalized(needs[i].value) \notin Sonames
  BY <1>2, <1>7 DEF Sonames
<1>9. needs[i] \in ToSet(Entries(input.file.dynamic)) /\ needs[i].tag = 1
  BY <1>1, <1>6 DEF ToSet
<1>10. QED
  BY <1>8, <1>9 DEF Lacking

(* The imports of a title are the symbols behind the null symbol.             *)
LEMMA SymbolsAre ==
  ASSUME NEW program \in Program, TablesComplete(PieFile(program)), input.file = PieFile(program)
  PROVE  LET image == ReadImage(PieFile(program))
         IN  \A i \in DOMAIN SymbolsOf(image) : SymbolsOf(image)[i] \in ToSet(Tail(input.file.symbols))
<1> DEFINE image == ReadImage(PieFile(program))
           symbols == program.symbols
           m == Len(symbols) - 1
<1>1. image.symbols = symbols /\ input.file.symbols = symbols
  <2>1. image.symbols = symbols /\ PieFile(program).symbols = symbols
    BY ImageIs
  <2> HIDE DEF image
  <2>2. QED
    BY <2>1
<1>2. Listed(symbols) /\ symbols # <<>>
  BY ProgramAssumption, Zenon
<1>3. symbols \in Seq(ToSet(symbols)) /\ m \in Nat
  BY <1>2, LenProperties, EmptySeq DEF Listed
<1> HIDE DEF image, symbols
<1>4. SymbolsOf(image) = [i \in 1 .. m |-> symbols[i + 1]]
  BY <1>1, Zenon DEF SymbolsOf
<1>5. DOMAIN Tail(symbols) = 1 .. m /\ \A i \in 1 .. m : Tail(symbols)[i] = symbols[i + 1]
  BY <1>2, <1>3
<1> HIDE DEF m
<1>6. QED
  BY <1>1, <1>4, <1>5 DEF ToSet, image

(* An import that no needed module exports.                                   *)
LEMMA ForeignIs ==
  ASSUME NEW program \in Program, TablesComplete(PieFile(program)), input.file = PieFile(program),
         Listed(input.stubs), Unbound(ReadImage(PieFile(program)), StubsRead)
  PROVE  Foreign
<1> DEFINE image == ReadImage(PieFile(program))
           modules == ModulesOf(image, StubsRead)
           needs == Needs(program.dynamic)
           n == Len(needs)
<1>1. image.needed = [i \in 1 .. n |-> Normalized(needs[i].value)] /\ input.file.dynamic = program.dynamic
  <2>1. image.needed = [i \in 1 .. n |-> Normalized(needs[i].value)] /\ PieFile(program).dynamic = program.dynamic
    BY ImageIs
  <2> HIDE DEF image, needs, n
  <2>2. QED
    BY <2>1
<1>2. n \in Nat /\ DOMAIN modules = 1 .. n
  BY TitleCountable
<1>3. Listed(program.dynamic)
  BY ProgramAssumption, Zenon
<1>4. PICK i \in DOMAIN SymbolsOf(image) : ImportFrom(SymbolsOf(image)[i].name, modules) = 0
  BY DEF Unbound
<1>5. SymbolsOf(image)[i] \in ToSet(Tail(input.file.symbols))
  BY <1>4, SymbolsAre
<1>6. \A j \in 1 .. n : modules[j] = StubsRead[ProviderOf(image.needed[j], StubsRead)]
  BY <1>1, Zenon DEF ModulesOf, ProvidersOf
<1> DEFINE s == SymbolsOf(image)[i]
           name == s.name
<1> HIDE DEF image, modules, n
<1>7. \A j \in 1 .. n : name \notin modules[j].exports
  BY <1>2, <1>4, NoExporter
<1> SUFFICES ASSUME name \in Exports PROVE \E k \in DOMAIN StubsRead : Unneeded(k)
  BY <1>5 DEF Foreign
<1>8. PICK k \in DOMAIN StubsRead : name \in StubsRead[k].exports
  BY DEF Exports
<1> HIDE DEF name, s
<1>9. Unneeded(k)
  <2> SUFFICES ASSUME NEW e \in ToSet(Entries(program.dynamic)), e.tag = 1, ProviderOf(Normalized(e.value), StubsRead) = k
               PROVE  FALSE
    BY <1>1 DEF Unneeded
  <2>1. PICK j \in DOMAIN Entries(program.dynamic) : e = Entries(program.dynamic)[j]
    BY DEF ToSet
  <2>2. PICK m \in 1 .. n : needs[m] = e
    BY <1>3, <2>1, NeedsAre DEF n
  <2>3. image.needed[m] = Normalized(e.value)
    BY <1>1, <2>2
  <2>4. modules[m] = StubsRead[k]
    BY <1>6, <2>3
  <2>5. QED
    BY <1>7, <1>8, <2>4
<1>10. QED
  BY <1>9

(* What the writer refuses an image for.                                      *)
LEMMA WriterJustified ==
  ASSUME NEW program \in Program, TablesComplete(PieFile(program)), input.file = PieFile(program), Listed(input.stubs),
         elf = WriteExecutable(ReadImage(PieFile(program)), program.hash, StubsRead), elf.error # "none"
  PROVE  Justified
<1> DEFINE image == ReadImage(PieFile(program))
           sizes == SizesOf(program)
           modules == ModulesOf(image, StubsRead)
           imports == ImportsOf(image, StubsRead)
<1>1. image.sections = LinkedPie(sizes) /\ PieFile(program).sections = LinkedPie(sizes)
  BY ImageIs
<1>2. Buildable(sizes)
  BY SizesAre
<1>3. Countable(image, modules, imports)
  BY TitleCountable
<1>4. Unprovided(image, StubsRead) => Lacking
  BY LackingIs
<1>5. Unbound(image, StubsRead) => Foreign
  BY ForeignIs
<1>6. Exporting(image) => Defining
  <2> SUFFICES ASSUME Exporting(image) PROVE Defining
    OBVIOUS
  <2>1. PICK i \in DOMAIN SymbolsOf(image) : SymbolsOf(image)[i].defined
    BY Zenon DEF Exporting
  <2>2. SymbolsOf(image)[i] \in ToSet(Tail(input.file.symbols))
    BY <2>1, SymbolsAre
  <2> HIDE DEF image
  <2>3. QED
    BY <2>1, <2>2, Zenon DEF Defining
<1> DEFINE w == WriteExecutable(image, program.hash, StubsRead)
<1>7. w.error # "none" /\ elf = w
  OBVIOUS
<1> HIDE DEF image, sizes, w
<1>8. input.file.sections = LinkedPie(sizes)
  BY <1>1
<1>9. Cramped(image) => Narrow
  <2> SUFFICES ASSUME Cramped(image) PROVE Narrow
    OBVIOUS
  <2>1. \E s \in ToSet(image.sections) : s.name = ".dynamic"
            /\ \E got \in ToSet(image.sections) : Relro(got) /\ End(got) + ProcessSize + BlocksSize > s.at
    BY <1>1, <1>2, RoomWanting
  <2>2. image.sections = input.file.sections
    BY <1>1, <1>8
  <2>3. QED
    BY <2>1, <2>2, Zenon DEF Narrow
<1>10. ~Sectionless(image)
  <2>1. sizes \in Sizing /\ 1 \in Present(sizes) /\ 6 \in Present(sizes) /\ 11 \in Present(sizes)
    BY <1>2 DEF Buildable
  <2>2. HasSection(image, Script[1].name) /\ HasSection(image, Script[6].name) /\ HasSection(image, Script[11].name)
    BY <1>1, <2>1, SectionOfIs
  <2>3. Script[1].name = ".text" /\ Script[6].name = ".got" /\ Script[11].name = ".dynamic"
    BY ScriptIs
  <2>4. HasSection(image, ".text") /\ HasSection(image, ".got") /\ HasSection(image, ".dynamic")
    BY <2>2, <2>3
  <2>5. QED
    BY <2>4 DEF Sectionless
<1>11. ~Misplaced(image)
  <2>1. SectionOf(image, ".text").at = 0 /\ SectionOf(image, ".text").offset = Page
    BY <1>1, <1>2, FilePlaces
  <2>2. QED
    BY <2>1 DEF Misplaced, Page
<1>12. ~Cramped(image) => ~Incongruent(image, program.hash, StubsRead)
  <2> SUFFICES ASSUME ~Cramped(image) PROVE ~Incongruent(image, program.hash, StubsRead)
    OBVIOUS
  <2> HIDE DEF modules, imports
  <2>1. ~(RelroEnd(Regions(image)) > Regions(image).dataStart)
    BY DEF Cramped
  <2>2. \A header \in ToSet(Emit(image, program.hash, modules, imports, Regions(image)).headers) : Congruent(header)
    BY <1>1, <1>2, <1>3, <2>1, EmitCongruent
  <2>3. QED
    BY <2>2, Zenon DEF Incongruent, Written, modules, imports
<1> HIDE DEF modules, imports
<1>13. \/ w.error = "section missing" /\ Sectionless(image)
       \/ w.error = "text misplaced" /\ Misplaced(image)
       \/ w.error = "no room for the parameters" /\ Cramped(image)
       \/ w.error = "needed module missing" /\ ~Cramped(image) /\ Unprovided(image, StubsRead)
       \/ w.error = "application exports" /\ ~Cramped(image) /\ ~Unprovided(image, StubsRead) /\ Exporting(image)
       \/ w.error = "import missing" /\ ~Cramped(image) /\ ~Unprovided(image, StubsRead) /\ Unbound(image, StubsRead)
       \/ w.error = "segment not page aligned" /\ ~Cramped(image) /\ ~Unprovided(image, StubsRead)
          /\ Incongruent(image, program.hash, StubsRead)
       \/ w.error = "none"
  BY WriterIs, Zenon DEF w
<1>14. \/ elf.error = "no room for the parameters" /\ Narrow
       \/ elf.error = "needed module missing" /\ Lacking
       \/ elf.error = "import missing" /\ Foreign
       \/ elf.error = "application exports" /\ Defining
  BY <1>4, <1>5, <1>6, <1>7, <1>9, <1>10, <1>11, <1>12, <1>13, Zenon
<1>15. QED
  BY <1>14, JustifiedBy, Zenon

(* A title is refused only for what is wrong with it.                         *)
LEMMA TitleJustified ==
  ASSUME Inputs, Title, elf = Converted, elf.error # "none"
  PROVE  Justified
<1>1. PICK program \in Program, stubs \in StubList :
            /\ input.file = PieFile(program) /\ input.hash = program.hash /\ input.stubs = stubs
            /\ \/ elf.error = "unreadable image" /\ ~TablesComplete(PieFile(program))
               \/ elf.error = "stub without SONAME" /\ \E i \in DOMAIN StubsRead : StubsRead[i].error # "none"
               \/ elf.error = "no stub" /\ StubsRead = <<>>
               \/ /\ TablesComplete(PieFile(program))
                  /\ StubsRead # <<>> /\ \A i \in DOMAIN StubsRead : StubsRead[i].error = "none"
                  /\ elf = WriteExecutable(ReadImage(PieFile(program)), program.hash, StubsRead)
  BY TitleMade, Zenon
<1>2. Listed(input.stubs)
  BY <1>1, StubAssumption
<1>3. CASE elf.error = "unreadable image" /\ ~TablesComplete(PieFile(program))
  BY <1>1, <1>3, CutOffIs, JustifiedBy, Zenon
<1>4. CASE elf.error = "stub without SONAME" /\ \E i \in DOMAIN StubsRead : StubsRead[i].error # "none"
  <2>1. Nameless
    BY <1>2, <1>4, NamelessIs
  <2>2. QED
    BY <1>4, <2>1, JustifiedBy, Zenon
<1>5. CASE elf.error = "no stub" /\ StubsRead = <<>>
  <2>1. input.stubs = <<>>
    BY <1>2, <1>5, StubsAre
  <2>2. QED
    BY <1>5, <2>1, JustifiedBy, Zenon
<1>6. CASE /\ TablesComplete(PieFile(program))
           /\ elf = WriteExecutable(ReadImage(PieFile(program)), program.hash, StubsRead)
  BY <1>1, <1>2, <1>6, WriterJustified, Zenon
<1>7. QED
  BY <1>1, <1>3, <1>4, <1>5, <1>6, Zenon

(* A title that was made is loaded as it should be, and its pointers lead       *)
(* where they should.                                                         *)
LEMMA TitleLoads ==
  ASSUME Inputs, Title, elf = Converted, Made
  PROVE  EverythingIsLoaded /\ PointersArePlaced
<1>1. PICK program \in Program : /\ input.file = PieFile(program) /\ TablesComplete(PieFile(program))
                                 /\ elf = WriteExecutable(ReadImage(PieFile(program)), program.hash, StubsRead)
  <2> DEFINE unread == elf.error \in {"unreadable image", "stub without SONAME", "no stub"}
  <2>1. ~unread
    BY DEF Made
  <2> HIDE DEF unread
  <2>2. elf.error = "unreadable image" \/ elf.error = "stub without SONAME" \/ elf.error = "no stub" => unread
    BY DEF unread
  <2>3. QED
    BY <2>1, <2>2, TitleMade, Zenon
<1> DEFINE file == PieFile(program)
           image == ReadImage(file)
           sizes == SizesOf(program)
           modules == ModulesOf(image, StubsRead)
           imports == ImportsOf(image, StubsRead)
<1>2. elf = Written(image, program.hash, StubsRead) /\ ~Cramped(image)
  BY <1>1, TitleWritten, Zenon DEF Made
<1>3. /\ image.sections = LinkedPie(sizes) /\ file.sections = LinkedPie(sizes)
      /\ image.relocations = program.relocations /\ file.relocations = program.relocations
  BY <1>1, ImageIs
<1>4. Buildable(sizes)
  BY SizesAre
<1>5. Countable(image, modules, imports)
  BY <1>1, TitleCountable
<1>6. elf = Emit(image, program.hash, modules, imports, Regions(image))
  BY <1>2, Zenon DEF Written
<1>7. program.relocations \in Seq(ToSet(program.relocations))
  BY ProgramAssumption, Zenon DEF Listed
<1>8. ~(RelroEnd(Regions(image)) > Regions(image).dataStart)
  BY <1>2 DEF Cramped
<1>9. input.file = file
  BY <1>1
<1> HIDE DEF file, image, sizes, modules, imports
<1>10. /\ input.file.sections = LinkedPie(sizes) /\ input.file.relocations = image.relocations
       /\ image.relocations \in Seq(ToSet(image.relocations))
  BY <1>3, <1>7, <1>9
<1>11. EverythingIsLoaded
  BY <1>3, <1>4, <1>5, <1>6, <1>8, <1>10, EmitLoads
<1>12. PointersArePlaced
  BY <1>3, <1>4, <1>5, <1>6, <1>8, <1>10, EmitPoints
<1>13. QED
  BY <1>11, <1>12

(* LayoutSound holds: the loader gets every section, table and pointer of a     *)
(* title where the code uses it, nothing lies over anything else, and a title   *)
(* is refused only for what is wrong with it.                                 *)
THEOREM LayoutSoundCorrect == Spec => []LayoutSound
<1>1. Stages => LayoutSound
  <2> SUFFICES ASSUME Stages, Title PROVE /\ Made => EverythingIsLoaded /\ PointersArePlaced
                                          /\ stage = "refused" /\ container = Nothing => Justified
    BY Zenon DEF LayoutSound
  <2>1. CASE AtInput
    <3>1. elf.error # "none"
      BY <2>1 DEF AtInput, Nothing
    <3>2. stage # "refused"
      BY <2>1 DEF AtInput
    <3>3. QED
      BY <3>1, <3>2 DEF Made
  <2>2. CASE ~AtInput
    <3>1. Inputs /\ elf = Converted
      BY <2>2, Zenon DEF Stages, AtModule, AtContainer
    <3>2. Made => EverythingIsLoaded /\ PointersArePlaced
      BY <3>1, TitleLoads
    <3>3. ASSUME stage = "refused", container = Nothing PROVE elf.error # "none"
      <4>1. CASE AtModule
        <5> DEFINE e == elf.error
        <5>1. stage = IF e = "none" THEN "module" ELSE "refused"
          BY <4>1, Zenon DEF AtModule
        <5> HIDE DEF e
        <5>2. e # "none"
          BY <3>3, <5>1
        <5>3. QED
          BY <5>2 DEF e
      <4>2. CASE AtContainer
        <5>1. PICK options \in SignOption : container = Sign(Bare, options)
          BY <4>2, Zenon DEF AtContainer, Signed, Bare
        <5>2. Signable(Bare)
          BY <3>1, <4>2, MadeSignable DEF Signables, AtContainer
        <5>3. container.error = "none"
          BY <5>1, <5>2, SealedIs
        <5>4. Nothing.error = "nothing made"
          BY DEF Nothing
        <5>5. QED
          BY <3>3, <5>3, <5>4
      <4>3. QED
        BY <2>2, <4>1, <4>2, Zenon DEF Stages
    <3>4. elf.error # "none" => Justified
      BY <3>1, TitleJustified
    <3>5. QED
      BY <3>2, <3>3, <3>4
  <2>3. QED
    BY <2>1, <2>2
<1>2. QED
  BY <1>1, StagesCorrect, PTL
=============================================================================
