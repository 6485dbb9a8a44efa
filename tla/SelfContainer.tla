---------------------------- MODULE SelfContainer ----------------------------
(* tooling/native/self_container.cpp: wraps the bytes of an ELF that a loader  *)
(* maps in a container and rebuilds the ELF from it. An ELF here is its size    *)
(* and its program headers; its byte at position p is p. A file that is put     *)
(* together from copies is the sequence of its copies, later ones over earlier. *)
EXTENDS IndexOrder, Integers, Sequences, FiniteSets, SequencesExt, FiniteSetsExt

HeaderSize == \h20
EntrySize == \h20
ExtendedSize == \h40
ControlSize == \h30
BlockSize == \h50
FooterSize == \h50
SegmentBlock == \h4000
DigestSlot == \h20
ElfHeaderSize == \h40
ProgramHeaderSize == \h38
SizeLimit == \h10000

Roundup(value, alignment) == ((value + alignment - 1) \div alignment) * alignment
Fits(offset, size, length) == offset <= length /\ size <= length - offset

MetadataSize(count, magic) == count * BlockSize + FooterSize + IF magic = "alternate" THEN \h100 ELSE \h200
DigestSize(size) == ((size + SegmentBlock - 1) \div SegmentBlock) * DigestSlot

(* What a copy puts at a position; Hole is a byte nobody wrote.              *)
Copy(at, size, from) == [at |-> at, size |-> size, from |-> from]
Hole == -1
Covers(copy, position) == copy.at <= position /\ position < copy.at + copy.size
ByteAt(copies, position) ==
    LET over == {i \in DOMAIN copies : Covers(copies[i], position)}
    IN  IF over = {} THEN Hole ELSE copies[Max(over)].from + (position - copies[Max(over)].at)

HeadersSize(headers) == ElfHeaderSize + ProgramHeaderSize * Len(headers)

NoRegion == [offset |-> 0, size |-> 0]

(* The first header of version records decides, even if it is unusable.      *)
VersionRecords(headers, limit) ==
    LET found == {i \in DOMAIN headers : headers[i].type = "VERSION"}
        header == headers[Min(found)]
    IN  IF found = {} THEN NoRegion
        ELSE IF header.size = 0 \/ ~Fits(header.offset, header.size, limit) THEN NoRegion
        ELSE [offset |-> header.offset, size |-> header.size]

-----------------------------------------------------------------------------
(* Signing.                                                                 *)

SelectedTypes(options) == {"LOAD", "DYNLIBDATA", "RELRO", "COMMENT"} \cup IF options.procparam THEN {"PROCPARAM"} ELSE {}

Selected(elf, options) ==
    InOrder({i \in DOMAIN elf.headers : elf.headers[i].size # 0 /\ elf.headers[i].type \in SelectedTypes(options)})

Unmappable(elf) ==
    \E i \in DOMAIN elf.headers :
        elf.headers[i].type = "LOAD" /\ elf.headers[i].size = 0 /\ elf.headers[i].flags # "none"

(* Each selected segment takes room for its digests and for its bytes; the     *)
(* cursor stands behind the first k segments.                                *)
SegmentCursor(elf, selected, start) ==
    LET cursor[k \in 0 .. Len(selected)] ==
            IF k = 0 THEN start
            ELSE LET size == elf.headers[selected[k]].size
                 IN  Roundup(cursor[k - 1] + DigestSize(size) + size, 16)
    IN  cursor

PlaceSegments(elf, selected, start) ==
    LET cursor == SegmentCursor(elf, selected, start)
    IN  [cursor |-> cursor[Len(selected)],
         rows |-> [k \in DOMAIN selected |->
                     LET size == elf.headers[selected[k]].size
                     IN  [id |-> selected[k], digest |-> cursor[k - 1], data |-> cursor[k - 1] + DigestSize(size), size |-> size]]]

(* Two entries for each segment: its digests, which are not part of the ELF, *)
(* and its bytes under the number of its program header.                     *)
SegmentTable(rows) ==
    [j \in 1 .. 2 * Len(rows) |->
        LET row == rows[(j + 1) \div 2]
        IN  IF j % 2 = 1 THEN [id |-> j, blocked |-> FALSE, offset |-> row.digest, size |-> DigestSize(row.size)]
            ELSE [id |-> row.id, blocked |-> TRUE, offset |-> row.data, size |-> row.size]]

-----------------------------------------------------------------------------
(* Rebuilding the ELF from a container.                                     *)

ExtractedSize(headers) ==
    Max({HeadersSize(headers)} \cup {headers[i].offset + headers[i].size : i \in DOMAIN headers})

(* Each blocked segment goes where its header says, no longer than it says;  *)
(* the version records are what follows the last segment; the headers go      *)
(* over all. A segment that is too long for either file stops the extraction. *)
SegmentCopies(container) ==
    LET headers == container.headers
        stored == InOrder({j \in DOMAIN container.segments : container.segments[j].blocked
                                                             /\ container.segments[j].id <= Len(headers)})
    IN  [k \in DOMAIN stored |->
            LET segment == container.segments[stored[k]]
                header == headers[segment.id]
            IN  Copy(header.offset, Min({segment.size, header.size}), segment.offset)]

(* Mutated form: the records are looked for where the container says it ends. *)
ContentEndDeclared(container) == container.declared

ContentEnd(container) ==
    Max({0} \cup {s.offset + s.size : s \in {s \in ToSet(container.segments) : Fits(s.offset, s.size, container.size)}})

VersionCopy(container, size) ==
    LET version == VersionRecords(container.headers, size)
    IN  IF version.size # 0 /\ Fits(ContentEnd(container), version.size, container.size)
        THEN <<Copy(version.offset, version.size, ContentEnd(container))>> ELSE <<>>

Extract(container) ==
    LET headers == container.headers
        size == ExtractedSize(headers)
        segments == SegmentCopies(container)
        copies == segments \o VersionCopy(container, size)
                           \o <<Copy(0, HeadersSize(headers), container.headersAt)>>
    IN  IF \/ \E s \in ToSet(container.segments) : s.blocked /\ ~Fits(s.offset, s.size, container.size)
           \/ \E i \in DOMAIN segments : ~Fits(segments[i].at, segments[i].size, size)
        THEN [error |-> "segment overruns"]
        ELSE [error |-> "none", size |-> size, headers |-> headers, copies |-> copies]

(* The byte of the rebuilt ELF at a position, as a position of the ELF that   *)
(* was signed.                                                               *)
RebuiltByte(container, rebuilt, position) ==
    LET stored == ByteAt(rebuilt.copies, position)
    IN  IF stored = Hole THEN Hole ELSE ByteAt(container.copies, stored)

(* The first, the second and the last byte of every range that matters.      *)
Probes(headers) ==
    LET ranges == {Copy(0, HeadersSize(headers), 0)} \cup {Copy(h.offset, h.size, 0) : h \in ToSet(headers)}
    IN  UNION {{r.at, r.at + 1, r.at + r.size - 1} \cap (r.at .. r.at + r.size - 1) : r \in {r \in ranges : r.size > 0}}

Digest(container, rebuilt) == [p \in Probes(container.headers) |-> RebuiltByte(container, rebuilt, p)]

(* sign(): the container, with the digest of what it rebuilds to.            *)
Sign(elf, options) ==
    LET selected == Selected(elf, options)
        count == 2 * Len(selected)
        afterSegments == HeaderSize + count * EntrySize
        extendedAt == Roundup(afterSegments + HeadersSize(elf.headers), 16)
        headerSize == extendedAt + ExtendedSize + ControlSize
        metadata == MetadataSize(count, options.magic)
        placed == PlaceSegments(elf, selected, headerSize + metadata)
        versionStart == Last(placed.rows).data + Last(placed.rows).size
        version == VersionRecords(elf.headers, elf.size)
        bytes == [i \in DOMAIN placed.rows |->
                    Copy(placed.rows[i].data, placed.rows[i].size, elf.headers[placed.rows[i].id].offset)]
        container == [error |-> "none", headers |-> elf.headers, headersAt |-> afterSegments,
                      segments |-> SegmentTable(placed.rows), declared |-> placed.cursor,
                      size |-> Max({placed.cursor, versionStart + version.size}), digests |-> headerSize + metadata, digest |-> <<>>,
                      copies |-> <<Copy(afterSegments, HeadersSize(elf.headers), 0)>> \o bytes
                                 \o IF version.size = 0 THEN <<>> ELSE <<Copy(versionStart, version.size, version.offset)>>]
    IN  IF Unmappable(elf) THEN [error |-> "mapped header without bytes"]
        ELSE IF \E i \in ToSet(selected) : ~Fits(elf.headers[i].offset, elf.headers[i].size, elf.size)
             THEN [error |-> "segment past the input"]
        ELSE IF selected = <<>> THEN [error |-> "no loadable content"]
        ELSE IF headerSize >= SizeLimit \/ metadata >= SizeLimit THEN [error |-> "header too large"]
        ELSE LET rebuilt == Extract(container)
             IN  IF rebuilt.error # "none" THEN rebuilt ELSE [container EXCEPT !.digest = Digest(container, rebuilt)]

(* strip_sections(): nothing behind the last program header's bytes stays.   *)
StripSections(rebuilt) ==
    LET extent == Max({ElfHeaderSize, HeadersSize(rebuilt.headers)}
                      \cup {rebuilt.headers[i].offset + rebuilt.headers[i].size : i \in DOMAIN rebuilt.headers})
    IN  IF ~\E h \in ToSet(rebuilt.headers) : h.type = "DYNAMIC" THEN [error |-> "nothing dynamic"]
        ELSE [rebuilt EXCEPT !.size = Min({extent, rebuilt.size})]
=============================================================================
