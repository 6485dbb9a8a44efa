---------------------------- MODULE ModuleWriter ----------------------------
(* tooling/native/sce_module_writer.cpp: turns the linked PIE into the ELF     *)
(* the console loads. It keeps the sections where the linker put them, adds    *)
(* the process parameters behind the RELRO contents and a new dynamic segment  *)
(* behind everything, and lists it all in fourteen program headers. Names are  *)
(* values: nid, the hash of a name, is taken to be injective, and every string *)
(* of the string table to take the same room.                                 *)
EXTENDS ElfImage

ProcessSize == \h60
BlockSizes == << \ha8, \h38, \h10, \h78, \hc0, \h38 >>
BlockEnds ==
    LET end[k \in 0 .. Len(BlockSizes)] == IF k = 0 THEN 0 ELSE end[k - 1] + BlockSizes[k]
    IN  end
BlockOffset(i) == BlockEnds[i - 1]
HeapSize == BlockOffset(7)
HeapExtended == HeapSize + 8
BlocksSize == HeapSize + 16
NoteSize == \h24
TailSize == \h18
CommentSize == AlignUp(12 + 10, 4)
VersionSize(components) == components * (4 + 1 + 14 + 16)
StringSize == 16

-----------------------------------------------------------------------------
(* The regions of the image, by the first test a section passes.            *)

Kind(s) ==
    IF s.name = ".dynamic" THEN "dynamic"
    ELSE IF Executable(s) THEN "text"
    ELSE IF Tls(s) THEN "tls"
    ELSE IF Relro(s) THEN "relro"
    ELSE IF Writable(s) \/ NoBits(s) THEN "data"
    ELSE IF Metadata(s) THEN "metadata" ELSE "ro"

OfKind(image, kind) == {s \in ToSet(image.sections) : Kind(s) = kind}
Ends(sections) == {s.at + s.size : s \in sections}
Starts(sections) == {s.at : s \in sections}
Stored(sections) == {s \in sections : ~NoBits(s)}

CopiedFileEnd(image) == Max({Page} \cup {s.offset + s.size : s \in Stored(ToSet(image.sections))})

Regions(image) ==
    LET text == OfKind(image, "text")  ro == OfKind(image, "ro")
        relro == OfKind(image, "relro")  data == OfKind(image, "data")  tls == OfKind(image, "tls")
        dynamic == SectionOf(image, ".dynamic").at
        dataStart == Min({dynamic} \cup Starts(data))
        textEnd == Max(Ends(text))
        roStart == IF ro = {} THEN AlignUp(textEnd, Page) ELSE Min(Starts(ro))
    IN  [textEnd |-> textEnd,
         roStart |-> roStart, roEnd |-> IF ro = {} THEN roStart ELSE Max(Ends(ro)),
         relroStart |-> Min(Starts(relro)), relroContentEnd |-> Max(Ends(relro)),
         dataStart |-> dataStart, dataEnd |-> Max({dynamic + 8} \cup Ends(data)),
         dataStoredEnd |-> Max({dynamic + 8} \cup Ends(Stored(data))),
         tlsStart |-> IF tls = {} THEN 0 ELSE Min(Starts(tls)),
         tlsFileEnd |-> Max({0} \cup Ends(Stored(tls))),
         tlsMemoryEnd |-> Max({0} \cup Ends(tls))]

(* Where the process parameters and their blocks go.                        *)
ProcessAddress(r) == AlignUp(Max({r.relroContentEnd, IF r.roEnd > r.relroStart THEN r.roEnd ELSE 0}), 8)
BlocksAddress(r) == AlignUp(ProcessAddress(r) + ProcessSize, 8)
RelroEnd(r) == BlocksAddress(r) + BlocksSize

-----------------------------------------------------------------------------
(* Modules and imports.                                                     *)

ProviderOf(soname, stubs) ==
    LET found == {i \in DOMAIN stubs : stubs[i].soname = soname}
    IN  IF found = {} THEN 0 ELSE Min(found)

(* The first needed module that exports the name, 0 if none does.           *)
ImportFrom(name, modules) ==
    LET found == {i \in DOMAIN modules : name \in modules[i].exports}
    IN  IF found = {} THEN 0 ELSE Min(found)

Left(id) ==
    LET left[k \in 0 .. id] == IF k = 0 THEN id ELSE left[k - 1] \div 64
    IN  left

(* Digits in base 64, the most significant first, from what is left of the id *)
(* after each of them.                                                        *)
EncodeId(id) ==
    LET left == Left(id)
        length == Min({k \in 0 .. id : left[k] = 0})
    IN  IF id = 0 THEN <<0>> ELSE [k \in 1 .. length |-> left[length - k] % 64]

(* Module ids count from one and library ids from zero; a provider that is    *)
(* needed twice is known by its first position.                              *)
Import(name, modules) ==
    LET provider == modules[ImportFrom(name, modules)]
        first == Min({i \in DOMAIN modules : modules[i] = provider})
    IN  [name |-> name, library |-> EncodeId(first - 1), module |-> EncodeId(first)]

(* A string is tagged by what it names: sonames, names and symbols differ.   *)
Soname(m) == <<"soname", m.soname>>
Name(name) == <<"name", name>>
Mangled(import) == <<"symbol", import>>

(* A string is entered where it comes first.                                 *)
Distinct(list) == Picked(list, {k \in DOMAIN list : \A j \in 1 .. k - 1 : list[j] # list[k]})
StringOffset(table, value) ==
    1 + StringSize * ((CHOOSE i \in DOMAIN table : table[i] = value) - 1)

Strings(modules, imports) ==
    LET named(j) == LET m == modules[(j + 2) \div 3]
                    IN  IF j % 3 = 1 THEN Soname(m) ELSE IF j % 3 = 2 THEN Name(m.module) ELSE Name(m.library)
    IN  Distinct([j \in 1 .. 3 * Len(modules) |-> named(j)] \o <<Name("eboot.elf"), Name("eboot")>>
                 \o [i \in DOMAIN imports |-> Mangled(imports[i])])

(* One record for each module and one for its library, which tell by their   *)
(* ids what the imports mean.                                                *)
ModuleRecords(modules, strings) ==
    [i \in DOMAIN modules |-> [id |-> i, soname |-> StringOffset(strings, Soname(modules[i])),
                               name |-> StringOffset(strings, Name(modules[i].module))]]
LibraryRecords(modules, strings) ==
    [i \in DOMAIN modules |-> [id |-> i - 1, module |-> i, name |-> StringOffset(strings, Name(modules[i].library))]]

(* Mutated form: a symbol forgets the one that headed its chain.             *)
BuildHashForgets(count, hash) ==
    LET heads(b) == {i \in 1 .. count - 1 : hash[i] % count = b}
    IN  [bucket |-> [b \in 0 .. count - 1 |-> IF heads(b) = {} THEN 0 ELSE Min(heads(b))],
         chain |-> [i \in 0 .. count - 1 |-> 0]]

(* Buckets and chains over the symbol indices 0 .. count - 1, which are put in *)
(* from the last one on; the hash of a symbol is an argument. Index 0 ends a   *)
(* chain.                                                                    *)
HashTurns(count, hash) ==
    LET table[k \in 0 .. count - 1] ==
            IF k = 0 THEN [bucket |-> [i \in 0 .. count - 1 |-> 0], chain |-> [i \in 0 .. count - 1 |-> 0]]
            ELSE LET i == count - k
                     bucket == hash[i] % count
                 IN  [bucket |-> [table[k - 1].bucket EXCEPT ![bucket] = i],
                      chain |-> [table[k - 1].chain EXCEPT ![i] = table[k - 1].bucket[bucket]]]
    IN  table
BuildHash(count, hash) == HashTurns(count, hash)[count - 1]

-----------------------------------------------------------------------------
(* The dynamic relocations: the parameter pointers and the relative ones      *)
(* first, then those that name a symbol.                                     *)

ParameterPointers(process, blocks) ==
    << [at |-> process + \h38, to |-> blocks + BlockOffset(1)], [at |-> process + \h40, to |-> blocks + BlockOffset(2)],
       [at |-> process + \h48, to |-> blocks + BlockOffset(3)], [at |-> blocks + \h30, to |-> blocks + BlockOffset(4)],
       [at |-> blocks + \h38, to |-> blocks + BlockOffset(5)], [at |-> blocks + \h60, to |-> blocks + BlockOffset(6)],
       [at |-> blocks + \h10, to |-> blocks + HeapSize], [at |-> blocks + \h20, to |-> blocks + HeapExtended] >>

Relocations(image, process, blocks) ==
    LET pointers == ParameterPointers(process, blocks)
        all == image.relocations
        own == [i \in DOMAIN pointers |-> [at |-> pointers[i].at, relative |-> TRUE, to |-> pointers[i].to]]
    IN  own \o Picked(all, {i \in DOMAIN all : all[i].relative}) \o Picked(all, {i \in DOMAIN all : ~all[i].relative})

RelativeCount(image) == Len(ParameterPointers(0, 0)) + Cardinality({i \in DOMAIN image.relocations : image.relocations[i].relative})

(* Four entries for each module with its library, and twenty-eight more.     *)
DynamicSize(modules) == 16 * (4 * Len(modules) + 28)

(* The tables of the dynamic segment one after the other, from base on.      *)
Tables(base, image, modules, strings) ==
    LET table(name, size, alignment) == [name |-> name, size |-> size, alignment |-> alignment]
        row == << table("strings", 1 + StringSize * Len(strings), 16), table("symbols", 24 * Len(image.symbols), 8),
                  table("jump", 24 * Len(image.plt), 8),
                  table("relocations", 24 * (8 + Len(image.relocations)), 8),
                  table("hash", 8 + 8 * Len(image.symbols), 8), table("note", NoteSize, 4),
                  table("dynamic", DynamicSize(modules), 8) >>
        end[i \in 0 .. Len(row)] == IF i = 0 THEN base ELSE AlignUp(end[i - 1], row[i].alignment) + row[i].size
    IN  [i \in DOMAIN row |-> [name |-> row[i].name, at |-> AlignUp(end[i - 1], row[i].alignment), size |-> row[i].size]]

-----------------------------------------------------------------------------
(* The output. A header gives offset and size in the file, place and size in  *)
(* memory; a piece is something the writer put into the file: what, where it   *)
(* lies in memory and in the file.                                            *)

Header(type, flags, offset, at, size, memory) ==
    [type |-> type, flags |-> flags, offset |-> offset, at |-> at, size |-> size, memory |-> memory]
Piece(name, at, offset, size) == [name |-> name, at |-> at, offset |-> offset, size |-> size]

Copied(image) == {s \in Stored(ToSet(image.sections)) : ~Metadata(s)}

(* Mutated form: the GOT is taken for the lowest section of the segment.     *)
RelroFileGot(image) == SectionOf(image, ".got").offset

(* The RELRO segment begins in the file where its lowest section does.       *)
RelroFile(image) ==
    (CHOOSE s \in OfKind(image, "relro") : \A other \in OfKind(image, "relro") : s.at <= other.at).offset

Headers(image, r, relro, base, tables, file, comment, version, tail) ==
    LET dynamic == Last(tables)  note == tables[6]
        process == ProcessAddress(r)
        tls == r.tlsStart # 0
        data == SectionOf(image, ".dynamic").offset
        eh == IF HasSection(image, ".eh_frame_hdr") THEN SectionOf(image, ".eh_frame_hdr")
              ELSE [at |-> r.roStart, size |-> 0, offset |-> SectionOf(image, ".eh_frame").offset]
    IN << Header("LOAD", "x", SectionOf(image, ".text").offset, 0, r.textEnd, r.textEnd),
          Header("LOAD", "r", eh.offset, r.roStart, r.roEnd - r.roStart, r.roEnd - r.roStart),
          Header("LOAD", "rw", relro, r.relroStart, RelroEnd(r) - r.relroStart, RelroEnd(r) - r.relroStart),
          Header("GNU_RELRO", "r", relro, r.relroStart, RelroEnd(r) - r.relroStart, AlignUp(RelroEnd(r) - r.relroStart, Page)),
          Header("LOAD", "rw", data, r.dataStart, Max({8, r.dataStoredEnd - r.dataStart}), r.dataEnd - r.dataStart),
          Header("PROCPARAM", "r", relro + process - r.relroStart, process, ProcessSize, ProcessSize),
          Header("DYNAMIC", "rw", file + (dynamic.at - base), dynamic.at, dynamic.size, dynamic.size),
          Header("TLS", "r", IF tls THEN relro + (r.tlsStart - r.relroStart) ELSE relro, IF tls THEN r.tlsStart ELSE r.relroStart,
                 IF tls THEN r.tlsFileEnd - r.tlsStart ELSE 0, IF tls THEN r.tlsMemoryEnd - r.tlsStart ELSE 0),
          Header("EH_FRAME", "r", eh.offset, eh.at, eh.size, eh.size),
          Header("LOAD", "none", file, base, End(dynamic) - base, End(dynamic) - base),
          Header("COMMENT", "none", comment, 0, CommentSize, 0),
          Header("VERSION", "none", version.offset, 0, version.size, version.size),
          Header("NOTE", "none", file + (note.at - base), note.at, note.size, note.size),
          Header("NOTE", "none", tail, 0, TailSize, 0) >>

(* What write_executable writes once the modules and imports are known.      *)
Emit(image, hash, modules, imports, r) ==
    LET strings == Strings(modules, imports)
        process == ProcessAddress(r)
        blocks == BlocksAddress(r)
        base == AlignUp(Max({r.dataEnd, r.dataStart + 8}), 16)
        tables == Tables(base, image, modules, strings)
        file == CongruentOffset(CopiedFileEnd(image), base)
        comment == AlignUp(file + (End(Last(tables)) - base), 8)
        version == [offset |-> AlignUp(comment + CommentSize, 4), size |-> VersionSize(1 + Len(modules))]
        tail == AlignUp(version.offset + version.size, 4)
        relro == RelroFile(image)
    IN  [error |-> "none", size |-> tail + TailSize,
         headers |-> Headers(image, r, relro, base, tables, file, comment, version, tail),
         pieces |-> {Piece(s.name, s.at, s.offset, s.size) : s \in Copied(image)}
                    \cup {Piece("parameters", process, relro + process - r.relroStart, ProcessSize),
                          Piece("blocks", blocks, relro + blocks - r.relroStart, BlocksSize)}
                    \cup {Piece(t.name, t.at, file + (t.at - base), t.size) : t \in ToSet(tables)},
         strings |-> strings, modules |-> ModuleRecords(modules, strings),
         libraries |-> LibraryRecords(modules, strings),
         imports |-> imports, hash |-> BuildHash(Len(image.symbols), hash),
         relocations |-> Relocations(image, process, blocks), relativeCount |-> RelativeCount(image)]

(* The loader refuses a segment that is not congruent, so the writer does.    *)
Congruent(header) == header.type = "LOAD" => header.offset % Page = header.at % Page

WriteExecutable(image, hash, stubs) ==
    LET r == Regions(image)
        provider == [i \in DOMAIN image.needed |-> ProviderOf(image.needed[i], stubs)]
        modules == [i \in DOMAIN image.needed |-> stubs[provider[i]]]
        names == [i \in 1 .. Len(image.symbols) - 1 |-> image.symbols[i + 1]]
        output == Emit(image, hash, modules, [i \in DOMAIN names |-> Import(names[i].name, modules)], r)
    IN  IF ~\A name \in {".text", ".dynamic", ".got"} : HasSection(image, name) THEN [error |-> "section missing"]
        ELSE IF SectionOf(image, ".text").at # 0 \/ SectionOf(image, ".text").offset < Page
             THEN [error |-> "text misplaced"]
        ELSE IF RelroEnd(r) > r.dataStart THEN [error |-> "no room for the parameters"]
        ELSE IF \E i \in DOMAIN provider : provider[i] = 0 THEN [error |-> "needed module missing"]
        ELSE IF \E i \in DOMAIN names : names[i].defined THEN [error |-> "application exports"]
        ELSE IF \E i \in DOMAIN names : ImportFrom(names[i].name, modules) = 0 THEN [error |-> "import missing"]
        ELSE IF \A header \in ToSet(output.headers) : Congruent(header) THEN output
        ELSE [error |-> "segment not page aligned"]
=============================================================================
