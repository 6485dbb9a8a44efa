------------------------------ MODULE ElfImage ------------------------------
(* The intermediate PIE of the title and the import stubs of the SDK, as      *)
(* tooling/native/elf_object.cpp reads them: sections with their place in     *)
(* memory and in the file, dynamic symbols, and the modules that are needed.  *)
(* LinkedPie lays sections out as the linker does under ps5-pie.ld.           *)
EXTENDS IndexOrder, Integers, Sequences, FiniteSets, SequencesExt, FiniteSetsExt

Page == \h4000

AlignUp(value, alignment) ==
    IF alignment <= 1 THEN value
    ELSE ((value + alignment - 1) \div alignment) * alignment

(* The first file offset from minimum on that is congruent to an address.   *)
CongruentOffset(minimum, address) ==
    LET residue == address % Page
    IN  IF minimum <= residue THEN residue
        ELSE AlignUp(minimum - residue, Page) + residue

End(range) == range.at + range.size
Disjoint(a, b) == End(a) <= b.at \/ End(b) <= a.at
Within(inner, outer) == outer.at <= inner.at /\ End(inner) <= End(outer)

-----------------------------------------------------------------------------
(* Sections.                                                                *)

NoBits(s) == s.name \in {".tbss", ".bss"}
Tls(s) == s.name \in {".tdata", ".tbss"}
Executable(s) == s.name = ".text"
Writable(s) == s.name \in {".dynamic", ".data", ".tdata", ".tbss", ".bss"}
Metadata(s) == s.name \in {".dynstr", ".dynsym", ".dynamic", ".gnu.hash", ".rela.dyn", ".rela.plt"}
Relro(s) == s.name \in {".got", ".got.plt", ".data.rel.ro", ".preinit_array", ".init_array", ".fini_array"}

HasSection(image, name) == \E s \in ToSet(image.sections) : s.name = name
SectionOf(image, name) == CHOOSE s \in ToSet(image.sections) : s.name = name

(* Each section of the script with its segment; paged ones start a page.    *)
Script ==
    LET row(name, segment, paged) == [name |-> name, segment |-> segment, paged |-> paged]
    IN << row(".text", "text", TRUE), row(".eh_frame_hdr", "ro", TRUE), row(".eh_frame", "ro", FALSE),
          row(".rodata", "ro", FALSE), row(".data.rel.ro", "relro", TRUE), row(".got", "relro", FALSE),
          row(".init_array", "relro", FALSE), row(".dynsym", "relro", FALSE), row(".rela.dyn", "relro", FALSE),
          row(".rela.plt", "relro", FALSE), row(".dynamic", "data", TRUE), row(".data", "data", FALSE),
          row(".tdata", "data", FALSE), row(".tbss", "data", FALSE), row(".bss", "data", FALSE) >>

(* Sections without contents are dropped, their page alignment of the        *)
(* location counter stays. A new segment begins at the next congruent file    *)
(* offset, the rest of it follows at the distances of the addresses. .tbss    *)
(* takes no room.                                                             *)
Place(sizes, state, row) ==
    LET address == AlignUp(state.dot, IF row.paged THEN Page ELSE 8)
        fresh == row.segment # state.segment
        offset == IF fresh THEN CongruentOffset(state.offset, address)
                  ELSE state.first.offset + (address - state.first.at)
        section == [name |-> row.name, at |-> address, size |-> sizes[row.name], offset |-> offset, alignment |-> 8]
    IN  IF sizes[row.name] = 0
        THEN [state EXCEPT !.dot = IF row.paged THEN address ELSE state.dot]
        ELSE [dot |-> IF row.name = ".tbss" THEN state.dot ELSE address + section.size,
              offset |-> IF NoBits(section) THEN state.offset ELSE offset + section.size,
              segment |-> row.segment,
              first |-> IF fresh THEN section ELSE state.first,
              section |-> section]

NoSection == [name |-> "unnamed", at |-> 0, size |-> 0, offset |-> 0, alignment |-> 1]

(* How things stand after each row of the script.                            *)
Laid(sizes) ==
    LET state[i \in 0 .. Len(Script)] ==
            IF i = 0 THEN [dot |-> 0, offset |-> \h40, segment |-> "no segment", first |-> NoSection, section |-> NoSection]
            ELSE Place(sizes, state[i - 1], Script[i])
    IN  state

LinkedPie(sizes) ==
    LET state == Laid(sizes)
        rows == InOrder({i \in DOMAIN Script : sizes[Script[i].name] # 0})
    IN  [k \in DOMAIN rows |-> state[rows[k]].section]

-----------------------------------------------------------------------------
(* Reading an image and a stub. A module name is a base and an extension;    *)
(* the console's modules end in .prx, the SDK's stubs may say .sprx.         *)

Normalized(soname) == IF soname.ext = "sprx" THEN [soname EXCEPT !.ext = "prx"] ELSE soname

(* The dynamic table ends at its first null tag, whatever follows.          *)
Entries(table) ==
    LET ends == {i \in DOMAIN table : table[i].tag = 0}
    IN  IF ends = {} THEN table ELSE SubSeq(table, 1, Min(ends) - 1)

(* The readers refuse a table that the file does not hold to its end.       *)
TablesComplete(file) == \A s \in ToSet(file.sections) : NoBits(s) \/ s.offset + s.size <= file.size

Needs(dynamic) == Picked(Entries(dynamic), {i \in DOMAIN Entries(dynamic) : Entries(dynamic)[i].tag = 1})

ReadImage(file) ==
    LET needs == Needs(file.dynamic)
    IN  IF ~TablesComplete(file) \/ file.symbols = <<>> THEN [error |-> "unreadable image"]
        ELSE [error |-> "none", sections |-> file.sections, symbols |-> file.symbols,
              relocations |-> file.relocations, plt |-> file.plt,
              needed |-> [i \in DOMAIN needs |-> Normalized(needs[i].value)]]

(* A stub's last SONAME counts; it exports its defined, visible symbols.    *)
ReadStub(file) ==
    LET sonames == {i \in DOMAIN Entries(file.dynamic) : Entries(file.dynamic)[i].tag = 14}
        exported(s) == s.defined /\ s.binding \in {"global", "weak"} /\ s.name # "unnamed"
    IN  IF sonames = {} THEN [error |-> "stub without SONAME"]
        ELSE LET soname == Normalized(Entries(file.dynamic)[Max(sonames)].value)
             IN  [error |-> "none", soname |-> soname, module |-> soname.base, library |-> soname.base,
                  exports |-> {s.name : s \in {s \in ToSet(file.symbols) : exported(s)}}]
=============================================================================
