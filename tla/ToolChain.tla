------------------------------ MODULE ToolChain ------------------------------
(* The host's tool chain from a linked program or the runtime's manifests to   *)
(* the container the console gets, and back: tools/build.sh calling link_command *)
(* and self_command of native_app_builder.cpp and main of libc_builder.cpp.     *)
EXTENDS ModuleWriter, SelfContainer, LibcBuilder

CONSTANTS
    Program,     \* the programs: sizes of sections, symbols, relocations, needed modules
    StubList,    \* the stub files that --stub and --stub-dir give, in their order
    Manifest,    \* imports, object sizes and thread-local sizes of the runtime module
    SignOption   \* magic and whether the process parameters get a segment of their own

SectionNames == {row.name : row \in ToSet(Script)}
Listed(s) == s \in Seq(ToSet(s))

(* The SDK's start-up code gives every program code, unwind records and a GOT, *)
(* the linker a dynamic table and the null symbol; thread-local storage without *)
(* initial contents alone does not occur, as the compilers emulate it.        *)
ASSUME ProgramAssumption ==
    \A program \in Program :
        /\ program.sizes \in [SectionNames -> Nat] /\ program.hashing \in Nat /\ program.cut \in Nat
        /\ \A name \in {".text", ".eh_frame", ".got", ".dynamic"} : program.sizes[name] # 0
        /\ program.sizes[".tbss"] # 0 => program.sizes[".tdata"] # 0
        /\ Listed(program.symbols) /\ program.symbols # <<>> /\ Listed(program.plt) /\ Listed(program.dynamic)
        /\ Listed(program.relocations) /\ \A r \in ToSet(program.relocations) : r.relative \in BOOLEAN
        /\ program.hash \in [1 .. Len(program.symbols) - 1 -> Nat]

ASSUME StubAssumption ==
    \A stubs \in StubList : Listed(stubs) /\ \A stub \in ToSet(stubs) : Listed(stub.dynamic)

ASSUME ManifestAssumption ==
    Manifest \subseteq [imports : Seq(RuntimeImport), objects : Seq(Nat), tls : Seq(Nat)]

VARIABLES
    stage,       \* what the last tool left: an input, a product, or a refusal
    input,       \* what the build began with
    elf,         \* the module for the console
    container,   \* the same in its container
    rebuilt,     \* what was extracted from it
    verdict      \* what --inspect said of the container's integrity

vars == <<stage, input, elf, container, rebuilt, verdict>>

Nothing == [error |-> "nothing made"]

(* The linked file: the metadata sections are as large as what they hold.    *)
SizesOf(program) ==
    [name \in SectionNames |->
        CASE name = ".dynsym" -> 24 * Len(program.symbols) + program.hashing
          [] name = ".rela.dyn" -> 24 * Len(program.relocations)
          [] name = ".rela.plt" -> 24 * Len(program.plt)
          [] OTHER -> program.sizes[name]]

PieFile(program) ==
    LET sections == LinkedPie(SizesOf(program))
        ends == {s.offset + s.size : s \in {s \in ToSet(sections) : ~NoBits(s)}}
    IN  [sections |-> sections, size |-> Max(ends) - program.cut, symbols |-> program.symbols,
         relocations |-> program.relocations, plt |-> program.plt, dynamic |-> program.dynamic]

Init ==
    /\ \/ \E program \in Program, stubs \in StubList :
            input = [kind |-> "title", file |-> PieFile(program), hash |-> program.hash, stubs |-> stubs]
       \/ \E manifest \in Manifest : input = [kind |-> "runtime", manifest |-> manifest]
    /\ stage = "input"
    /\ elf = Nothing /\ container = Nothing /\ rebuilt = Nothing /\ verdict = "none"

StubsRead == [i \in DOMAIN input.stubs |-> ReadStub(input.stubs[i])]

(* An error anywhere ends the tool before it opens its output.               *)
Convert(result) ==
    /\ stage = "input"
    /\ elf' = result
    /\ stage' = IF result.error = "none" THEN "module" ELSE "refused"
    /\ UNCHANGED <<input, container, rebuilt, verdict>>

LinkCommand ==
    /\ input.kind = "title"
    /\ LET image == ReadImage(input.file)
       IN  Convert(IF image.error # "none" THEN image
                   ELSE IF \E i \in DOMAIN StubsRead : StubsRead[i].error # "none" THEN [error |-> "stub without SONAME"]
                   ELSE IF StubsRead = <<>> THEN [error |-> "no stub"]
                   ELSE WriteExecutable(image, input.hash, StubsRead))

BuildLibc ==
    /\ input.kind = "runtime"
    /\ Convert(BuildRuntime(input.manifest.imports, input.manifest.objects, input.manifest.tls))

SelfSign(options) ==
    /\ stage = "module"
    /\ LET signed == Sign([size |-> elf.size, headers |-> elf.headers], options)
       IN  /\ container' = signed
           /\ stage' = IF signed.error = "none" THEN "signed" ELSE "refused"
    /\ UNCHANGED <<input, elf, rebuilt, verdict>>

(* --inspect rebuilds the ELF once more and compares its digest.             *)
SelfInspect ==
    /\ stage = "signed"
    /\ LET again == Extract(container)
       IN  verdict' = IF again.error = "none" /\ Digest(container, again) = container.digest THEN "valid" ELSE "INVALID"
    /\ UNCHANGED <<stage, input, elf, container, rebuilt>>

SelfExtract(strip) ==
    /\ stage = "signed"
    /\ LET again == Extract(container)
           result == IF again.error = "none" /\ strip THEN StripSections(again) ELSE again
       IN  /\ rebuilt' = result
           /\ stage' = IF result.error = "none" THEN "extracted" ELSE "refused"
    /\ UNCHANGED <<input, elf, container, verdict>>

Next ==
    \/ LinkCommand
    \/ BuildLibc
    \/ \E options \in SignOption : SelfSign(options)
    \/ SelfInspect
    \/ \E strip \in BOOLEAN : SelfExtract(strip)

Spec == Init /\ [][Next]_vars

-----------------------------------------------------------------------------
(* Properties of the module for the console.                                *)

Made == elf.error = "none"
Title == input.kind = "title"
Loads == {h \in ToSet(elf.headers) : h.type = "LOAD"}
InMemory(h) == [at |-> h.at, size |-> h.memory]
InFile(h) == [at |-> h.offset, size |-> h.size]

(* The loader puts a piece of the file where it belongs.                    *)
Mapped(piece) ==
    \E h \in Loads : /\ Within([at |-> piece.at, size |-> piece.size], [at |-> h.at, size |-> h.size])
                     /\ h.offset + (piece.at - h.at) = piece.offset

Behind == {InFile(elf.headers[i]) : i \in {11, 12, 14}}
Placed == {InFile(p) : p \in elf.pieces} \cup Behind

(* The thread-local sections are left out: the compilers emulate them.      *)
EverythingIsLoaded ==
    /\ \A a, b \in Loads : a = b \/ Disjoint(InMemory(a), InMemory(b))
    /\ \A a, b \in Placed : a = b \/ Disjoint(a, b)
    /\ \A range \in Placed : range.at >= Page /\ End(range) <= elf.size
    /\ \A piece \in elf.pieces : piece.name = ".tdata" \/ Mapped(piece)
    /\ \A s \in ToSet(input.file.sections) :
          Tls(s) \/ Metadata(s) \/ \E h \in Loads : Within([at |-> s.at, size |-> s.size], InMemory(h))

PieceAt(address) == CHOOSE p \in elf.pieces : p.at <= address /\ address < End(p)

(* The first relocations, as many as are announced, are relative ones; none   *)
(* of the added ones shares its word with another, and each leads into blocks. *)
PointersArePlaced ==
    LET added == {elf.relocations[i] : i \in 1 .. 8}
    IN  /\ \A i \in DOMAIN elf.relocations : elf.relocations[i].relative <=> i <= elf.relativeCount
        /\ Cardinality({r.at : r \in added}) = 8
        /\ \A r \in added : PieceAt(r.at).name \in {"parameters", "blocks"} /\ PieceAt(r.to).name = "blocks"
        /\ elf.relativeCount + Cardinality({i \in DOMAIN input.file.relocations : ~input.file.relocations[i].relative}) = Len(elf.relocations)

(* A title is refused only for what is wrong with it: it was cut off, its     *)
(* segments leave no room, the stubs say no name or have not what it needs.    *)
Justified ==
    LET exports == UNION {StubsRead[i].exports : i \in DOMAIN StubsRead}
        sonames == {StubsRead[i].soname : i \in DOMAIN StubsRead}
    IN  CASE elf.error = "unreadable image" -> \E s \in ToSet(input.file.sections) : ~NoBits(s) /\ s.offset + s.size > input.file.size
          [] elf.error = "no stub" -> input.stubs = <<>>
          [] elf.error = "stub without SONAME" -> \E stub \in ToSet(input.stubs) : \A e \in ToSet(Entries(stub.dynamic)) : e.tag # 14
          [] elf.error = "no room for the parameters" ->
                \E s \in ToSet(input.file.sections) : s.name = ".dynamic"
                    /\ \E got \in ToSet(input.file.sections) : Relro(got) /\ End(got) + ProcessSize + BlocksSize > s.at
          [] elf.error = "needed module missing" ->
                \E e \in ToSet(Entries(input.file.dynamic)) : e.tag = 1 /\ Normalized(e.value) \notin sonames
          [] elf.error = "import missing" ->
                \/ ~({s.name : s \in ToSet(Tail(input.file.symbols))} \subseteq exports)
                \/ \E i \in DOMAIN StubsRead : \A e \in ToSet(Entries(input.file.dynamic)) :
                        e.tag = 1 => ProviderOf(Normalized(e.value), StubsRead) # i
          [] elf.error = "application exports" -> \E s \in ToSet(Tail(input.file.symbols)) : s.defined
          [] OTHER -> FALSE

(* LayoutSound: of a linked title the loader gets every section and every      *)
(* table at the address the code and the dynamic entries use, nothing lies      *)
(* over anything else, and a title that can be converted is.                   *)
LayoutSound ==
    Title => /\ Made => EverythingIsLoaded /\ PointersArePlaced
             /\ stage = "refused" /\ container = Nothing => Justified

-----------------------------------------------------------------------------
(* What the console's linker does with the tables (external).                *)

(* The symbols it meets in the chain of a hash value, in as many steps as     *)
(* there are symbols.                                                        *)
ChainOf(table, count, value) ==
    LET walk[k \in 0 .. count] ==
            IF k = 0 THEN table.bucket[value % count]
            ELSE IF walk[k - 1] = 0 THEN 0 ELSE table.chain[walk[k - 1]]
    IN  walk

DecodedTo(digits) ==
    LET sum[k \in 0 .. Len(digits)] == IF k = 0 THEN 0 ELSE 64 * sum[k - 1] + digits[k]
    IN  sum
Decoded(digits) == DecodedTo(digits)[Len(digits)]
ModuleWith(id) == CHOOSE m \in ToSet(elf.modules) : m.id = id
LibraryWith(id) == CHOOSE l \in ToSet(elf.libraries) : l.id = id

(* Which stub a needed module stands for: the first with its name.           *)
Needed ==
    LET needs == Needs(input.file.dynamic)
    IN  [i \in DOMAIN needs |->
            StubsRead[Min({k \in DOMAIN StubsRead : StubsRead[k].soname = Normalized(needs[i].value)})]]

(* ImportsBound: the console finds each imported symbol in its chain, every     *)
(* chain ends, and the two ids in the symbol's name lead to the first needed     *)
(* module that exports it and to the library of that very module.               *)
ImportsBound ==
    Title /\ Made =>
        \A i \in DOMAIN elf.imports :
            LET import == elf.imports[i]
                count == Len(input.file.symbols)
                chain == ChainOf(elf.hash, count, input.hash[i])
                exporting == {k \in DOMAIN Needed : import.name \in Needed[k].exports}
                provider == Needed[Min(exporting)]
                module == ModuleWith(Decoded(import.module))
                library == LibraryWith(Decoded(import.library))
            IN  /\ (\E k \in 0 .. count : chain[k] = i) /\ chain[count] = 0
                /\ import.name = input.file.symbols[i + 1].name
                /\ module.soname = StringOffset(elf.strings, Soname(provider))
                /\ module.name = StringOffset(elf.strings, Name(provider.module))
                /\ library.module = module.id /\ library.name = StringOffset(elf.strings, Name(provider.library))

-----------------------------------------------------------------------------
(* RuntimeBound: in the runtime module every access of the initializer goes     *)
(* through the word that is relocated to the import it names, no word is         *)
(* relocated twice or outside the relocatable data, the tables do not overlap,   *)
(* and the exported objects keep clear of each other and of the heap interface.  *)
RuntimeBound ==
    LET words == {j.at : j \in ToSet(elf.jumps)} \cup {g.at : g \in ToSet(elf.globDat)} \cup TlsWords \cup RelativeWords
        objects == elf.objects
        SymbolName(symbol) == input.manifest.imports[symbol - ExportCount].name
    IN  ~Title /\ Made =>
            /\ \A access \in elf.accesses : \E j \in ToSet(elf.jumps) : j.at = access.slot /\ SymbolName(j.symbol) = access.name
            /\ \A k \in DOMAIN Read : SymbolName(elf.globDat[k].symbol) = Read[k]
            /\ Cardinality(words) = Len(elf.jumps) + 3 + Len(elf.globDat) + RelativeRelocationCount
            /\ \A word \in words : Within([at |-> word, size |-> 8], RelroRange) /\ word % 8 = 0
            /\ \A i \in DOMAIN MetadataTables \ {1} : End(MetadataTables[i - 1]) <= MetadataTables[i].at
            /\ End(Last(MetadataTables)) = MetadataFileSize
            /\ \A i, j \in DOMAIN objects : i = j \/ Disjoint(objects[i], objects[j])
            /\ \A i \in DOMAIN objects : Disjoint(objects[i], HeapApi) /\ objects[i].at % 8 = 0
                                         /\ Within(objects[i], [at |-> DataAddress, size |-> DataMemorySize])
            /\ \A a, b \in Loads : a = b \/ Disjoint(InMemory(a), InMemory(b))
            /\ \A h \in Loads : Congruent(h)

-----------------------------------------------------------------------------
(* The ranges a loader or --extract takes from a container.                  *)
Kept ==
    {InFile(elf.headers[i]) : i \in ToSet(Selected(elf, [procparam |-> FALSE]))}
        \cup {[at |-> 0, size |-> HeadersSize(elf.headers)]}
        \cup {InFile(h) : h \in {h \in ToSet(elf.headers) : h.type = "VERSION"}}
Edges(range) == {range.at, range.at + 1, range.at + range.size - 1} \cap (range.at .. End(range) - 1)

(* RoundTrip: whatever is made is signed, the regions of a container do not      *)
(* overlap, what is extracted from it is the signed ELF in every mapped          *)
(* segment, in the headers and in the version records, and --inspect agrees.     *)
RoundTrip ==
    LET regions == {[at |-> s.offset, size |-> s.size] : s \in ToSet(container.segments)}
    IN  /\ stage # "input" /\ Made => stage # "refused"
        /\ verdict # "INVALID"
        /\ stage = "signed" =>
               /\ \A a, b \in regions : a = b \/ Disjoint(a, b)
               /\ \A a \in regions : a.at >= container.digests /\ End(a) <= container.declared
               /\ HeaderSize + EntrySize * Len(container.segments) = container.headersAt
        /\ stage = "extracted" =>
               \A range \in Kept : \A p \in Edges(range) : p < rebuilt.size /\ RebuiltByte(container, rebuilt, p) = p
=============================================================================
