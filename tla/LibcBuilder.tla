----------------------------- MODULE LibcBuilder -----------------------------
(* tooling/native/libc_builder.cpp: writes the runtime module libc.prx from a   *)
(* manifest of imports and one of exports, at places that are all written down. *)
(* An import is a name and whether it is called (plt) or read (globDat); of the *)
(* exports only the sizes of the objects and thread-local objects matter here.  *)
EXTENDS IndexOrder, Integers, Sequences, FiniteSets, SequencesExt, FiniteSetsExt

GotAddress == \h10F870
GotReservedEntries == 3
MetadataAddress == \h117810
MetadataFileOffset == \h11B810
MetadataFileSize == \h2A9F8
(* The words the loader relocates: the RELRO segment up to the module parameters. *)
RelroRange == [at |-> \h10C000, size |-> \h3CE8]
DataAddress == \h110000
DataMemorySize == \h7808
ObjectStorageOffset == \h180
HeapApi == [at |-> \h110100, size |-> \h48]
InitAddress == \h100
ThreadDtorsAddress == \h200
ExportCount == 2566
ImportCount == 102
PltRelocationCount == 100
RelativeRelocationCount == 1790
GlobDatRelocationCount == 3
RuntimeFileSize == \h14629A

Called == <<"_sceKernelSetThreadDtors", "_sceKernelSetThreadAtexitCount", "_sceKernelSetThreadAtexitReport",
            "malloc", "free", "posix_memalign", "_sceKernelRtldSetApplicationHeapAPI">>
Read == <<"__stack_chk_guard", "__pthread_cxa_finalize", "__progname">>

RuntimeImport == [name : STRING, plt : BOOLEAN, globDat : BOOLEAN]
NamesOf(imports) == {imports[i].name : i \in DOMAIN imports}

(* The manifest is refused unless counts, uniqueness and the names the code   *)
(* below relies on are right.                                                *)
ReadImports(imports) ==
    IF \/ Len(imports) # ImportCount
       \/ Cardinality(NamesOf(imports)) # Len(imports)
       \/ Cardinality({i \in DOMAIN imports : imports[i].plt}) # PltRelocationCount
       \/ Cardinality({i \in DOMAIN imports : imports[i].globDat}) # GlobDatRelocationCount
       \/ ~(ToSet(Called) \cup ToSet(Read) \subseteq NamesOf(imports))
    THEN [error |-> "import manifest"] ELSE [error |-> "none"]

IndexOf(imports, name) == CHOOSE i \in DOMAIN imports : imports[i].name = name

(* Mutated form: every import before it is counted, not only the called ones. *)
ImportSlotOfAll(imports, name) ==
    LET index == IndexOf(imports, name)
    IN  IF imports[index].plt THEN GotAddress + (GotReservedEntries + index - 1) * 8 ELSE 0

(* The word of the GOT the code calls or loads through for an import; 0 when  *)
(* the import has none, which stops the build.                               *)
ImportSlot(imports, name) ==
    LET index == IndexOf(imports, name)
        slot == Cardinality({i \in 1 .. index - 1 : imports[i].plt})
    IN  IF imports[index].plt THEN GotAddress + (GotReservedEntries + slot) * 8 ELSE 0

(* The initializer: three registrations, the heap interface with its three    *)
(* functions, and the call that hands it over; each instruction by its length. *)
InitLengths == <<4, 7, 6, 7, 6, 7, 6, 7, 7, 7, 7, 7, 7, 7, 6, 7>>
InitEnd == FoldLeft(LAMBDA sum, length : sum + length, InitAddress, InitLengths)

(* Which import each of its accesses goes through.                           *)
InitAccesses(imports) == {[name |-> name, slot |-> ImportSlot(imports, name)] : name \in ToSet(Called)}

-----------------------------------------------------------------------------
(* Exported objects and thread-local objects get storage one after another,   *)
(* aligned to eight bytes, at least a byte each.                             *)
Room(size) == IF size = 0 THEN 1 ELSE size
Aligned(cursor) == ((cursor + 7) \div 8) * 8

Cursors(sizes, start) ==
    LET cursor[i \in 0 .. Len(sizes)] ==
            IF i = 0 THEN start ELSE Aligned(cursor[i - 1]) + Room(sizes[i])
    IN  cursor

Allocate(sizes, start) ==
    LET cursor == Cursors(sizes, start)
    IN  [cursor |-> cursor[Len(sizes)],
         placed |-> [i \in DOMAIN sizes |-> [at |-> Aligned(cursor[i - 1]), size |-> Room(sizes[i])]]]

Objects(sizes) == Allocate(sizes, ObjectStorageOffset)
ObjectRange(placed) == [at |-> DataAddress + placed.at, size |-> placed.size]

-----------------------------------------------------------------------------
(* The tables of the metadata segment, at the offsets that are written down.  *)
MetadataTables ==
    LET symbols == ExportCount + ImportCount + 1
        table(at, size) == [at |-> at, size |-> size]
    IN  << table(0, \hA7A3), table(\hA7A8, 24 * symbols), table(\h1A1E0, 24 * PltRelocationCount),
           table(\h1AB40, 24 * (RelativeRelocationCount + 3 + GlobDatRelocationCount)),
           table(\h253A0, 8 + 8 * symbols), table(\h2A710, \h24), table(\h2A738, 44 * 16) >>

(* The jump relocations: the k-th called import to the k-th word behind the    *)
(* reserved ones, with the index of its symbol.                              *)
JumpRelocations(imports) ==
    LET called == InOrder({i \in DOMAIN imports : imports[i].plt})
    IN  [k \in DOMAIN called |-> [at |-> GotAddress + (GotReservedEntries + k - 1) * 8,
                                  symbol |-> ExportCount + called[k]]]

(* The relative words: a run of function pointers and the word of the pre-     *)
(* initialisation array, which is set to the initializer.                     *)
RelativeWords == {\h10C008 + 8 * i : i \in 0 .. RelativeRelocationCount - 2} \cup {\h10FCE0}
TlsWords == {\h10F818, \h10F828, \h10F838}

(* The last import of the name that is read decides.                         *)
GlobDatTargets == << \h10F800, \h10F848, \h10F850 >>
GlobDat(imports) ==
    [k \in DOMAIN Read |->
        LET found == {i \in DOMAIN imports : imports[i].name = Read[k] /\ imports[i].globDat}
        IN  [at |-> GlobDatTargets[k], symbol |-> IF found = {} THEN 0 ELSE ExportCount + Max(found)]]

Row(type, flags, offset, at, size, memory) ==
    [type |-> type, flags |-> flags, offset |-> offset, at |-> at, size |-> size, memory |-> memory]

RuntimeHeaders ==
    << Row("LOAD", "x", \h4000, 0, \hC8092, \hC8092), Row("LOAD", "r", \hD0000, \hCC000, \h3DF80, \h3DF80),
       Row("LOAD", "rw", \h110000, \h10C000, \h3EA0, \h3EA0), Row("GNU_RELRO", "r", \h110000, \h10C000, \h3EA0, \h4000),
       Row("LOAD", "rw", \h114000, \h110000, \h3B78, DataMemorySize), Row("MODULEPARAM", "r", \h113CE8, \h10FCE8, \h20, \h20),
       Row("DYNAMIC", "rw", MetadataFileOffset + \h2A738, MetadataAddress + \h2A738, \h2C0, \h2C0),
       Row("TLS", "r", \h113D20, \h10FD20, \h180, \h468), Row("EH_FRAME", "r", \h108164, \h104164, \h5E1C, \h5E1C),
       Row("LOAD", "none", MetadataFileOffset, MetadataAddress, MetadataFileSize, MetadataFileSize),
       Row("COMMENT", "none", \h146210, 0, \h58, 0), Row("VERSION", "none", \h146280, 0, \h1A, \h20),
       Row("NOTE", "none", MetadataFileOffset + \h2A710, MetadataAddress + \h2A710, \h24, \h24),
       Row("NOTE", "none", \h146268, 0, \h18, 0) >>

(* build_runtime(): a refused manifest, an object that does not fit, an import *)
(* that is called but has no slot or is read but not declared so stop it.     *)
BuildRuntime(imports, objects, tls) ==
    IF ReadImports(imports).error # "none" THEN ReadImports(imports)
    ELSE IF InitEnd >= ThreadDtorsAddress THEN [error |-> "initializer too long"]
    ELSE IF \E access \in InitAccesses(imports) : access.slot = 0 THEN [error |-> "import has no slot"]
    ELSE IF Objects(objects).cursor > DataMemorySize THEN [error |-> "objects do not fit"]
    ELSE IF Allocate(tls, 0).cursor > \h468 THEN [error |-> "thread-local storage does not fit"]
    ELSE IF \E k \in DOMAIN Read : GlobDat(imports)[k].symbol = 0 THEN [error |-> "import is not read"]
    ELSE [error |-> "none", size |-> RuntimeFileSize, headers |-> RuntimeHeaders,
          accesses |-> InitAccesses(imports), jumps |-> JumpRelocations(imports), globDat |-> GlobDat(imports),
          objects |-> [i \in DOMAIN objects |-> ObjectRange(Objects(objects).placed[i])]]
=============================================================================
