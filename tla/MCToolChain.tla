---------------------------- MODULE MCToolChain ----------------------------
(* Programs whose segments end just before, on and behind a page, imports that *)
(* several modules export, stubs that repeat a name, and runtime manifests in   *)
(* four orders.                                                               *)
EXTENDS ToolChain

Sonames == [k |-> [base |-> "libK", ext |-> "sprx"], s |-> [base |-> "libS", ext |-> "prx"]]
Tag(tag, value) == [tag |-> tag, value |-> value]
Need(name) == Tag(1, Sonames[name])
Own(name) == [name |-> name, defined |-> FALSE, binding |-> "global"]
Exported(name, binding) == [name |-> name, defined |-> TRUE, binding |-> binding]

Stub(name, symbols) == [dynamic |-> <<Tag(5, 0), Tag(14, Sonames[name]), Tag(0, 0), Tag(14, Sonames["s"])>>, symbols |-> symbols]
StubK == Stub("k", <<Own("unnamed"), Exported("a", "global"), Exported("b", "weak"), Exported("c", "local"), Own("d")>>)
StubS == Stub("s", <<Own("unnamed"), Exported("b", "global"), Exported("c", "global"), Exported("d", "weak")>>)
StubCopy == Stub("k", <<Own("unnamed"), Exported("d", "global")>>)

StubUnnamed == [StubS EXCEPT !.dynamic = <<Tag(5, 0), Tag(0, 0), Tag(14, Sonames["s"])>>]

SomeStubs == {<<StubK, StubS, StubCopy>>, <<StubCopy, StubS, StubK>>, <<StubK, StubUnnamed>>, <<>>}

Sizes(text, rodata, relro, init, data, tls, bss) ==
    [name \in {row.name : row \in ToSet(Script)} |->
        CASE name = ".text" -> text [] name = ".eh_frame_hdr" -> \h14 [] name = ".eh_frame" -> \h38
          [] name = ".rodata" -> rodata [] name = ".data.rel.ro" -> relro [] name = ".got" -> \h18
          [] name = ".init_array" -> init [] name = ".dynamic" -> \h110 [] name = ".data" -> data
          [] name = ".tdata" -> tls [] name = ".bss" -> bss [] OTHER -> 0]

NullSymbol == Own("unnamed")
Relocation(at, relative) == [at |-> at, relative |-> relative, to |-> 0]

Base == [sizes |-> Sizes(\h40, \h120, \h30, 8, \h38, 0, \h100), hashing |-> \h3000, cut |-> 0,
         symbols |-> <<NullSymbol, Own("a"), Own("b"), Own("c")>>, plt |-> <<1, 2>>,
         relocations |-> <<Relocation(\h8000, FALSE), Relocation(\h8008, TRUE), Relocation(\h8010, FALSE)>>,
         dynamic |-> <<Need("k"), Tag(12, 0), Need("s"), Tag(0, 0), Need("s")>>, hash |-> <<0, 5, 0>>]

LayoutPrograms ==
    {[Base EXCEPT !.sizes = Sizes(text, rodata, relro, init, data, tls, bss), !.hashing = hashing] :
        text \in {\h40, \h3ff8}, rodata \in {0, \h3fb0}, relro \in {0, \h30, \h3d00, \h3ff0, \h4000}, init \in {0, 8},
        data \in {0, \h38}, tls \in {0, \h10}, bss \in {0, \h5000}, hashing \in {\h40, \h4000}}

ImportPrograms ==
    {[Base EXCEPT !.symbols = <<NullSymbol>> \o symbols, !.dynamic = needs, !.cut = cut,
                  !.hash = [i \in DOMAIN symbols |-> hash[i]]] :
        symbols \in {<<>>, <<Own("b")>>, <<Own("d"), Own("a"), Own("c")>>, <<Own("a"), Own("b"), Own("c"), Own("d")>>,
                     <<Own("a"), Exported("main", "global")>>},
        needs \in {<<Need("k"), Need("s")>>, <<Need("s"), Tag(0, 0), Need("k")>>,
                   <<Need("k"), Tag(1, [base |-> "libK", ext |-> "prx"]), Need("s")>>, <<Tag(1, [base |-> "libZ", ext |-> "prx"])>>},
        cut \in {0, 8}, hash \in [1 .. 4 -> {0, 5}]}

SomePrograms == LayoutPrograms \cup ImportPrograms

(* The called and read names are spread over the manifest from a place on.    *)
RuntimeImports(first, step) ==
    LET named == Called \o Read
        at == [k \in DOMAIN named |-> ((first + (k - 1) * step) % ImportCount) + 1]
        name(i) == IF \E k \in DOMAIN named : at[k] = i THEN named[CHOOSE k \in DOMAIN named : at[k] = i] ELSE ToString(i)
    IN  [i \in 1 .. ImportCount |-> [name |-> name(i), plt |-> name(i) \notin {"__stack_chk_guard", "__progname"},
                                     globDat |-> name(i) \in ToSet(Read)]]

SomeManifests ==
    {[imports |-> imports, objects |-> objects, tls |-> tls] :
        imports \in {RuntimeImports(0, 1), RuntimeImports(92, 11), RuntimeImports(101, 101), Tail(RuntimeImports(3, 7))},
        objects \in {<<>>, <<0, 4, 8, 12>>, <<\h7680, 1>>, <<\h7688>>}, tls \in {<<>>, <<\h90, 8, 1>>}}

SomeOptions == {[magic |-> m, procparam |-> p] : m \in {"standard", "alternate"}, p \in BOOLEAN}
=============================================================================
